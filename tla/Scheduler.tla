---------------------------- MODULE Scheduler ----------------------------
(***************************************************************************)
(* The process table and the round robin of kernel/proc/scheduler.c, with  *)
(* the code that enters them: kmain's two kforks, the timer interrupt, the *)
(* system calls of a kernel process and exit_v.                            *)
(*                                                                         *)
(* Interrupt gates clear IF and there is one CPU, so an interrupt handler  *)
(* (the timer tick, a system call) is one step; kmain, kfork and exit_v    *)
(* run with interrupts enabled and are cut where a tick can see the        *)
(* difference.  What a process computes is abstracted to a step counter    *)
(* that its saved registers carry; its stack pointer is a field of its     *)
(* own, for schedule does not put that one back where it was.  What        *)
(* schedule prints at every dispatch is in Console.                        *)
(***************************************************************************)
EXTENDS Integers, FiniteSets

CONSTANTS
    MaxPid,          \* 65535, the last slot of proc_list
    BootForks,       \* how many processes kmain starts
    ExitPids,        \* the processes that exit
    Syscalls,        \* the kinds of system calls the processes make
    FreshIntNos,     \* what kfork's uncleared page may hold in regs.int_no
    StackRoom,       \* how far dispatches can lower a stack pointer in its page
    StepMod,         \* bound: the step counter wraps here
    MaxActive        \* bound: active_procs up to which processes fork

ASSUME SchedulerAssumption ==
    /\ MaxPid \in Nat \ {0}
    /\ BootForks \in 0..MaxPid
    /\ ExitPids \subseteq 1..MaxPid
    /\ Syscalls \subseteq {"exit", "fork", "other"}
    /\ FreshIntNos \subseteq {"low", "high"}
    /\ StackRoom \in Nat /\ StepMod \in Nat \ {0}
    /\ MaxActive \in Nat

VARIABLES
    proc_list,       \* the entry of every slot
    cpid,            \* current scheduled pid
    lapid,           \* last assigned pid
    active_procs,
    cpu,             \* the context the processor is executing
    in_service,      \* IRQ0 is in service at the PIC: no EOI was sent yet
    booted,          \* ghost: kmain has finished its kforks
    progress         \* ghost: the steps each process has really executed

vars == <<proc_list, cpid, lapid, active_procs, cpu, in_service, booted, progress>>

Slots == 0..MaxPid
Pids == 1..MaxPid

(***************************************************************************)
(* irq_registers_t: whose registers, where they point, how far they got    *)
(* and the interrupt number of the frame.  "low" is a number below 0x30,   *)
(* "high" one that is not, such as the sign-extended 0x80 softint pushes.  *)
(* The stack pointer: whose stack it points to (0 is kmain's), and by how  *)
(* many times 28 bytes schedule has lowered it.                            *)
(***************************************************************************)
Context == [owner : Slots, pc : {"register", "init", "count", "run", "spin"},
            step : Nat, int_no : {"low", "high"}, stack : Slots, lowered : 0..StackRoom]

\* What dispatching an entry leads to whose process32_t nobody has filled in, or
\* whose stack has run out of its page.
Garbage == [owner |-> 0, pc |-> "spin", step |-> 0, int_no |-> "high",
            stack |-> 0, lowered |-> 0]

(***************************************************************************)
(* A slot of proc_list: 0, or an entry.  `ready' is whether its registers  *)
(* have been written; ppid is 0 for what kfork started.  Slot 0 holds the   *)
(* (void * )-1 that init_scheduler stores and is never dispatched.          *)
(***************************************************************************)
Entry == [used : BOOLEAN, ready : BOOLEAN, ring0 : BOOLEAN, ppid : Slots, regs : Context]

Empty    == [used |-> FALSE, ready |-> FALSE, ring0 |-> FALSE, ppid |-> 0, regs |-> Garbage]
Unfilled == [used |-> TRUE, ready |-> FALSE, ring0 |-> FALSE, ppid |-> 0, regs |-> Garbage]

Ready(p) == proc_list[p].used /\ proc_list[p].ready

\* The processor runs from registers nobody wrote, or a stack has been written over
\* its neighbour: nothing is claimed after that.
Crashed == cpu = Garbage

\* kmain after init_scheduler: nothing runs yet and cpid 0 stands for kmain.
Init ==
    /\ proc_list = [s \in Slots |-> IF s = 0 THEN Unfilled ELSE Empty]
    /\ cpid = 0
    /\ lapid = 0
    /\ active_procs = 0
    /\ cpu = [owner |-> 0, pc |-> "register", step |-> 0, int_no |-> "low",
              stack |-> 0, lowered |-> 0]
    /\ in_service = FALSE
    /\ booted = FALSE
    /\ progress = [p \in Pids |-> 0]

----------------------------------------------------------------------------
\* Fault: every search begins at slot 1.
NextUsed_lowest(slots, c, t) ==
    t \in Pids /\ slots[t].used /\ \A s \in 1..(t - 1) : ~slots[s].used

\* Slot t is the first used one when the table is searched cyclically from the
\* slot after c; slot 0 is passed over by the recursive call.
NextUsed(slots, c, t) ==
    /\ t \in Pids /\ slots[t].used
    /\ \/ t > c /\ \A s \in (c + 1)..(t - 1) : ~slots[s].used
       \/ t <= c /\ \A s \in ((c + 1)..MaxPid) \cup (1..(t - 1)) : ~slots[s].used

\* Fault: the next slot is taken without a look at what is in it.
NextFree_next(slots, c, t) == t = IF c = MaxPid THEN 1 ELSE c + 1

\* Slot t is where register_process's search from lapid ends.
NextFree(slots, c, t) ==
    /\ t \in Pids /\ ~slots[t].used
    /\ \/ t >= c /\ \A s \in c..(t - 1) : slots[s].used
       \/ t < c /\ \A s \in (c..MaxPid) \cup (0..(t - 1)) : slots[s].used

(***************************************************************************)
(* The frame schedule returns.  A ring-0 process gets one of its own, put  *)
(* sizeof(irq_user_registers_t) = 76 bytes below the saved esp where the   *)
(* interrupted one lay 48 below: popa does not load esp, so the process    *)
(* goes on 28 bytes lower than it was.  Another's registers are put over   *)
(* the frame of the process that was interrupted, and it goes on there.    *)
(***************************************************************************)
Resumed(entry, oldregs) ==
    IF ~entry.ready \/ (entry.ring0 /\ entry.regs.lowered = StackRoom) THEN Garbage
    ELSE IF entry.ring0 THEN [entry.regs EXCEPT !.lowered = @ + 1]
    ELSE [entry.regs EXCEPT !.stack = oldregs.stack, !.lowered = oldregs.lowered]

\* Fault: the registers are saved after cpid has moved on.
schedule_late(oldregs, slots, active) ==
    \/ /\ active = 0
       /\ proc_list' = slots
       /\ cpu' = oldregs
       /\ UNCHANGED cpid
    \/ /\ active # 0
       /\ \E t \in Pids :
            /\ NextUsed(slots, cpid, t)
            /\ cpid' = t
            /\ proc_list' = [slots EXCEPT ![t].regs = oldregs]
            /\ cpu' = Resumed(slots[t], oldregs)

(***************************************************************************)
(* schedule(oldregs), called with the table and the count its caller left. *)
(* The context of cpid 0 is not saved, and an empty slot's is stored       *)
(* through a null entry (the word at address 0 taken as a process          *)
(* pointer), where nothing this module keeps is changed.                   *)
(***************************************************************************)
schedule(oldregs, slots, active) ==
    \/ /\ active = 0
       /\ proc_list' = slots
       /\ cpu' = oldregs
       /\ UNCHANGED cpid
    \/ /\ active # 0
       /\ proc_list' = IF cpid # 0 /\ slots[cpid].used
                       THEN [slots EXCEPT ![cpid].regs = oldregs]
                       ELSE slots
       /\ \E t \in Pids :
            /\ NextUsed(slots, cpid, t)
            /\ cpid' = t
            /\ cpu' = Resumed(proc_list'[t], oldregs)

----------------------------------------------------------------------------
(***************************************************************************)
(* kmain's kforks.  The entry is published by register_process before kfork *)
(* fills it in, and counted at the end.  Memory is taken to suffice.       *)
(***************************************************************************)
Kmain == cpu.owner = 0 /\ ~Crashed

\* Fault: the process is counted when its pid is chosen, before it is in the table.
register_process_counted ==
    /\ Kmain /\ cpu.pc = "register" /\ cpu.step < BootForks
    /\ \E t \in Pids : NextFree(proc_list, lapid, t) /\ lapid' = t
    /\ active_procs' = active_procs + 1
    /\ cpu' = [cpu EXCEPT !.pc = "init"]
    /\ UNCHANGED <<proc_list, cpid, in_service, booted, progress>>

register_process ==
    /\ Kmain /\ cpu.pc = "register" /\ cpu.step < BootForks
    /\ \E t \in Pids :
        /\ NextFree(proc_list, lapid, t)
        /\ lapid' = t
        /\ proc_list' = [proc_list EXCEPT ![t] = Unfilled]
    /\ cpu' = [cpu EXCEPT !.pc = "init"]
    /\ UNCHANGED <<cpid, active_procs, in_service, booted, progress>>

kfork_init ==
    /\ Kmain /\ cpu.pc = "init"
    /\ \E n \in FreshIntNos :
        proc_list' = [proc_list EXCEPT ![lapid] =
            [used |-> TRUE, ready |-> TRUE, ring0 |-> TRUE, ppid |-> 0,
             regs |-> [owner |-> lapid, pc |-> "run", step |-> 0, int_no |-> n,
                       stack |-> lapid, lowered |-> 0]]]
    /\ progress' = [progress EXCEPT ![lapid] = 0]
    /\ cpu' = [cpu EXCEPT !.pc = "count"]
    /\ UNCHANGED <<cpid, lapid, active_procs, in_service, booted>>

kfork_count ==
    /\ Kmain /\ cpu.pc = "count"
    /\ active_procs' = active_procs + 1
    /\ cpu' = [cpu EXCEPT !.pc = "register", !.step = cpu.step + 1]
    /\ booted' = (cpu.step + 1 = BootForks)
    /\ UNCHANGED <<proc_list, cpid, lapid, in_service, progress>>

kfork == register_process \/ kfork_init \/ kfork_count

----------------------------------------------------------------------------
\* The processor is executing the code of process p.
Running(p) == p # 0 /\ cpu.owner = p /\ cpu.pc = "run"

\* A process computes.  A function that returns takes its stack pointer from ebp,
\* and so makes good what dispatches have taken from it since it was called.
Execute ==
    /\ \E p \in Pids, depth \in 0..cpu.lowered :
        /\ Running(p)
        /\ cpu' = [cpu EXCEPT !.step = (cpu.step + 1) % StepMod, !.lowered = depth]
        /\ progress' = [progress EXCEPT ![p] = (progress[p] + 1) % StepMod]
    /\ UNCHANGED <<proc_list, cpid, lapid, active_procs, in_service, booted>>

(***************************************************************************)
(* The timer interrupt: irq0_timer_handler calls schedule, then            *)
(* _irq_handler acknowledges the PIC only if the interrupt number in the   *)
(* frame it is about to return to is below 0x30.                           *)
(***************************************************************************)
irq0_timer_handler ==
    /\ ~in_service /\ ~Crashed
    /\ schedule([cpu EXCEPT !.int_no = "low"], proc_list, active_procs)
    /\ in_service' = (cpu'.int_no = "high")
    /\ UNCHANGED <<lapid, active_procs, booted, progress>>

\* The frame of an int 0x80.
SyscallFrame == [cpu EXCEPT !.int_no = "high"]

\* A system call that leaves the process table alone, then schedule.
sys_other ==
    /\ "other" \in Syscalls
    /\ \E p \in Pids : Running(p) /\ proc_list[p].ring0
    /\ schedule(SyscallFrame, proc_list, active_procs)
    /\ UNCHANGED <<lapid, active_procs, in_service, booted, progress>>

\* exit_proc, then schedule.  What runs on if nothing else can is the code after
\* the int 0x80 of a process that is gone.
sys_exit ==
    /\ "exit" \in Syscalls
    /\ \E p \in ExitPids :
        /\ Running(p) /\ p = cpid /\ proc_list[p].ring0
        /\ active_procs' = active_procs - 1
        /\ schedule([SyscallFrame EXCEPT !.pc = "spin"],
                    [proc_list EXCEPT ![p] = Empty], active_procs')
    /\ UNCHANGED <<lapid, in_service, booted, progress>>

(***************************************************************************)
(* fork, then schedule.  The new entry is registered first; when kumalloc  *)
(* fails fork returns with it in the table, not filled in and not counted. *)
(* Otherwise the child's registers are those last saved for the parent,    *)
(* not the frame of this call, the stack pointer with them: the copy of    *)
(* the stack is not used.  The entry's ring0 bit is not written.           *)
(***************************************************************************)
sys_fork ==
    /\ "fork" \in Syscalls
    /\ active_procs < MaxActive
    /\ \E p, t \in Pids, bit \in BOOLEAN :
        /\ Running(p) /\ p = cpid /\ proc_list[p].ring0
        /\ NextFree(proc_list, lapid, t)
        /\ lapid' = t
        /\ \/ /\ UNCHANGED <<active_procs, progress>>
              /\ schedule(SyscallFrame, [proc_list EXCEPT ![t] = Unfilled], active_procs)
           \/ /\ active_procs' = active_procs + 1
              /\ progress' = [progress EXCEPT ![t] = proc_list[p].regs.step]
              /\ schedule(SyscallFrame,
                          [proc_list EXCEPT ![t] =
                              [used |-> TRUE, ready |-> TRUE, ring0 |-> bit, ppid |-> p,
                               regs |-> [proc_list[p].regs EXCEPT !.owner = t]]],
                          active_procs')
    /\ UNCHANGED <<in_service, booted>>

(***************************************************************************)
(* Without the ring0 bit an int 0x80 goes to the handler table, which holds *)
(* the softint stub itself: it re-enters until the stack is gone.          *)
(***************************************************************************)
sys_not_ring0 ==
    /\ Syscalls # {}
    /\ \E p \in Pids : Running(p) /\ ~proc_list[p].ring0
    /\ cpu' = Garbage
    /\ UNCHANGED <<proc_list, cpid, lapid, active_procs, in_service, booted, progress>>

(***************************************************************************)
(* exit_v, called by a kernel process: the entry is removed, then the      *)
(* count goes down, then the process spins until a tick takes it away.     *)
(***************************************************************************)
exit_v_remove ==
    /\ \E p \in ExitPids :
        /\ Running(p) /\ p = cpid
        /\ proc_list' = [proc_list EXCEPT ![p] = Empty]
    /\ cpu' = [cpu EXCEPT !.pc = "count"]
    /\ UNCHANGED <<cpid, lapid, active_procs, in_service, booted, progress>>

\* Fault: the count is lowered twice, by exit_v and by what it calls.
exit_v_count_twice ==
    /\ cpu.owner # 0 /\ cpu.pc = "count"
    /\ active_procs' = active_procs - 2
    /\ cpu' = [cpu EXCEPT !.pc = "spin"]
    /\ UNCHANGED <<proc_list, cpid, lapid, in_service, booted, progress>>

exit_v_count ==
    /\ cpu.owner # 0 /\ cpu.pc = "count"
    /\ active_procs' = active_procs - 1
    /\ cpu' = [cpu EXCEPT !.pc = "spin"]
    /\ UNCHANGED <<proc_list, cpid, lapid, in_service, booted, progress>>

exit_v == exit_v_remove \/ exit_v_count

Next ==
    \/ kfork
    \/ Execute
    \/ irq0_timer_handler
    \/ sys_other
    \/ sys_exit
    \/ sys_fork
    \/ sys_not_ring0
    \/ exit_v

Spec == Init /\ [][Next]_vars

(***************************************************************************)
(* The processor goes on executing kmain and the PIT goes on ticking.      *)
(***************************************************************************)
FairSpec == Spec /\ WF_vars(kfork) /\ WF_vars(irq0_timer_handler)

----------------------------------------------------------------------------
\* Every variable has its type; active_procs never wraps below 0.
TypeOK ==
    /\ proc_list \in [Slots -> Entry]
    /\ cpid \in Slots /\ lapid \in Slots
    /\ active_procs \in Nat
    /\ cpu \in Context
    /\ in_service \in BOOLEAN /\ booted \in BOOLEAN
    /\ progress \in [Pids -> 0..(StepMod - 1)]

\* The registers of the process that schedule put on the processor, and those saved
\* for every other one, are its own and are where it left off.
RegistersKept ==
    ~Crashed => \A p \in Pids : Ready(p) =>
        LET context == IF p = cpid THEN cpu ELSE proc_list[p].regs IN
        context.owner = p /\ context.pc = "run" /\ context.step = progress[p]

\* A process that kfork started is a kernel process and is on its own stack.
OwnStacks ==
    ~Crashed => \A p \in Pids : Ready(p) /\ proc_list[p].ppid = 0 =>
        LET context == IF p = cpid THEN cpu ELSE proc_list[p].regs IN
        proc_list[p].ring0 /\ context.stack = p

\* No process loses, repeats or borrows work as far as its registers hold it: schedule
\* gives every process its own back, where it left off.  The stack pointer is the
\* exception (scheduler.c, schedule): it comes back lower each time, though for what
\* kfork started in the process's own stack until that stack has left its page.
\* Nothing is said of the stack of what fork started, which is its parent's or that of
\* whoever was interrupted, nor of what the stacks hold.
ContextIntegrity == RegistersKept /\ OwnStacks

\* What is on the processor is kmain until the first dispatch and then belongs to
\* cpid; a process that has not begun to exit has its entry, and scheduling is
\* switched on under everything but a process that has exited.
RunningInv ==
    ~Crashed =>
        /\ cpu.owner = 0 => cpid = 0
        /\ cpu.owner # 0 =>
            /\ cpu.owner = cpid
            /\ cpu.pc = "run" => Ready(cpid)
            /\ cpu.pc # "spin" => active_procs > 0

\* The registers in the entry of a process that can run, which fork copies, are
\* those of a point in its code.
SavedInv ==
    \A p \in Pids : Ready(p) =>
        proc_list[p].regs.pc = "run" /\ proc_list[p].regs.step \in 0..(StepMod - 1)

\* Once kmain has started its processes, the count that switches scheduling off
\* is never below the number of processes that can run.
CountCoversReady ==
    booted => active_procs >= Cardinality({p \in Pids : Ready(p)})

\* schedule's search always ends: as long as it is switched on there is a used
\* slot besides the sentinel (else it calls itself until the stack is gone).
SearchEnds == active_procs > 0 => \E p \in Pids : proc_list[p].used

\* A used slot is given up only by its own process, and a registration never
\* replaces an entry that was filled in.
NoEviction ==
    [][\A p \in Pids :
        /\ proc_list[p].used /\ ~proc_list'[p].used => cpid = p
        /\ Ready(p) /\ proc_list'[p].used => proc_list'[p].ready]_vars

\* After boot every process that stays ready is put on the processor again and
\* again, as long as the timer is acknowledged, no fork has failed halfway and no
\* stack has left its page.
EveryoneRuns ==
    \A p \in Pids : (booted /\ Ready(p)) ~> (cpid = p \/ ~Ready(p) \/ in_service \/ Crashed)

\* A tick is acknowledged when its handler is done, so there will be another.
TicksGoOn == ~in_service

\* kmain starts all its processes, the emergency shell being the last.
ShellIsStarted == <>booted
==========================================================================
