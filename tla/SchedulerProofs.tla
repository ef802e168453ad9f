------------------------- MODULE SchedulerProofs -------------------------
(***************************************************************************)
(* Theorems about Scheduler for every number of slots, of processes kmain  *)
(* starts and of processes that exit.                                      *)
(***************************************************************************)
EXTENDS Scheduler, FiniteSetTheorems, TLAPS

\* A context is one of process p, n steps into its code.
At(context, p, n) == context.owner = p /\ context.pc = "run" /\ context.step = n

\* A context is the one process p left off with.
Own(context, p) == At(context, p, progress[p])

LEMMA GarbageType == Garbage \in Context /\ Garbage.pc = "spin" /\ Garbage.owner = 0
  BY SchedulerAssumption DEF Garbage, Context, Slots

LEMMA EntryTypes == Empty \in Entry /\ Unfilled \in Entry
  BY GarbageType, SchedulerAssumption DEF Empty, Unfilled, Entry, Slots

LEMMA InitInv == Init => TypeOK /\ RegistersKept /\ RunningInv /\ SavedInv
  <1> SUFFICES ASSUME Init PROVE TypeOK /\ RegistersKept /\ RunningInv /\ SavedInv
    OBVIOUS
  <1>1. TypeOK
    <2>1. proc_list \in [Slots -> Entry]
      BY EntryTypes DEF Init
    <2>2. cpu \in Context
      BY SchedulerAssumption DEF Init, Context, Slots
    <2>3. progress \in [Pids -> 0..(StepMod - 1)]
      BY SchedulerAssumption DEF Init
    <2>4. cpid \in Slots /\ lapid \in Slots /\ active_procs \in Nat
      BY SchedulerAssumption DEF Init, Slots
    <2>5. in_service \in BOOLEAN /\ booted \in BOOLEAN
      BY DEF Init
    <2> QED BY <2>1, <2>2, <2>3, <2>4, <2>5 DEF TypeOK
  <1>2. \A p \in Pids : ~Ready(p)
    BY SchedulerAssumption DEF Init, Ready, Empty, Slots, Pids
  <1>3. RunningInv
    BY DEF Init, RunningInv
  <1> QED BY <1>1, <1>2, <1>3 DEF RegistersKept, SavedInv

----------------------------------------------------------------------------
(***************************************************************************)
(* schedule keeps contexts with their owners.  The hypotheses are what its *)
(* callers establish about the frame and the table they pass.              *)
(***************************************************************************)
LEMMA ResumedType ==
    ASSUME NEW entry \in Entry, NEW oldregs \in Context
    PROVE  /\ Resumed(entry, oldregs) \in Context
           /\ \/ Resumed(entry, oldregs) = Garbage
              \/ /\ entry.ready
                 /\ Resumed(entry, oldregs).owner = entry.regs.owner
                 /\ Resumed(entry, oldregs).pc = entry.regs.pc
                 /\ Resumed(entry, oldregs).step = entry.regs.step
                 /\ Resumed(entry, oldregs).stack =
                       IF entry.ring0 THEN entry.regs.stack ELSE oldregs.stack
  <1>1. entry.regs \in Context
    BY DEF Entry
  <1>2. CASE ~entry.ready \/ (entry.ring0 /\ entry.regs.lowered = StackRoom)
    BY <1>2, GarbageType DEF Resumed
  <1>3. CASE entry.ready /\ entry.ring0 /\ entry.regs.lowered # StackRoom
    <2>1. entry.regs.lowered + 1 \in 0..StackRoom
      BY <1>1, <1>3, SchedulerAssumption DEF Context
    <2>2. Resumed(entry, oldregs) = [entry.regs EXCEPT !.lowered = entry.regs.lowered + 1]
      BY <1>3 DEF Resumed
    <2> QED BY <1>1, <1>3, <2>1, <2>2 DEF Context
  <1>4. CASE entry.ready /\ ~entry.ring0
    <2>1. Resumed(entry, oldregs) =
            [entry.regs EXCEPT !.stack = oldregs.stack, !.lowered = oldregs.lowered]
      BY <1>4 DEF Resumed
    <2>2. oldregs.stack \in Slots /\ oldregs.lowered \in 0..StackRoom
      BY DEF Context
    <2> QED BY <1>1, <1>4, <2>1, <2>2 DEF Context
  <1> QED BY <1>2, <1>3, <1>4

LEMMA ScheduleType ==
    ASSUME TypeOK, NEW oldregs \in Context, NEW slots \in [Slots -> Entry], NEW active,
           schedule(oldregs, slots, active)
    PROVE  /\ proc_list' \in [Slots -> Entry]
           /\ cpid' \in Slots
           /\ cpu' \in Context
  <1>1. CASE active = 0
    BY <1>1 DEF schedule, TypeOK
  <1>2. CASE active # 0
    <2>1. [slots EXCEPT ![cpid].regs = oldregs] \in [Slots -> Entry]
      BY DEF TypeOK, Entry
    <2>2. proc_list' \in [Slots -> Entry]
      BY <1>2, <2>1 DEF schedule
    <2>3. PICK t \in Pids : /\ cpid' = t
                            /\ cpu' = Resumed(proc_list'[t], oldregs)
      BY <1>2 DEF schedule
    <2>4. t \in Slots
      BY SchedulerAssumption DEF Pids, Slots
    <2>5. proc_list'[t] \in Entry
      BY <2>2, <2>4
    <2>6. cpu' \in Context
      BY <2>3, <2>5, ResumedType
    <2> QED BY <2>2, <2>3, <2>4, <2>6
  <1> QED BY <1>1, <1>2

LEMMA ScheduleKeeps ==
    ASSUME TypeOK, NEW oldregs \in Context, NEW slots \in [Slots -> Entry],
           NEW active \in Nat, active_procs' = active,
           progress' \in [Pids -> 0..(StepMod - 1)],
           \A p \in Pids : slots[p].used /\ slots[p].ready =>
               /\ At(IF p = cpid THEN oldregs ELSE slots[p].regs, p, progress'[p])
               /\ slots[p].regs.pc = "run"
               /\ slots[p].regs.step \in 0..(StepMod - 1),
           oldregs.owner = 0 => cpid = 0,
           oldregs.owner # 0 =>
               /\ oldregs.owner = cpid
               /\ oldregs.pc = "run" => slots[cpid].used /\ slots[cpid].ready
               /\ oldregs.pc # "spin" => active > 0,
           schedule(oldregs, slots, active)
    PROVE  RegistersKept' /\ RunningInv' /\ SavedInv'
  <1>1. CASE active = 0
    <2>1. proc_list' = slots /\ cpu' = oldregs /\ cpid' = cpid
      BY <1>1 DEF schedule
    <2>2. RegistersKept'
      BY <2>1 DEF RegistersKept, At, Ready
    <2>3. RunningInv'
      BY <2>1 DEF RunningInv, Ready
    <2>4. SavedInv'
      BY <2>1 DEF SavedInv, Ready
    <2> QED BY <2>2, <2>3, <2>4
  <1>2. CASE active # 0
    <2>1. proc_list' = IF cpid # 0 /\ slots[cpid].used
                       THEN [slots EXCEPT ![cpid].regs = oldregs]
                       ELSE slots
      BY <1>2 DEF schedule
    <2>2. PICK t \in Pids : /\ slots[t].used /\ cpid' = t
                            /\ cpu' = Resumed(proc_list'[t], oldregs)
      BY <1>2 DEF schedule, NextUsed
    <2>3. cpid \in Slots /\ \A p \in Pids : p \in Slots /\ p # 0
      BY SchedulerAssumption DEF TypeOK, Pids, Slots
    <2>4. \A p \in Pids : /\ proc_list'[p].used = slots[p].used
                          /\ proc_list'[p].ready = slots[p].ready
      <3>1. [slots EXCEPT ![cpid].regs = oldregs] =
               [s \in Slots |-> IF s = cpid THEN [slots[s] EXCEPT !.regs = oldregs] ELSE slots[s]]
        BY <2>3
      <3>2. \A s \in Slots : /\ [slots[s] EXCEPT !.regs = oldregs].used = slots[s].used
                             /\ [slots[s] EXCEPT !.regs = oldregs].ready = slots[s].ready
        BY DEF Entry
      <3> QED BY <2>1, <2>3, <3>1, <3>2
    <2>5. \A p \in Pids : slots[p].used => 
             proc_list'[p].regs = IF p = cpid THEN oldregs ELSE slots[p].regs
      BY <2>1, <2>3 DEF Entry
    <2>6. \A p \in Pids : slots[p].used /\ slots[p].ready =>
             At(proc_list'[p].regs, p, progress'[p])
      BY <2>5
    <2>7. SavedInv'
      BY <2>4, <2>6 DEF SavedInv, At, Ready
    <2> DEFINE entry == proc_list'[t]
    <2>10. entry \in Entry
      BY <2>3, ScheduleType
    <2>11. \/ cpu' = Garbage
           \/ /\ entry.ready /\ cpu'.owner = entry.regs.owner
              /\ cpu'.pc = entry.regs.pc /\ cpu'.step = entry.regs.step
      <3> HIDE DEF entry
      <3> QED BY <2>2, <2>10, ResumedType DEF entry
    <2>8. CASE proc_list'[t].ready /\ cpu' # Garbage
      <3>1. At(cpu', t, progress'[t])
        BY <2>2, <2>4, <2>6, <2>8, <2>11 DEF At
      <3>2. RegistersKept'
        BY <2>2, <2>4, <2>6, <3>1 DEF RegistersKept, At, Ready
      <3>3. RunningInv'
        BY <1>2, <2>2, <2>3, <2>4, <2>8, <3>1 DEF RunningInv, At, Ready
      <3> QED BY <2>7, <3>2, <3>3
    <2>9. CASE cpu' = Garbage
      BY <2>9, <2>7 DEF RegistersKept, RunningInv, Crashed
    <2> QED BY <2>8, <2>9, <2>11
  <1> QED BY <1>1, <1>2

----------------------------------------------------------------------------
Inv == TypeOK /\ RegistersKept /\ RunningInv /\ SavedInv

\* What the callers of schedule know of the process they interrupt.
LEMMA Interrupted ==
    ASSUME Inv, ~Crashed, NEW p \in Pids, Ready(p)
    PROVE  Own(IF p = cpid THEN cpu ELSE proc_list[p].regs, p)
  BY DEF Inv, RegistersKept, Own, At

LEMMA FrameType ==
    ASSUME TypeOK, NEW n \in {"low", "high"}
    PROVE  /\ [cpu EXCEPT !.int_no = n] \in Context
           /\ [cpu EXCEPT !.int_no = n].owner = cpu.owner
           /\ [cpu EXCEPT !.int_no = n].pc = cpu.pc
           /\ [cpu EXCEPT !.int_no = n].step = cpu.step
           /\ [cpu EXCEPT !.int_no = n].stack = cpu.stack
  BY DEF TypeOK, Context

\* An interrupt that leaves the table alone and calls schedule.
LEMMA TickKeeps ==
    ASSUME Inv, ~Crashed, NEW n \in {"low", "high"},
           schedule([cpu EXCEPT !.int_no = n], proc_list, active_procs),
           UNCHANGED <<active_procs, progress>>
    PROVE  RegistersKept' /\ RunningInv' /\ SavedInv'
  <1> DEFINE frame == [cpu EXCEPT !.int_no = n]
  <1>1. /\ frame \in Context /\ frame.owner = cpu.owner
        /\ frame.pc = cpu.pc /\ frame.step = cpu.step
    BY FrameType DEF Inv
  <1> HIDE DEF frame
  <1>2. \A p \in Pids : proc_list[p].used /\ proc_list[p].ready =>
               /\ At(IF p = cpid THEN frame ELSE proc_list[p].regs, p, progress'[p])
               /\ proc_list[p].regs.pc = "run"
               /\ proc_list[p].regs.step \in 0..(StepMod - 1)
    BY <1>1, Interrupted DEF Own, At, Ready, Inv, SavedInv
  <1>3. /\ frame.owner = 0 => cpid = 0
        /\ frame.owner # 0 =>
               /\ frame.owner = cpid
               /\ frame.pc = "run" => proc_list[cpid].used /\ proc_list[cpid].ready
               /\ frame.pc # "spin" => active_procs > 0
    BY <1>1 DEF Inv, RunningInv, Ready
  <1>4. /\ proc_list \in [Slots -> Entry] /\ active_procs \in Nat /\ TypeOK
        /\ progress' \in [Pids -> 0..(StepMod - 1)]
    BY DEF Inv, TypeOK
  <1>5. schedule(frame, proc_list, active_procs)
    BY DEF frame
  <1> QED BY <1>1, <1>2, <1>3, <1>4, <1>5, ScheduleKeeps

LEMMA RunningFacts ==
    ASSUME Inv, NEW p \in Pids, Running(p)
    PROVE  ~Crashed /\ p = cpid /\ Ready(p) /\ active_procs > 0
           /\ cpu.step = progress[p]
  <1>1. ~Crashed
    BY GarbageType DEF Running, Crashed
  <1>2. p = cpid /\ Ready(p) /\ active_procs > 0
    BY <1>1 DEF Inv, RunningInv, Running
  <1> QED BY <1>1, <1>2, Interrupted DEF Own, At

LEMMA TickInv == ASSUME Inv, irq0_timer_handler PROVE Inv'
  <1> DEFINE frame == [cpu EXCEPT !.int_no = "low"]
  <1>1. frame \in Context /\ proc_list \in [Slots -> Entry] /\ TypeOK
    BY FrameType DEF Inv, TypeOK
  <1>2. schedule(frame, proc_list, active_procs)
    BY DEF irq0_timer_handler
  <1> HIDE DEF frame
  <1>3. /\ proc_list' \in [Slots -> Entry] /\ cpid' \in Slots
        /\ cpu' \in Context
    BY <1>1, <1>2, ScheduleType
  <1>4. in_service' \in BOOLEAN
    BY DEF irq0_timer_handler
  <1>5. TypeOK'
    BY <1>3, <1>4 DEF irq0_timer_handler, Inv, TypeOK
  <1>6. RegistersKept' /\ RunningInv' /\ SavedInv'
    BY TickKeeps DEF irq0_timer_handler
  <1> QED BY <1>5, <1>6 DEF Inv

LEMMA SysOtherInv == ASSUME Inv, sys_other PROVE Inv'
  <1>1. SyscallFrame \in Context /\ proc_list \in [Slots -> Entry] /\ TypeOK
    BY FrameType DEF Inv, TypeOK, SyscallFrame
  <1>2. schedule(SyscallFrame, proc_list, active_procs)
    BY DEF sys_other
  <1>3. /\ proc_list' \in [Slots -> Entry] /\ cpid' \in Slots
        /\ cpu' \in Context
    BY <1>1, <1>2, ScheduleType
  <1>4. TypeOK'
    BY <1>3 DEF sys_other, Inv, TypeOK
  <1>5. ~Crashed
    BY RunningFacts DEF sys_other
  <1>6. RegistersKept' /\ RunningInv' /\ SavedInv'
    BY <1>2, <1>5, TickKeeps DEF sys_other, SyscallFrame
  <1> QED BY <1>4, <1>6 DEF Inv

LEMMA SysExitInv == ASSUME Inv, sys_exit PROVE Inv'
  <1>1. PICK p \in ExitPids :
            /\ Running(p)
            /\ active_procs' = active_procs - 1
            /\ schedule([SyscallFrame EXCEPT !.pc = "spin"],
                        [proc_list EXCEPT ![p] = Empty], active_procs')
    BY DEF sys_exit
  <1>2. p \in Pids /\ p \in Slots /\ p # 0
    BY SchedulerAssumption DEF Pids, Slots
  <1>3. ~Crashed /\ p = cpid /\ Ready(p) /\ active_procs > 0
    BY <1>1, <1>2, RunningFacts
  <1> DEFINE frame == [SyscallFrame EXCEPT !.pc = "spin"]
             slots == [proc_list EXCEPT ![p] = Empty]
  <1>4. frame \in Context /\ frame.owner = cpu.owner /\ frame.pc = "spin"
    BY DEF Inv, TypeOK, SyscallFrame, Context
  <1>5. slots \in [Slots -> Entry]
    BY EntryTypes DEF Inv, TypeOK
  <1>6. \A q \in Slots : slots[q] = IF q = p THEN Empty ELSE proc_list[q]
    BY DEF Inv, TypeOK
  <1>7. schedule(frame, slots, active_procs') /\ active_procs' \in Nat
    BY <1>1, <1>3 DEF Inv, TypeOK
  <1>8. TypeOK /\ UNCHANGED progress /\ progress' \in [Pids -> 0..(StepMod - 1)]
    BY DEF Inv, TypeOK, sys_exit
  <1> HIDE DEF frame, slots
  <1>9. /\ proc_list' \in [Slots -> Entry] /\ cpid' \in Slots
        /\ cpu' \in Context
    BY <1>4, <1>5, <1>7, <1>8, ScheduleType
  <1>10. TypeOK'
    BY <1>7, <1>9 DEF sys_exit, Inv, TypeOK
  <1>11. ASSUME NEW q \in Pids, slots[q].used, slots[q].ready
         PROVE  /\ At(IF q = cpid THEN frame ELSE slots[q].regs, q, progress'[q])
                /\ slots[q].regs.pc = "run"
                /\ slots[q].regs.step \in 0..(StepMod - 1)
    <2>1. q \in Slots /\ q # p
      BY <1>6, <1>11, SchedulerAssumption DEF Empty, Pids, Slots
    <2>2. Ready(q) /\ slots[q] = proc_list[q] /\ q # cpid
      BY <1>3, <1>6, <1>11, <2>1 DEF Ready
    <2>3. Own(proc_list[q].regs, q)
      BY <1>3, <2>2, Interrupted
    <2> QED BY <1>8, <2>2, <2>3 DEF Own, Inv, SavedInv
  <1>12. frame.owner # 0 /\ frame.owner = cpid
    BY <1>1, <1>3, <1>4 DEF Running
  <1>13. RegistersKept' /\ RunningInv' /\ SavedInv'
    BY <1>4, <1>5, <1>7, <1>8, <1>11, <1>12, ScheduleKeeps
  <1> QED BY <1>10, <1>13 DEF Inv

----------------------------------------------------------------------------
\* Steps that write one slot of the table while the processor keeps its owner:
\* the other slots keep their contexts.
LEMMA RegisterInv == ASSUME Inv, register_process PROVE Inv'
  <1>1. PICK t \in Pids : /\ NextFree(proc_list, lapid, t) /\ lapid' = t
                          /\ proc_list' = [proc_list EXCEPT ![t] = Unfilled]
    BY DEF register_process
  <1>2. t \in Slots /\ ~Crashed /\ cpu.owner = 0 /\ cpid = 0
    BY SchedulerAssumption DEF Pids, Slots, register_process, Kmain, Inv, RunningInv
  <1>3. \A q \in Slots : proc_list'[q] = IF q = t THEN Unfilled ELSE proc_list[q]
    BY <1>1 DEF Inv, TypeOK
  <1>4. cpu' \in Context /\ cpu'.owner = 0 /\ cpu'.pc = "init" /\ cpid' = 0
    BY <1>2 DEF register_process, Inv, TypeOK, Context
  <1>5. TypeOK'
    <2>1. proc_list' \in [Slots -> Entry]
      BY <1>1, EntryTypes DEF Inv, TypeOK
    <2> QED BY <1>1, <1>2, <1>4, <2>1 DEF register_process, Inv, TypeOK
  <1>6. RunningInv'
    BY <1>4 DEF RunningInv
  <1>7. RegistersKept'
    <2> SUFFICES ASSUME NEW p \in Pids, Ready(p)'
                 PROVE  Own(IF p = cpid THEN cpu ELSE proc_list[p].regs, p)'
      BY DEF RegistersKept, Own, At
    <2>1. p \in Slots /\ p # 0
      BY SchedulerAssumption DEF Pids, Slots
    <2>2. p # t /\ proc_list'[p] = proc_list[p] /\ Ready(p)
      BY <1>3, <2>1 DEF Ready, Unfilled
    <2>3. Own(proc_list[p].regs, p)
      BY <1>2, <2>1, <2>2, Interrupted
    <2> QED BY <1>4, <2>1, <2>2, <2>3 DEF Own, At, register_process
  <1>8. SavedInv'
    BY <1>3, SchedulerAssumption DEF Inv, SavedInv, Ready, Unfilled, Pids, Slots
  <1> QED BY <1>5, <1>6, <1>7, <1>8 DEF Inv

LEMMA KforkInitInv == ASSUME Inv, kfork_init PROVE Inv'
  <1>1. PICK n \in FreshIntNos : proc_list' = [proc_list EXCEPT ![lapid] =
            [used |-> TRUE, ready |-> TRUE, ring0 |-> TRUE, ppid |-> 0,
             regs |-> [owner |-> lapid, pc |-> "run", step |-> 0, int_no |-> n,
                       stack |-> lapid, lowered |-> 0]]]
    BY DEF kfork_init
  <1> DEFINE e == [used |-> TRUE, ready |-> TRUE, ring0 |-> TRUE, ppid |-> 0,
                   regs |-> [owner |-> lapid, pc |-> "run", step |-> 0, int_no |-> n,
                             stack |-> lapid, lowered |-> 0]]
  <1>2. ~Crashed /\ cpu.owner = 0 /\ cpid = 0 /\ lapid \in Slots
    BY DEF kfork_init, Kmain, Inv, RunningInv, TypeOK
  <1>3. e \in Entry /\ e.regs.owner = lapid /\ e.regs.pc = "run" /\ e.regs.step = 0
    <2>1. n \in {"low", "high"}
      BY SchedulerAssumption
    <2>2. e.regs \in Context
      BY <1>2, <2>1, SchedulerAssumption DEF Context
    <2> QED BY <2>2, SchedulerAssumption DEF Entry, Slots
  <1> HIDE DEF e
  <1>4. \A q \in Slots : proc_list'[q] = IF q = lapid THEN e ELSE proc_list[q]
    BY <1>1 DEF Inv, TypeOK, e
  <1>5. cpu' \in Context /\ cpu'.owner = 0 /\ cpu'.pc = "count" /\ cpid' = 0
    BY <1>2 DEF kfork_init, Inv, TypeOK, Context
  <1>6. \A q \in Pids : progress'[q] = IF q = lapid THEN 0 ELSE progress[q]
    BY DEF kfork_init, Inv, TypeOK
  <1>7. TypeOK'
    <2>1. proc_list' \in [Slots -> Entry]
      BY <1>1, <1>3 DEF Inv, TypeOK, e
    <2>2. progress' \in [Pids -> 0..(StepMod - 1)]
      <3>1. progress \in [Pids -> 0..(StepMod - 1)] /\ 0 \in 0..(StepMod - 1)
        BY SchedulerAssumption DEF Inv, TypeOK
      <3>2. progress' = [progress EXCEPT ![lapid] = 0]
        BY DEF kfork_init
      <3> QED BY <3>1, <3>2
    <2> QED BY <1>5, <2>1, <2>2 DEF kfork_init, Inv, TypeOK
  <1>8. RunningInv'
    BY <1>5 DEF RunningInv
  <1>9. RegistersKept'
    <2> SUFFICES ASSUME NEW p \in Pids, Ready(p)'
                 PROVE  Own(IF p = cpid THEN cpu ELSE proc_list[p].regs, p)'
      BY DEF RegistersKept, Own, At
    <2>1. p \in Slots /\ p # 0
      BY SchedulerAssumption DEF Pids, Slots
    <2>2. CASE p = lapid
      BY <1>3, <1>4, <1>5, <1>6, <2>1, <2>2 DEF Own, At
    <2>3. CASE p # lapid
      <3>1. proc_list'[p] = proc_list[p] /\ Ready(p)
        BY <1>4, <2>1, <2>3 DEF Ready
      <3>2. Own(proc_list[p].regs, p)
        BY <1>2, <2>1, <3>1, Interrupted
      <3> QED BY <1>5, <1>6, <2>1, <2>3, <3>1, <3>2 DEF Own, At
    <2> QED BY <2>2, <2>3
  <1>10. SavedInv'
    BY <1>3, <1>4, SchedulerAssumption DEF Inv, SavedInv, Ready, Pids, Slots
  <1> QED BY <1>7, <1>8, <1>9, <1>10 DEF Inv

LEMMA KforkCountInv == ASSUME Inv, kfork_count PROVE Inv'
  <1>1. ~Crashed /\ cpu.owner = 0 /\ cpid = 0
    BY DEF kfork_count, Kmain, Inv, RunningInv
  <1>2. cpu' \in Context /\ cpu'.owner = 0 /\ cpid' = 0
    <2>1. cpu \in Context /\ cpu.step + 1 \in Nat
      BY DEF Inv, TypeOK, Context
    <2>2. cpu' = [cpu EXCEPT !.pc = "register", !.step = cpu.step + 1] /\ cpid' = cpid
      BY DEF kfork_count
    <2> DEFINE k == cpu.step + 1
    <2>3. k \in Nat /\ cpu' = [cpu EXCEPT !.pc = "register", !.step = k]
      BY <2>1, <2>2
    <2> HIDE DEF k
    <2> QED BY <1>1, <2>1, <2>2, <2>3 DEF Context
  <1>3. booted' \in BOOLEAN
    BY DEF kfork_count
  <1>4. active_procs' \in Nat
    BY DEF kfork_count, Inv, TypeOK
  <1>5. TypeOK'
    BY <1>2, <1>3, <1>4 DEF kfork_count, Inv, TypeOK
  <1>6. RunningInv'
    BY <1>2 DEF RunningInv
  <1>7. RegistersKept'
    <2> SUFFICES ASSUME NEW p \in Pids, Ready(p)'
                 PROVE  Own(IF p = cpid THEN cpu ELSE proc_list[p].regs, p)'
      BY DEF RegistersKept, Own, At
    <2>1. p # 0 /\ Ready(p)
      BY SchedulerAssumption DEF Pids, Ready, kfork_count
    <2>2. Own(proc_list[p].regs, p)
      BY <1>1, <2>1, Interrupted
    <2> QED BY <1>2, <2>1, <2>2 DEF Own, At, kfork_count
  <1>8. SavedInv'
    BY DEF Inv, SavedInv, Ready, kfork_count
  <1> QED BY <1>5, <1>6, <1>7, <1>8 DEF Inv

LEMMA ExecuteInv == ASSUME Inv, Execute PROVE Inv'
  <1>1. PICK p \in Pids, depth \in 0..cpu.lowered :
            /\ Running(p)
            /\ cpu' = [cpu EXCEPT !.step = (cpu.step + 1) % StepMod, !.lowered = depth]
            /\ progress' = [progress EXCEPT ![p] = (progress[p] + 1) % StepMod]
    BY DEF Execute
  <1>2. ~Crashed /\ p = cpid /\ Ready(p) /\ active_procs > 0 /\ cpu.step = progress[p]
    BY <1>1, RunningFacts
  <1>3. (cpu.step + 1) % StepMod \in 0..(StepMod - 1) /\ depth \in 0..StackRoom
    BY SchedulerAssumption DEF Inv, TypeOK, Context
  <1>4. /\ cpu' \in Context /\ cpu'.owner = p /\ cpu'.pc = "run"
        /\ cpu'.step = (cpu.step + 1) % StepMod
    <2> DEFINE n == (cpu.step + 1) % StepMod
    <2>1. n \in Nat /\ cpu' = [cpu EXCEPT !.step = n, !.lowered = depth]
      BY <1>1, <1>3, SchedulerAssumption
    <2> HIDE DEF n
    <2>2. cpu' \in Context /\ cpu'.owner = p /\ cpu'.pc = "run" /\ cpu'.step = n
      BY <1>1, <1>3, <2>1 DEF Inv, TypeOK, Context, Running
    <2> QED BY <2>2 DEF n
  <1>5. /\ progress' \in [Pids -> 0..(StepMod - 1)]
        /\ \A q \in Pids : progress'[q] = IF q = p THEN cpu'.step ELSE progress[q]
    BY <1>1, <1>2, <1>3, <1>4 DEF Inv, TypeOK
  <1>6. TypeOK'
    BY <1>4, <1>5 DEF Execute, Inv, TypeOK
  <1>7. RunningInv'
    BY <1>1, <1>2, <1>4 DEF Execute, RunningInv, Ready, Running
  <1>8. RegistersKept'
    <2> SUFFICES ASSUME NEW q \in Pids, Ready(q)'
                 PROVE  Own(IF q = cpid THEN cpu ELSE proc_list[q].regs, q)'
      BY DEF RegistersKept, Own, At
    <2>1. Ready(q) /\ cpid' = cpid /\ proc_list' = proc_list
      BY DEF Execute, Ready
    <2>2. CASE q = p
      BY <1>2, <1>4, <1>5, <2>1, <2>2 DEF Own, At
    <2>3. CASE q # p
      BY <1>2, <1>5, <2>1, <2>3, Interrupted DEF Own, At
    <2> QED BY <2>2, <2>3
  <1>9. SavedInv'
    BY DEF Inv, SavedInv, Ready, Execute
  <1> QED BY <1>6, <1>7, <1>8, <1>9 DEF Inv

LEMMA ExitRemoveInv == ASSUME Inv, exit_v_remove PROVE Inv'
  <1>1. PICK p \in ExitPids :
            Running(p) /\ proc_list' = [proc_list EXCEPT ![p] = Empty]
    BY DEF exit_v_remove
  <1>2. p \in Pids /\ p \in Slots
    BY SchedulerAssumption DEF Pids, Slots
  <1>3. ~Crashed /\ p = cpid /\ active_procs > 0
    BY <1>1, <1>2, RunningFacts
  <1>4. \A q \in Slots : proc_list'[q] = IF q = p THEN Empty ELSE proc_list[q]
    BY <1>1 DEF Inv, TypeOK
  <1>5. cpu' \in Context /\ cpu'.owner = p /\ cpu'.pc = "count"
    BY <1>1 DEF exit_v_remove, Inv, TypeOK, Context, Running
  <1>6. TypeOK'
    <2>1. proc_list' \in [Slots -> Entry]
      BY <1>1, EntryTypes DEF Inv, TypeOK
    <2> QED BY <1>5, <2>1 DEF exit_v_remove, Inv, TypeOK
  <1>7. RunningInv'
    BY <1>1, <1>3, <1>5 DEF exit_v_remove, RunningInv, Running
  <1>8. RegistersKept'
    <2> SUFFICES ASSUME NEW q \in Pids, Ready(q)'
                 PROVE  Own(IF q = cpid THEN cpu ELSE proc_list[q].regs, q)'
      BY DEF RegistersKept, Own, At
    <2>1. q \in Slots
      BY SchedulerAssumption DEF Pids, Slots
    <2>2. q # p /\ proc_list'[q] = proc_list[q] /\ Ready(q)
      BY <1>4, <2>1 DEF Ready, Empty
    <2>3. Own(proc_list[q].regs, q)
      BY <1>3, <2>2, Interrupted
    <2> QED BY <1>3, <2>2, <2>3 DEF Own, At, exit_v_remove
  <1>9. SavedInv'
    BY <1>4, SchedulerAssumption DEF Inv, SavedInv, Ready, Empty, Pids, Slots
  <1> QED BY <1>6, <1>7, <1>8, <1>9 DEF Inv

LEMMA ExitCountInv == ASSUME Inv, exit_v_count PROVE Inv'
  <1>1. ~Crashed
    BY GarbageType DEF exit_v_count, Crashed
  <1>2. cpu.owner = cpid /\ active_procs > 0 /\ cpu.owner # 0
    BY <1>1 DEF exit_v_count, Inv, RunningInv
  <1>3. cpu' \in Context /\ cpu'.owner = cpu.owner /\ cpu'.pc = "spin"
    BY DEF exit_v_count, Inv, TypeOK, Context
  <1>4. active_procs' \in Nat
    BY <1>2 DEF exit_v_count, Inv, TypeOK
  <1>5. TypeOK'
    BY <1>3, <1>4 DEF exit_v_count, Inv, TypeOK
  <1>6. RunningInv'
    BY <1>2, <1>3 DEF exit_v_count, RunningInv
  <1>7. RegistersKept'
    <2> SUFFICES ASSUME NEW q \in Pids, Ready(q)'
                 PROVE  Own(IF q = cpid THEN cpu ELSE proc_list[q].regs, q)'
      BY DEF RegistersKept, Own, At
    <2>1. Ready(q)
      BY DEF Ready, exit_v_count
    <2>2. q # cpid
      BY <1>1, <2>1, Interrupted DEF Own, At, exit_v_count
    <2>3. Own(proc_list[q].regs, q)
      BY <1>1, <2>1, <2>2, Interrupted
    <2> QED BY <2>2, <2>3 DEF Own, At, exit_v_count
  <1>8. SavedInv'
    BY DEF Inv, SavedInv, Ready, exit_v_count
  <1> QED BY <1>5, <1>6, <1>7, <1>8 DEF Inv

LEMMA NotRing0Inv == ASSUME Inv, sys_not_ring0 PROVE Inv'
  BY GarbageType DEF sys_not_ring0, Inv, TypeOK, RegistersKept, RunningInv, SavedInv,
                     Crashed, Ready

\* The child's registers are a copy of those in its parent's entry, so they are a
\* point in the code, and the child's own from then on.
LEMMA SysForkInv == ASSUME Inv, sys_fork PROVE Inv'
  <1>1. PICK p \in Pids, t \in Pids, bit \in BOOLEAN :
            /\ Running(p)
            /\ NextFree(proc_list, lapid, t)
            /\ lapid' = t
            /\ \/ /\ UNCHANGED <<active_procs, progress>>
                  /\ schedule(SyscallFrame, [proc_list EXCEPT ![t] = Unfilled], active_procs)
               \/ /\ active_procs' = active_procs + 1
                  /\ progress' = [progress EXCEPT ![t] = proc_list[p].regs.step]
                  /\ schedule(SyscallFrame,
                              [proc_list EXCEPT ![t] =
                                  [used |-> TRUE, ready |-> TRUE, ring0 |-> bit, ppid |-> p,
                                   regs |-> [proc_list[p].regs EXCEPT !.owner = t]]],
                              active_procs')
    BY DEF sys_fork
  <1>2. ~Crashed /\ p = cpid /\ Ready(p) /\ active_procs > 0 /\ cpu.step = progress[p]
    BY <1>1, RunningFacts
  <1>3. p \in Slots /\ t \in Slots /\ p # 0 /\ t # 0 /\ t # p
    BY <1>1, <1>2, SchedulerAssumption DEF Pids, Slots, NextFree, Ready
  <1>4. /\ SyscallFrame \in Context /\ SyscallFrame.owner = p
        /\ SyscallFrame.pc = "run" /\ SyscallFrame.step = progress[p]
    BY <1>1, <1>2, FrameType DEF Inv, SyscallFrame, Running
  <1>5. TypeOK /\ active_procs' \in Nat /\ active_procs' > 0
    BY <1>1, <1>2 DEF Inv, TypeOK
  <1> DEFINE child == [used |-> TRUE, ready |-> TRUE, ring0 |-> bit, ppid |-> p,
                       regs |-> [proc_list[p].regs EXCEPT !.owner = t]]
  <1>6. /\ child \in Entry /\ child.regs.owner = t /\ child.regs.pc = "run"
        /\ child.regs.step = proc_list[p].regs.step
        /\ proc_list[p].regs.step \in 0..(StepMod - 1)
    BY <1>2, <1>3 DEF Inv, TypeOK, SavedInv, Entry, Context
  <1> HIDE DEF child
  <1>7. PICK e \in {Unfilled, child} :
            /\ schedule(SyscallFrame, [proc_list EXCEPT ![t] = e], active_procs')
            /\ progress' \in [Pids -> 0..(StepMod - 1)]
            /\ \A q \in Pids : q # t => progress'[q] = progress[q]
            /\ e = child => progress'[t] = child.regs.step
    <2>1. progress \in [Pids -> 0..(StepMod - 1)]
      BY DEF Inv, TypeOK
    <2>2. CASE /\ UNCHANGED <<active_procs, progress>>
               /\ schedule(SyscallFrame, [proc_list EXCEPT ![t] = Unfilled], active_procs)
      <3>1. Unfilled # child
        BY DEF Unfilled, child
      <3> QED BY <2>1, <2>2, <3>1
    <2>3. CASE /\ progress' = [progress EXCEPT ![t] = proc_list[p].regs.step]
               /\ schedule(SyscallFrame, [proc_list EXCEPT ![t] = child], active_procs')
      BY <1>6, <2>1, <2>3
    <2> QED BY <1>1, <2>2, <2>3 DEF child
  <1> DEFINE slots == [proc_list EXCEPT ![t] = e]
  <1>8. slots \in [Slots -> Entry]
    BY <1>6, <1>7, EntryTypes DEF Inv, TypeOK
  <1>9. \A q \in Slots : slots[q] = IF q = t THEN e ELSE proc_list[q]
    BY DEF Inv, TypeOK
  <1>10. schedule(SyscallFrame, slots, active_procs')
    BY <1>7
  <1> HIDE DEF slots
  <1>11. /\ proc_list' \in [Slots -> Entry] /\ cpid' \in Slots
         /\ cpu' \in Context
    BY <1>4, <1>5, <1>8, <1>10, ScheduleType
  <1>12. TypeOK'
    BY <1>1, <1>3, <1>5, <1>7, <1>11 DEF sys_fork, Inv, TypeOK
  <1>13. ASSUME NEW q \in Pids, slots[q].used, slots[q].ready
         PROVE  /\ At(IF q = cpid THEN SyscallFrame ELSE slots[q].regs, q, progress'[q])
                /\ slots[q].regs.pc = "run"
                /\ slots[q].regs.step \in 0..(StepMod - 1)
    <2>1. q \in Slots
      BY SchedulerAssumption DEF Pids, Slots
    <2>2. CASE q = t
      <3>1. e = child
        BY <1>7, <1>9, <1>13, <2>1, <2>2 DEF Unfilled
      <3> QED BY <1>2, <1>3, <1>6, <1>7, <1>9, <2>1, <2>2, <3>1 DEF At
    <2>3. CASE q # t
      <3>1. Ready(q) /\ slots[q] = proc_list[q] /\ progress'[q] = progress[q]
        BY <1>7, <1>9, <1>13, <2>1, <2>3 DEF Ready
      <3>2. Own(IF q = cpid THEN cpu ELSE proc_list[q].regs, q)
        BY <1>2, <3>1, Interrupted
      <3> QED BY <1>2, <1>4, <3>1, <3>2 DEF Own, At, Inv, SavedInv
    <2> QED BY <2>2, <2>3
  <1>14. slots[cpid].used /\ slots[cpid].ready
    BY <1>2, <1>3, <1>9 DEF Ready
  <1>15. RegistersKept' /\ RunningInv' /\ SavedInv'
    BY <1>2, <1>3, <1>4, <1>5, <1>7, <1>8, <1>10, <1>13, <1>14, ScheduleKeeps
  <1> QED BY <1>12, <1>15 DEF Inv

LEMMA NextInv == Inv /\ [Next]_vars => Inv'
  <1> SUFFICES ASSUME Inv, [Next]_vars PROVE Inv'
    OBVIOUS
  <1>1. CASE kfork
    BY <1>1, RegisterInv, KforkInitInv, KforkCountInv DEF kfork
  <1>2. CASE Execute
    BY <1>2, ExecuteInv
  <1>3. CASE irq0_timer_handler
    BY <1>3, TickInv
  <1>4. CASE sys_other
    BY <1>4, SysOtherInv
  <1>5. CASE sys_exit
    BY <1>5, SysExitInv
  <1>6. CASE sys_fork
    BY <1>6, SysForkInv
  <1>7. CASE sys_not_ring0
    BY <1>7, NotRing0Inv
  <1>8. CASE exit_v
    BY <1>8, ExitRemoveInv, ExitCountInv DEF exit_v
  <1>9. CASE UNCHANGED vars
    BY <1>9 DEF vars, Inv, TypeOK, RegistersKept, RunningInv, SavedInv, Crashed, Ready
  <1> QED BY <1>1, <1>2, <1>3, <1>4, <1>5, <1>6, <1>7, <1>8, <1>9 DEF Next

LEMMA InvAlways == Spec => []Inv
  <1>1. Init => Inv
    BY InitInv DEF Inv
  <1> QED BY <1>1, NextInv, PTL DEF Spec

\* The variables keep their types; in particular active_procs never wraps below
\* 0, however boot, forks, exits and ticks interleave.
THEOREM TypeCorrect == Spec => []TypeOK
  <1>1. Inv => TypeOK
    BY DEF Inv
  <1> QED BY <1>1, InvAlways, PTL

----------------------------------------------------------------------------
(***************************************************************************)
(* The stacks of the processes that kfork started: schedule gives a ring-0 *)
(* process a frame on the stack its registers point to.                    *)
(***************************************************************************)
LEMMA ScheduleStacks ==
    ASSUME TypeOK, NEW oldregs \in Context, NEW slots \in [Slots -> Entry], NEW active,
           \A p \in Pids : slots[p].used /\ slots[p].ready /\ slots[p].ppid = 0 =>
               /\ slots[p].ring0
               /\ (IF p = cpid THEN oldregs ELSE slots[p].regs).stack = p,
           schedule(oldregs, slots, active)
    PROVE  OwnStacks'
  <1>1. CASE active = 0
    BY <1>1 DEF schedule, OwnStacks, Ready
  <1>2. CASE active # 0
    <2>1. proc_list' = IF cpid # 0 /\ slots[cpid].used
                       THEN [slots EXCEPT ![cpid].regs = oldregs]
                       ELSE slots
      BY <1>2 DEF schedule
    <2>2. PICK t \in Pids : cpid' = t /\ cpu' = Resumed(proc_list'[t], oldregs)
      BY <1>2 DEF schedule
    <2>3. cpid \in Slots /\ \A p \in Pids : p \in Slots /\ p # 0
      BY SchedulerAssumption DEF TypeOK, Pids, Slots
    <2>4. ASSUME NEW p \in Pids
          PROVE  /\ proc_list'[p].used = slots[p].used /\ proc_list'[p].ready = slots[p].ready
                 /\ proc_list'[p].ring0 = slots[p].ring0 /\ proc_list'[p].ppid = slots[p].ppid
                 /\ slots[p].used =>
                      proc_list'[p].regs = IF p = cpid THEN oldregs ELSE slots[p].regs
      <3>1. slots[p] \in Entry /\ p \in Slots /\ p # 0
        BY <2>3
      <3>2. CASE p = cpid /\ slots[p].used
        <4>1. proc_list'[p] = [slots[p] EXCEPT !.regs = oldregs]
          BY <2>1, <3>1, <3>2
        <4> QED BY <3>1, <3>2, <4>1 DEF Entry
      <3>3. CASE ~(p = cpid /\ slots[p].used)
        <4>1. proc_list'[p] = slots[p]
          BY <2>1, <2>3, <3>1, <3>3
        <4> QED BY <3>3, <4>1
      <3> QED BY <3>2, <3>3
    <2>5. proc_list'[t] \in Entry
      BY <2>3, ScheduleType
    <2>6. cpu' = Garbage \/ cpu'.stack = IF proc_list'[t].ring0 THEN proc_list'[t].regs.stack
                                         ELSE oldregs.stack
      BY <2>2, <2>5, ResumedType
    <2> SUFFICES ASSUME cpu' # Garbage, NEW p \in Pids, Ready(p)', proc_list'[p].ppid = 0
                 PROVE  /\ proc_list'[p].ring0
                        /\ (IF p = cpid' THEN cpu' ELSE proc_list'[p].regs).stack = p
      BY DEF OwnStacks, Crashed
    <2>7. /\ slots[p].used /\ slots[p].ready /\ slots[p].ppid = 0
      BY <2>4 DEF Ready
    <2>8. proc_list'[p].ring0 /\ proc_list'[p].regs.stack = p
      BY <2>4, <2>7
    <2> QED BY <2>2, <2>6, <2>8
  <1> QED BY <1>1, <1>2

\* What an interrupt finds, for schedule to keep.
LEMMA StackKnown ==
    ASSUME OwnStacks, ~Crashed, NEW p \in Pids, Ready(p), proc_list[p].ppid = 0
    PROVE  /\ proc_list[p].ring0
           /\ (IF p = cpid THEN cpu ELSE proc_list[p].regs).stack = p
  BY DEF OwnStacks

LEMMA StackTick ==
    ASSUME Inv, OwnStacks, ~Crashed, NEW n \in {"low", "high"},
           schedule([cpu EXCEPT !.int_no = n], proc_list, active_procs)
    PROVE  OwnStacks'
  <1> DEFINE frame == [cpu EXCEPT !.int_no = n]
  <1>1. frame \in Context /\ frame.stack = cpu.stack /\ schedule(frame, proc_list, active_procs)
    BY FrameType DEF Inv
  <1> HIDE DEF frame
  <1>2. TypeOK /\ proc_list \in [Slots -> Entry]
    BY DEF Inv, TypeOK
  <1>3. \A p \in Pids : proc_list[p].used /\ proc_list[p].ready /\ proc_list[p].ppid = 0 =>
               /\ proc_list[p].ring0
               /\ (IF p = cpid THEN frame ELSE proc_list[p].regs).stack = p
    BY <1>1, StackKnown DEF Ready
  <1> QED BY <1>1, <1>2, <1>3, ScheduleStacks

LEMMA StackExit == ASSUME Inv, OwnStacks, sys_exit PROVE OwnStacks'
  <1>1. PICK p \in ExitPids :
            /\ Running(p)
            /\ schedule([SyscallFrame EXCEPT !.pc = "spin"],
                        [proc_list EXCEPT ![p] = Empty], active_procs')
    BY DEF sys_exit
  <1>2. p \in Pids
    BY SchedulerAssumption DEF Pids
  <1>3. ~Crashed /\ p = cpid
    BY <1>1, <1>2, RunningFacts
  <1> DEFINE frame == [SyscallFrame EXCEPT !.pc = "spin"]
             slots == [proc_list EXCEPT ![p] = Empty]
  <1>4. frame \in Context /\ TypeOK
    BY DEF Inv, TypeOK, SyscallFrame, Context
  <1>5. slots \in [Slots -> Entry] /\ \A q \in Slots : slots[q] = IF q = p THEN Empty ELSE proc_list[q]
    BY EntryTypes DEF Inv, TypeOK
  <1>6. schedule(frame, slots, active_procs')
    BY <1>1
  <1> HIDE DEF frame, slots
  <1>7. ASSUME NEW q \in Pids, slots[q].used, slots[q].ready, slots[q].ppid = 0
        PROVE  /\ slots[q].ring0
               /\ (IF q = cpid THEN frame ELSE slots[q].regs).stack = q
    <2>1. q \in Slots
      BY SchedulerAssumption DEF Pids, Slots
    <2>2. q # p /\ slots[q] = proc_list[q]
      BY <1>5, <1>7, <2>1 DEF Empty
    <2>3. Ready(q) /\ proc_list[q].ppid = 0
      BY <1>7, <2>2 DEF Ready
    <2> QED BY <1>3, <2>2, <2>3, StackKnown
  <1> QED BY <1>4, <1>5, <1>6, <1>7, ScheduleStacks

\* The new entry is either not filled in or has a parent.
LEMMA StackFork == ASSUME Inv, OwnStacks, sys_fork PROVE OwnStacks'
  <1>1. PICK p \in Pids, t \in Pids, bit \in BOOLEAN :
            /\ Running(p)
            /\ \/ schedule(SyscallFrame, [proc_list EXCEPT ![t] = Unfilled], active_procs)
               \/ schedule(SyscallFrame,
                           [proc_list EXCEPT ![t] =
                              [used |-> TRUE, ready |-> TRUE, ring0 |-> bit, ppid |-> p,
                               regs |-> [proc_list[p].regs EXCEPT !.owner = t]]],
                           active_procs')
    BY DEF sys_fork
  <1>2. ~Crashed /\ p = cpid
    BY <1>1, RunningFacts
  <1>3. p \in Slots /\ t \in Slots /\ p # 0
    BY SchedulerAssumption DEF Pids, Slots
  <1>4. SyscallFrame \in Context /\ SyscallFrame.stack = cpu.stack /\ TypeOK
    BY FrameType DEF Inv, SyscallFrame
  <1> DEFINE child == [used |-> TRUE, ready |-> TRUE, ring0 |-> bit, ppid |-> p,
                       regs |-> [proc_list[p].regs EXCEPT !.owner = t]]
  <1>5. child \in Entry /\ child.ppid # 0
    BY <1>3 DEF Inv, TypeOK, Entry, Context
  <1> HIDE DEF child
  <1>6. PICK e \in Entry, active \in {active_procs, active_procs'} :
            /\ e.ready => e.ppid # 0
            /\ schedule(SyscallFrame, [proc_list EXCEPT ![t] = e], active)
    <2>1. Unfilled \in Entry /\ ~Unfilled.ready
      BY EntryTypes DEF Unfilled
    <2> QED BY <1>1, <1>5, <2>1 DEF child
  <1> DEFINE slots == [proc_list EXCEPT ![t] = e]
  <1>7. slots \in [Slots -> Entry] /\ \A q \in Slots : slots[q] = IF q = t THEN e ELSE proc_list[q]
    BY <1>6 DEF Inv, TypeOK
  <1>8. schedule(SyscallFrame, slots, active)
    BY <1>6
  <1> HIDE DEF slots
  <1>9. ASSUME NEW q \in Pids, slots[q].used, slots[q].ready, slots[q].ppid = 0
        PROVE  /\ slots[q].ring0
               /\ (IF q = cpid THEN SyscallFrame ELSE slots[q].regs).stack = q
    <2>1. q \in Slots
      BY SchedulerAssumption DEF Pids, Slots
    <2>2. q # t /\ slots[q] = proc_list[q]
      BY <1>6, <1>7, <1>9, <2>1
    <2>3. Ready(q) /\ proc_list[q].ppid = 0
      BY <1>9, <2>2 DEF Ready
    <2> QED BY <1>2, <1>4, <2>2, <2>3, StackKnown
  <1> QED BY <1>4, <1>7, <1>8, <1>9, ScheduleStacks

LEMMA StackStep == Inv /\ OwnStacks /\ [Next]_vars => OwnStacks'
  <1> SUFFICES ASSUME Inv, OwnStacks, [Next]_vars PROVE OwnStacks'
    OBVIOUS
  <1>1. \A p \in Pids : p \in Slots /\ p # 0
    BY SchedulerAssumption DEF Pids, Slots
  <1>2. CASE irq0_timer_handler \/ sys_other
    <2>1. ~Crashed
      BY <1>2, RunningFacts DEF irq0_timer_handler, sys_other
    <2>2. PICK n \in {"low", "high"} :
              schedule([cpu EXCEPT !.int_no = n], proc_list, active_procs)
      BY <1>2 DEF irq0_timer_handler, sys_other, SyscallFrame
    <2> QED BY <2>1, <2>2, StackTick
  <1>3. CASE sys_exit
    BY <1>3, StackExit
  <1>4. CASE sys_fork
    BY <1>4, StackFork
  <1>5. CASE register_process
    <2>1. PICK t \in Pids : proc_list' = [proc_list EXCEPT ![t] = Unfilled]
      BY <1>5 DEF register_process
    <2>2. ~Crashed /\ cpid = 0 /\ cpid' = 0
      BY <1>5 DEF register_process, Kmain, Inv, RunningInv
    <2>3. \A q \in Slots : proc_list'[q] = IF q = t THEN Unfilled ELSE proc_list[q]
      BY <2>1 DEF Inv, TypeOK
    <2>4. ~Unfilled.ready
      BY DEF Unfilled
    <2> SUFFICES ASSUME NEW q \in Pids, Ready(q)', proc_list'[q].ppid = 0
                 PROVE  proc_list'[q].ring0 /\ proc_list'[q].regs.stack = q
      BY <1>1, <2>2 DEF OwnStacks
    <2>5. proc_list'[q] = proc_list[q]
      BY <1>1, <2>3, <2>4 DEF Ready
    <2> QED BY <1>1, <2>2, <2>5, StackKnown DEF Ready
  <1>6. CASE kfork_init
    <2>1. PICK n \in FreshIntNos : proc_list' = [proc_list EXCEPT ![lapid] =
            [used |-> TRUE, ready |-> TRUE, ring0 |-> TRUE, ppid |-> 0,
             regs |-> [owner |-> lapid, pc |-> "run", step |-> 0, int_no |-> n,
                       stack |-> lapid, lowered |-> 0]]]
      BY <1>6 DEF kfork_init
    <2> DEFINE e == [used |-> TRUE, ready |-> TRUE, ring0 |-> TRUE, ppid |-> 0,
                     regs |-> [owner |-> lapid, pc |-> "run", step |-> 0, int_no |-> n,
                               stack |-> lapid, lowered |-> 0]]
    <2>2. e.ring0 /\ e.regs.stack = lapid
      OBVIOUS
    <2> HIDE DEF e
    <2>3. ~Crashed /\ cpid = 0 /\ cpid' = 0
      BY <1>6 DEF kfork_init, Kmain, Inv, RunningInv
    <2>4. \A q \in Slots : proc_list'[q] = IF q = lapid THEN e ELSE proc_list[q]
      BY <2>1 DEF Inv, TypeOK, e
    <2> SUFFICES ASSUME NEW q \in Pids, Ready(q)', proc_list'[q].ppid = 0
                 PROVE  proc_list'[q].ring0 /\ proc_list'[q].regs.stack = q
      BY <1>1, <2>3 DEF OwnStacks
    <2>5. CASE q = lapid
      BY <1>1, <2>2, <2>4, <2>5
    <2>6. CASE q # lapid
      <3>1. proc_list'[q] = proc_list[q]
        BY <1>1, <2>4, <2>6
      <3> QED BY <1>1, <2>3, <3>1, StackKnown DEF Ready
    <2> QED BY <2>5, <2>6
  <1>7. CASE kfork_count
    <2>1. ~Crashed /\ cpid = 0 /\ cpid' = 0 /\ proc_list' = proc_list
      BY <1>7 DEF kfork_count, Kmain, Inv, RunningInv
    <2> QED BY <1>1, <2>1 DEF OwnStacks, Ready
  <1>8. CASE exit_v_remove
    <2>1. PICK p \in ExitPids : Running(p) /\ proc_list' = [proc_list EXCEPT ![p] = Empty]
      BY <1>8 DEF exit_v_remove
    <2>2. p \in Pids /\ ~Crashed /\ p = cpid /\ cpid' = cpid
      <3>1. p \in Pids
        BY SchedulerAssumption DEF Pids
      <3> QED BY <1>8, <2>1, <3>1, RunningFacts DEF exit_v_remove
    <2>3. \A q \in Slots : proc_list'[q] = IF q = p THEN Empty ELSE proc_list[q]
      BY <2>1 DEF Inv, TypeOK
    <2>4. ~Empty.used
      BY DEF Empty
    <2> SUFFICES ASSUME NEW q \in Pids, Ready(q)', proc_list'[q].ppid = 0
                 PROVE  q # cpid /\ proc_list'[q].ring0 /\ proc_list'[q].regs.stack = q
      BY <2>2 DEF OwnStacks
    <2>5. q # p /\ proc_list'[q] = proc_list[q]
      BY <1>1, <2>3, <2>4 DEF Ready
    <2> QED BY <2>2, <2>5, StackKnown DEF Ready
  <1>9. CASE exit_v_count \/ Execute
    <2>1. ~Crashed /\ cpid' = cpid /\ proc_list' = proc_list
      BY <1>9, RunningFacts, GarbageType DEF exit_v_count, Execute, Crashed
    <2>2. cpu'.stack = cpu.stack
      <3>1. cpu \in Context
        BY DEF Inv, TypeOK
      <3>2. \E pc, step, depth : cpu' = [cpu EXCEPT !.pc = pc, !.step = step, !.lowered = depth]
        <4>1. CASE exit_v_count
          <5>1. cpu' = [cpu EXCEPT !.pc = "spin", !.step = cpu.step, !.lowered = cpu.lowered]
            BY <3>1, <4>1 DEF exit_v_count, Context
          <5> QED BY <5>1
        <4>2. CASE Execute
          <5>1. PICK depth : cpu' = [cpu EXCEPT !.step = (cpu.step + 1) % StepMod, !.lowered = depth]
            BY <4>2 DEF Execute
          <5> DEFINE n == (cpu.step + 1) % StepMod
          <5> HIDE DEF n
          <5>2. cpu' = [cpu EXCEPT !.pc = cpu.pc, !.step = n, !.lowered = depth]
            BY <3>1, <5>1 DEF Context, n
          <5> QED BY <5>2
        <4> QED BY <1>9, <4>1, <4>2
      <3>3. PICK pc, step, depth : cpu' = [cpu EXCEPT !.pc = pc, !.step = step, !.lowered = depth]
        BY <3>2
      <3> QED BY <3>1, <3>3 DEF Context
    <2> QED BY <2>1, <2>2 DEF OwnStacks, Ready
  <1>10. CASE sys_not_ring0
    BY <1>10 DEF sys_not_ring0, OwnStacks, Crashed
  <1>11. CASE UNCHANGED vars
    BY <1>11 DEF vars, OwnStacks, Crashed, Ready
  <1> QED BY <1>2, <1>3, <1>4, <1>5, <1>6, <1>7, <1>8, <1>9, <1>10, <1>11 DEF Next, kfork, exit_v

\* Every dispatch gives a process its own registers back as they were when it was
\* interrupted, but for the stack pointer; and what kfork started stays on its own
\* stack, until a stack has left its page or an entry nobody filled in is dispatched.
\* For any number of processes, forks and exits.
THEOREM ContextIntegrityAlways == Spec => []ContextIntegrity
  <1>1. Init => OwnStacks
    <2>1. Init => \A p \in Pids : ~Ready(p)
      BY SchedulerAssumption DEF Init, Ready, Empty, Slots, Pids
    <2> QED BY <2>1 DEF OwnStacks
  <1>2. Inv /\ OwnStacks => ContextIntegrity
    BY DEF Inv, ContextIntegrity
  <1> QED BY <1>1, <1>2, StackStep, InvAlways, PTL DEF Spec
----------------------------------------------------------------------------
(***************************************************************************)
(* Which slots are used and ready: schedule changes registers only, and    *)
(* what it dispatches is neither kmain nor a process on its way out.       *)
(***************************************************************************)
LEMMA ScheduleMoves ==
    ASSUME TypeOK, NEW oldregs \in Context, NEW slots \in [Slots -> Entry], NEW active,
           schedule(oldregs, slots, active), Inv'
    PROVE  /\ \A p \in Slots : /\ proc_list'[p].used = slots[p].used
                               /\ proc_list'[p].ready = slots[p].ready
           /\ active = 0 => cpu' = oldregs
           /\ active # 0 => Crashed' \/ (cpu'.owner # 0 /\ cpu'.pc = "run")
  <1>1. CASE active = 0
    BY <1>1 DEF schedule
  <1>2. CASE active # 0
    <2>1. proc_list' = IF cpid # 0 /\ slots[cpid].used
                       THEN [slots EXCEPT ![cpid].regs = oldregs]
                       ELSE slots
      BY <1>2 DEF schedule
    <2>2. PICK t \in Pids : /\ slots[t].used /\ cpid' = t
                            /\ cpu' = Resumed(proc_list'[t], oldregs)
      BY <1>2 DEF schedule, NextUsed
    <2>3. cpid \in Slots /\ t \in Slots /\ t # 0
      BY SchedulerAssumption DEF TypeOK, Pids, Slots
    <2>4. \A p \in Slots : /\ proc_list'[p].used = slots[p].used
                           /\ proc_list'[p].ready = slots[p].ready
      <3>1. [slots EXCEPT ![cpid].regs = oldregs] =
               [s \in Slots |-> IF s = cpid THEN [slots[s] EXCEPT !.regs = oldregs] ELSE slots[s]]
        BY <2>3
      <3>2. \A s \in Slots : /\ [slots[s] EXCEPT !.regs = oldregs].used = slots[s].used
                             /\ [slots[s] EXCEPT !.regs = oldregs].ready = slots[s].ready
        BY DEF Entry
      <3> QED BY <2>1, <2>3, <3>1, <3>2
    <2>5. CASE proc_list'[t].ready /\ ~Crashed'
      <3>1. Ready(t)'
        BY <2>2, <2>3, <2>4, <2>5 DEF Ready
      <3> QED BY <1>2, <2>2, <2>3, <2>4, <3>1 DEF Inv, RegistersKept
    <2>6. CASE ~proc_list'[t].ready \/ Crashed'
      BY <1>2, <2>2, <2>4, <2>6 DEF Crashed, Resumed
    <2> QED BY <2>5, <2>6
  <1> QED BY <1>1, <1>2

\* What each step does to the used and ready bits of the table.
SameBits(p) ==
    proc_list'[p].used = proc_list[p].used /\ proc_list'[p].ready = proc_list[p].ready

SetBits(p, used, ready) == proc_list'[p].used = used /\ proc_list'[p].ready = ready

LEMMA TickBits ==
    ASSUME Inv, Inv', irq0_timer_handler \/ sys_other
    PROVE  /\ \A p \in Slots : SameBits(p)
           /\ active_procs = 0 => \E n \in {"low", "high"} : cpu' = [cpu EXCEPT !.int_no = n]
           /\ active_procs # 0 => Crashed' \/ (cpu'.owner # 0 /\ cpu'.pc = "run")
  <1>1. PICK n \in {"low", "high"} :
            schedule([cpu EXCEPT !.int_no = n], proc_list, active_procs)
    BY DEF irq0_timer_handler, sys_other, SyscallFrame
  <1> DEFINE frame == [cpu EXCEPT !.int_no = n]
  <1>2. TypeOK /\ frame \in Context /\ proc_list \in [Slots -> Entry]
    BY FrameType DEF Inv, TypeOK
  <1>3. schedule(frame, proc_list, active_procs)
    BY <1>1
  <1> HIDE DEF frame
  <1>4. /\ \A p \in Slots : /\ proc_list'[p].used = proc_list[p].used
                            /\ proc_list'[p].ready = proc_list[p].ready
        /\ active_procs = 0 => cpu' = frame
        /\ active_procs # 0 => Crashed' \/ (cpu'.owner # 0 /\ cpu'.pc = "run")
    BY <1>2, <1>3, ScheduleMoves
  <1> QED BY <1>4 DEF frame, SameBits, SetBits

LEMMA SysExitBits ==
    ASSUME Inv, Inv', sys_exit
    PROVE  \E p \in ExitPids :
             /\ p \in Pids /\ p = cpid /\ Ready(p) /\ active_procs > 0
             /\ \A q \in Slots : IF q = p THEN SetBits(q, FALSE, FALSE) ELSE SameBits(q)
             /\ active_procs' = active_procs - 1 /\ UNCHANGED booted
             /\ Crashed' \/ (cpu'.owner # 0 /\ cpu'.pc \in {"run", "spin"})
  <1>1. PICK p \in ExitPids :
            /\ Running(p)
            /\ active_procs' = active_procs - 1
            /\ schedule([SyscallFrame EXCEPT !.pc = "spin"],
                        [proc_list EXCEPT ![p] = Empty], active_procs')
    BY DEF sys_exit
  <1>2. p \in Pids /\ p \in Slots /\ p # 0
    BY SchedulerAssumption DEF Pids, Slots
  <1>3. p = cpid /\ Ready(p) /\ active_procs > 0
    BY <1>1, <1>2, RunningFacts
  <1> DEFINE frame == [SyscallFrame EXCEPT !.pc = "spin"]
             slots == [proc_list EXCEPT ![p] = Empty]
  <1>4. frame \in Context /\ frame.owner # 0 /\ frame.pc = "spin"
    BY <1>1 DEF Inv, TypeOK, SyscallFrame, Context, Running
  <1>5. slots \in [Slots -> Entry] /\ TypeOK
    BY EntryTypes DEF Inv, TypeOK
  <1>6. \A q \in Slots : slots[q] = IF q = p THEN Empty ELSE proc_list[q]
    BY DEF Inv, TypeOK
  <1>7. schedule(frame, slots, active_procs')
    BY <1>1
  <1> HIDE DEF frame, slots
  <1>8. /\ \A q \in Slots : /\ proc_list'[q].used = slots[q].used
                            /\ proc_list'[q].ready = slots[q].ready
        /\ active_procs' = 0 => cpu' = frame
        /\ active_procs' # 0 => Crashed' \/ (cpu'.owner # 0 /\ cpu'.pc = "run")
    BY <1>4, <1>5, <1>7, ScheduleMoves
  <1>9. \A q \in Slots : IF q = p THEN SetBits(q, FALSE, FALSE) ELSE SameBits(q)
    BY <1>6, <1>8 DEF SameBits, SetBits, Empty
  <1> QED BY <1>1, <1>2, <1>3, <1>4, <1>8, <1>9 DEF sys_exit

LEMMA SysForkBits ==
    ASSUME Inv, Inv', sys_fork
    PROVE  \E t \in Pids, filled \in BOOLEAN :
             /\ ~proc_list[t].used
             /\ \A q \in Slots : IF q = t THEN SetBits(q, TRUE, filled) ELSE SameBits(q)
             /\ active_procs > 0
             /\ active_procs' = IF filled THEN active_procs + 1 ELSE active_procs
             /\ UNCHANGED booted
             /\ Crashed' \/ (cpu'.owner # 0 /\ cpu'.pc = "run")
  <1>1. PICK p \in Pids, t \in Pids, bit \in BOOLEAN :
            /\ Running(p)
            /\ NextFree(proc_list, lapid, t)
            /\ \/ /\ UNCHANGED <<active_procs, progress>>
                  /\ schedule(SyscallFrame, [proc_list EXCEPT ![t] = Unfilled], active_procs)
               \/ /\ active_procs' = active_procs + 1
                  /\ schedule(SyscallFrame,
                              [proc_list EXCEPT ![t] =
                                  [used |-> TRUE, ready |-> TRUE, ring0 |-> bit, ppid |-> p,
                                   regs |-> [proc_list[p].regs EXCEPT !.owner = t]]],
                              active_procs')
    BY DEF sys_fork
  <1>2. active_procs > 0 /\ Ready(p) /\ p = cpid
    BY <1>1, RunningFacts
  <1>3. p \in Slots /\ t \in Slots /\ ~proc_list[t].used /\ active_procs \in Nat
    BY <1>1, SchedulerAssumption DEF Pids, Slots, NextFree, Inv, TypeOK
  <1>4. SyscallFrame \in Context /\ TypeOK
    BY FrameType DEF Inv, SyscallFrame
  <1> DEFINE child == [used |-> TRUE, ready |-> TRUE, ring0 |-> bit, ppid |-> p,
                       regs |-> [proc_list[p].regs EXCEPT !.owner = t]]
  <1>5. child \in Entry /\ child.used = TRUE /\ child.ready = TRUE
    BY <1>3 DEF Inv, TypeOK, Entry, Context
  <1> HIDE DEF child
  <1>6. PICK filled \in BOOLEAN, e \in Entry :
            /\ e.used = TRUE /\ e.ready = filled
            /\ active_procs' = IF filled THEN active_procs + 1 ELSE active_procs
            /\ schedule(SyscallFrame, [proc_list EXCEPT ![t] = e], active_procs')
    <2>1. CASE /\ UNCHANGED <<active_procs, progress>>
               /\ schedule(SyscallFrame, [proc_list EXCEPT ![t] = Unfilled], active_procs)
      <3>1. Unfilled.used = TRUE /\ Unfilled.ready = FALSE /\ Unfilled \in Entry
        BY EntryTypes DEF Unfilled
      <3> QED BY <2>1, <3>1
    <2>2. CASE /\ active_procs' = active_procs + 1
               /\ schedule(SyscallFrame, [proc_list EXCEPT ![t] = child], active_procs')
      BY <1>5, <2>2
    <2> QED BY <1>1, <2>1, <2>2 DEF child
  <1> DEFINE slots == [proc_list EXCEPT ![t] = e]
  <1>7. slots \in [Slots -> Entry] /\ \A q \in Slots : slots[q] = IF q = t THEN e ELSE proc_list[q]
    BY <1>6 DEF Inv, TypeOK
  <1>8. schedule(SyscallFrame, slots, active_procs')
    BY <1>6
  <1> HIDE DEF slots
  <1>9. /\ \A q \in Slots : /\ proc_list'[q].used = slots[q].used
                            /\ proc_list'[q].ready = slots[q].ready
        /\ active_procs' # 0 => Crashed' \/ (cpu'.owner # 0 /\ cpu'.pc = "run")
    BY <1>4, <1>7, <1>8, ScheduleMoves
  <1>10. \A q \in Slots : IF q = t THEN SetBits(q, TRUE, filled) ELSE SameBits(q)
    BY <1>6, <1>7, <1>9 DEF SameBits, SetBits
  <1>11. active_procs' # 0
    BY <1>2, <1>3, <1>6
  <1> QED BY <1>2, <1>3, <1>6, <1>9, <1>10, <1>11 DEF sys_fork

\* kmain's two steps that write the table.
LEMMA RegisterBits ==
    ASSUME Inv, register_process
    PROVE  /\ ~Crashed /\ cpu.owner = 0 /\ lapid' \in Pids
           /\ NextFree(proc_list, lapid, lapid') /\ ~proc_list[lapid'].used
           /\ \A q \in Slots : IF q = lapid' THEN SetBits(q, TRUE, FALSE) ELSE SameBits(q)
           /\ cpu'.owner = 0 /\ cpu'.pc = "init" /\ cpu'.step = cpu.step
  <1>1. PICK t \in Pids : /\ NextFree(proc_list, lapid, t) /\ lapid' = t
                          /\ proc_list' = [proc_list EXCEPT ![t] = Unfilled]
    BY DEF register_process
  <1>2. ~Crashed /\ cpu.owner = 0 /\ cpu'.owner = 0 /\ cpu'.pc = "init" /\ cpu'.step = cpu.step
    BY DEF register_process, Kmain, Inv, TypeOK, Context
  <1>3. \A q \in Slots : proc_list'[q] = IF q = t THEN Unfilled ELSE proc_list[q]
    BY <1>1 DEF Inv, TypeOK
  <1>4. \A q \in Slots : IF q = t THEN SetBits(q, TRUE, FALSE) ELSE SameBits(q)
    BY <1>3 DEF SameBits, SetBits, Unfilled
  <1> QED BY <1>1, <1>2, <1>4 DEF NextFree

LEMMA KforkInitBits ==
    ASSUME Inv, kfork_init
    PROVE  /\ ~Crashed /\ cpu.owner = 0 /\ lapid' = lapid
           /\ \A q \in Slots : IF q = lapid THEN SetBits(q, TRUE, TRUE) ELSE SameBits(q)
           /\ cpu'.owner = 0 /\ cpu'.pc = "count" /\ cpu'.step = cpu.step
  <1>1. PICK n \in FreshIntNos : proc_list' = [proc_list EXCEPT ![lapid] =
            [used |-> TRUE, ready |-> TRUE, ring0 |-> TRUE, ppid |-> 0,
             regs |-> [owner |-> lapid, pc |-> "run", step |-> 0, int_no |-> n,
                       stack |-> lapid, lowered |-> 0]]]
    BY DEF kfork_init
  <1> DEFINE e == [used |-> TRUE, ready |-> TRUE, ring0 |-> TRUE, ppid |-> 0,
                   regs |-> [owner |-> lapid, pc |-> "run", step |-> 0, int_no |-> n,
                             stack |-> lapid, lowered |-> 0]]
  <1>2. e.used = TRUE /\ e.ready = TRUE /\ proc_list' = [proc_list EXCEPT ![lapid] = e]
    BY <1>1
  <1> HIDE DEF e
  <1>3. \A q \in Slots : proc_list'[q] = IF q = lapid THEN e ELSE proc_list[q]
    BY <1>2 DEF Inv, TypeOK
  <1>4. \A q \in Slots : IF q = lapid THEN SetBits(q, TRUE, TRUE) ELSE SameBits(q)
    BY <1>2, <1>3 DEF SameBits, SetBits, kfork_init
  <1> QED BY <1>4 DEF kfork_init, Kmain, Inv, TypeOK, Context

LEMMA KforkCountBits ==
    ASSUME Inv, kfork_count
    PROVE  /\ ~Crashed /\ cpu.owner = 0 /\ cpu.pc = "count"
           /\ UNCHANGED <<proc_list, lapid>> /\ active_procs' = active_procs + 1
           /\ cpu'.owner = 0 /\ cpu'.pc = "register" /\ cpu'.step = cpu.step + 1
           /\ booted' = (cpu'.step = BootForks)
  BY DEF kfork_count, Kmain, Inv, TypeOK, Context

LEMMA ExitRemoveBits ==
    ASSUME Inv, exit_v_remove
    PROVE  \E p \in ExitPids :
             /\ p \in Pids /\ p = cpid /\ Ready(p) /\ active_procs > 0
             /\ \A q \in Slots : IF q = p THEN SetBits(q, FALSE, FALSE) ELSE SameBits(q)
             /\ cpu'.owner # 0 /\ cpu'.pc = "count"
  <1>1. PICK p \in ExitPids :
            Running(p) /\ proc_list' = [proc_list EXCEPT ![p] = Empty]
    BY DEF exit_v_remove
  <1>2. p \in Pids /\ p \in Slots
    BY SchedulerAssumption DEF Pids, Slots
  <1>3. p = cpid /\ Ready(p) /\ active_procs > 0
    BY <1>1, <1>2, RunningFacts
  <1>4. \A q \in Slots : proc_list'[q] = IF q = p THEN Empty ELSE proc_list[q]
    BY <1>1 DEF Inv, TypeOK
  <1>5. \A q \in Slots : IF q = p THEN SetBits(q, FALSE, FALSE) ELSE SameBits(q)
    BY <1>4 DEF SameBits, SetBits, Empty
  <1>6. cpu'.owner # 0 /\ cpu'.pc = "count"
    BY <1>1 DEF exit_v_remove, Inv, TypeOK, Context, Running
  <1> QED BY <1>2, <1>3, <1>5, <1>6

LEMMA ExitCountBits ==
    ASSUME Inv, exit_v_count
    PROVE  /\ cpu.owner # 0 /\ cpu.pc = "count" /\ active_procs > 0
           /\ UNCHANGED <<proc_list, booted>> /\ active_procs' = active_procs - 1
           /\ cpu'.owner # 0 /\ cpu'.pc = "spin"
  <1>1. ~Crashed
    BY GarbageType DEF exit_v_count, Crashed
  <1> QED BY <1>1 DEF exit_v_count, Inv, RunningInv, TypeOK, Context

\* The steps that leave the table, the counts and kmain's place alone.
LEMMA QuietBits ==
    ASSUME Inv, Execute \/ sys_not_ring0 \/ UNCHANGED vars
    PROVE  /\ UNCHANGED <<proc_list, active_procs, lapid, booted, cpid>>
           /\ \/ Crashed'
              \/ cpu'.owner # 0 /\ cpu'.pc = "run"
              \/ cpu' = cpu
  BY DEF Execute, sys_not_ring0, vars, Running, Crashed, Inv, TypeOK, Context

----------------------------------------------------------------------------
\* No step takes away a slot of a process that is not running, and no registration or
\* fork overwrites an entry that is in use, wherever a tick falls.
THEOREM NoEvictionAlways == Spec => NoEviction
  <1> DEFINE Kept(p) == /\ proc_list[p].used /\ ~proc_list'[p].used => cpid = p
                        /\ Ready(p) /\ proc_list'[p].used => proc_list'[p].ready
  <1>1. Inv /\ Inv' /\ [Next]_vars => [\A p \in Pids : Kept(p)]_vars
    <2> SUFFICES ASSUME Inv, Inv', [Next]_vars, NEW p \in Pids
                 PROVE  Kept(p)
      OBVIOUS
    <2>1. p \in Slots
      BY SchedulerAssumption DEF Pids, Slots
    <2>2. CASE irq0_timer_handler \/ sys_other
      BY <2>1, <2>2, TickBits DEF SameBits, SetBits, Ready
    <2>3. CASE sys_exit
      BY <2>1, <2>3, SysExitBits DEF SameBits, SetBits, Ready
    <2>4. CASE sys_fork
      BY <2>1, <2>4, SysForkBits DEF SameBits, SetBits, Ready
    <2>5. CASE register_process
      BY <2>1, <2>5, RegisterBits DEF SameBits, SetBits, Ready
    <2>6. CASE kfork_init
      BY <2>1, <2>6, KforkInitBits DEF SameBits, SetBits, Ready
    <2>7. CASE kfork_count
      BY <2>7, KforkCountBits DEF Ready
    <2>8. CASE exit_v_remove
      BY <2>1, <2>8, ExitRemoveBits DEF SameBits, SetBits, Ready
    <2>9. CASE exit_v_count
      BY <2>9, ExitCountBits DEF Ready
    <2>10. CASE Execute \/ sys_not_ring0 \/ UNCHANGED vars
      BY <2>10, QuietBits DEF Ready
    <2> HIDE DEF Kept
    <2> QED BY <2>2, <2>3, <2>4, <2>5, <2>6, <2>7, <2>8, <2>9, <2>10 DEF Next, kfork, exit_v
  <1> QED BY <1>1, InvAlways, PTL DEF Spec, NoEviction
----------------------------------------------------------------------------
(***************************************************************************)
(* The count of processes.  It is right only between the steps of a kfork  *)
(* and of an exit; the invariants say what is pending in between.          *)
(***************************************************************************)

\* The processes that can run.
ReadyPids == {p \in Pids : Ready(p)}

\* kmain between its kforks: the entry it is filling in, what it has counted and what
\* it has not counted yet.
KmainInv ==
    Kmain =>
        /\ cpu.pc = "init" => lapid \in Pids /\ proc_list[lapid].used /\ ~proc_list[lapid].ready
        /\ booted => cpu.pc = "register" /\ cpu.step >= BootForks
        /\ Cardinality(ReadyPids) = active_procs + (IF cpu.pc = "count" THEN 1 ELSE 0)

\* An exit that has removed its entry and has not lowered the count is still counted.
CountInv ==
    booted =>
        /\ Cardinality(ReadyPids) <= active_procs
        /\ cpu.owner # 0 /\ cpu.pc = "count" => Cardinality(ReadyPids) < active_procs

LEMMA PidSetFinite ==
    ASSUME NEW S, S \subseteq Pids
    PROVE  IsFiniteSet(S) /\ Cardinality(S) \in Nat
  <1>1. IsFiniteSet(Pids)
    BY SchedulerAssumption, FS_Interval DEF Pids
  <1> QED BY <1>1, FS_Subset, FS_CardinalityType

\* What a step that sets the bits of one slot does to the number of ready processes.
LEMMA SetBitsCount ==
    ASSUME NEW t \in Pids, NEW used \in BOOLEAN, NEW ready \in BOOLEAN, 
           \A q \in Slots : IF q = t THEN SetBits(q, used, ready) ELSE SameBits(q)
    PROVE  Cardinality(ReadyPids)' = Cardinality(ReadyPids)
             + (IF used /\ ready THEN 1 ELSE 0) - (IF Ready(t) THEN 1 ELSE 0)
  <1>1. \A q \in Pids : q \in Slots
    BY SchedulerAssumption DEF Pids, Slots
  <1>2. ReadyPids \subseteq Pids
    BY DEF ReadyPids
  <1>3. IsFiniteSet(ReadyPids) /\ Cardinality(ReadyPids) \in Nat
    BY <1>2, PidSetFinite
  <1>4. t \in ReadyPids <=> Ready(t)
    BY DEF ReadyPids
  <1>5. CASE used /\ ready
    <2>1. ReadyPids' = ReadyPids \cup {t}
      BY <1>1, <1>5 DEF ReadyPids, Ready, SetBits, SameBits
    <2> QED BY <1>3, <1>4, <1>5, <2>1, FS_AddElement
  <1>6. CASE ~(used /\ ready)
    <2>1. ReadyPids' = ReadyPids \ {t}
      BY <1>1, <1>6 DEF ReadyPids, Ready, SetBits, SameBits
    <2>2. Cardinality(ReadyPids \ {t}) =
             IF t \in ReadyPids THEN Cardinality(ReadyPids) - 1 ELSE Cardinality(ReadyPids)
      BY <1>3, FS_RemoveElement
    <2>3. Cardinality(ReadyPids)' = Cardinality(ReadyPids) - (IF Ready(t) THEN 1 ELSE 0)
      BY <1>3, <1>4, <2>1, <2>2
    <2> QED BY <1>3, <1>6, <2>3
  <1> QED BY <1>5, <1>6

LEMMA SameBitsCount ==
    ASSUME \A q \in Slots : SameBits(q)
    PROVE  ReadyPids' = ReadyPids
  <1>1. \A q \in Pids : q \in Slots
    BY SchedulerAssumption DEF Pids, Slots
  <1> QED BY <1>1 DEF ReadyPids, Ready, SameBits

\* Nothing is dispatched that the invariants say something about.
LEMMA DispatchedCount ==
    ASSUME Crashed' \/ (cpu'.owner # 0 /\ cpu'.pc # "count"),
           booted' => Cardinality(ReadyPids)' <= active_procs'
    PROVE  KmainInv' /\ CountInv'
  BY GarbageType DEF KmainInv, CountInv, Kmain, Crashed

LEMMA CountStep == Inv /\ Inv' /\ KmainInv /\ CountInv /\ [Next]_vars => KmainInv' /\ CountInv'
  <1> SUFFICES ASSUME Inv, Inv', KmainInv, CountInv, [Next]_vars
               PROVE  KmainInv' /\ CountInv'
    OBVIOUS
  <1>1. active_procs \in Nat /\ Cardinality(ReadyPids) \in Nat
    BY PidSetFinite DEF Inv, TypeOK, ReadyPids
  <1>2. CASE irq0_timer_handler \/ sys_other
    <2>1. UNCHANGED <<active_procs, lapid, booted>>
      BY <1>2 DEF irq0_timer_handler, sys_other
    <2>2. (\A q \in Slots : SameBits(q)) /\ ReadyPids' = ReadyPids
      BY <1>2, TickBits, SameBitsCount
    <2>3. CASE active_procs # 0
      BY <1>2, <2>1, <2>2, <2>3, TickBits, DispatchedCount DEF CountInv
    <2>4. CASE active_procs = 0
      <3>1. cpu'.owner = cpu.owner /\ cpu'.pc = cpu.pc /\ cpu'.step = cpu.step
        BY <1>2, <2>4, TickBits DEF Inv, TypeOK, Context
      <3>2. Kmain' => Kmain
        <4>1. ~Crashed
          BY <1>2, RunningFacts DEF irq0_timer_handler, sys_other
        <4> QED BY <3>1, <4>1 DEF Kmain
      <3>3. KmainInv'
        <4> SUFFICES ASSUME Kmain
                     PROVE  KmainInv'
          BY <3>2 DEF KmainInv
        <4>1. \A q \in Pids : q \in Slots
          BY SchedulerAssumption DEF Pids, Slots
        <4> QED BY <2>1, <2>2, <3>1, <4>1 DEF KmainInv, SameBits
      <3> QED BY <2>1, <2>2, <3>1, <3>3 DEF CountInv
    <2> QED BY <2>3, <2>4
  <1>3. CASE sys_exit
    <2>1. PICK p \in ExitPids :
             /\ p \in Pids /\ p = cpid /\ Ready(p) /\ active_procs > 0
             /\ \A q \in Slots : IF q = p THEN SetBits(q, FALSE, FALSE) ELSE SameBits(q)
             /\ active_procs' = active_procs - 1 /\ UNCHANGED booted
             /\ Crashed' \/ (cpu'.owner # 0 /\ cpu'.pc \in {"run", "spin"})
      BY <1>3, SysExitBits
    <2>2. Cardinality(ReadyPids)' = Cardinality(ReadyPids) + 0 - 1
      BY <2>1, SetBitsCount
    <2> QED BY <1>1, <2>1, <2>2, DispatchedCount DEF CountInv
  <1>4. CASE sys_fork
    <2>1. PICK t \in Pids, filled \in BOOLEAN :
             /\ ~proc_list[t].used
             /\ \A q \in Slots : IF q = t THEN SetBits(q, TRUE, filled) ELSE SameBits(q)
             /\ active_procs > 0
             /\ active_procs' = IF filled THEN active_procs + 1 ELSE active_procs
             /\ UNCHANGED booted
             /\ Crashed' \/ (cpu'.owner # 0 /\ cpu'.pc = "run")
      BY <1>4, SysForkBits
    <2>2. ~Ready(t)
      BY <2>1 DEF Ready
    <2>3. Cardinality(ReadyPids)' = Cardinality(ReadyPids) + (IF filled THEN 1 ELSE 0) - 0
      BY <2>1, <2>2, SetBitsCount
    <2> QED BY <1>1, <2>1, <2>3, DispatchedCount DEF CountInv
  <1>5. CASE register_process
    <2> DEFINE t == lapid'
    <2>1. /\ ~Crashed /\ cpu.owner = 0 /\ t \in Pids
          /\ ~proc_list[t].used
          /\ \A q \in Slots : IF q = t THEN SetBits(q, TRUE, FALSE) ELSE SameBits(q)
          /\ cpu'.owner = 0 /\ cpu'.pc = "init" /\ cpu'.step = cpu.step
      BY <1>5, RegisterBits
    <2>2. ~Ready(t) /\ t \in Slots
      BY <2>1, SchedulerAssumption DEF Ready, Pids, Slots
    <2>3. cpu.pc = "register" /\ cpu.step < BootForks /\ UNCHANGED <<active_procs, booted>>
      BY <1>5 DEF register_process
    <2>4. Kmain /\ ~booted
      BY <1>1, <2>1, <2>3, SchedulerAssumption DEF Kmain, KmainInv, Inv, TypeOK, Context
    <2>5. Cardinality(ReadyPids)' = Cardinality(ReadyPids) + 0 - 0
      BY <2>1, <2>2, SetBitsCount
    <2>6. proc_list'[lapid'].used /\ ~proc_list'[lapid'].ready
      BY <2>1, <2>2 DEF SetBits
    <2>7. Cardinality(ReadyPids)' = active_procs'
      BY <1>1, <2>3, <2>4, <2>5 DEF KmainInv
    <2> QED BY <1>1, <2>1, <2>3, <2>4, <2>6, <2>7 DEF KmainInv, CountInv
  <1>6. CASE kfork_init
    <2>1. /\ ~Crashed /\ cpu.owner = 0 /\ lapid' = lapid
          /\ \A q \in Slots : IF q = lapid THEN SetBits(q, TRUE, TRUE) ELSE SameBits(q)
          /\ cpu'.owner = 0 /\ cpu'.pc = "count" /\ cpu'.step = cpu.step
      BY <1>6, KforkInitBits
    <2>2. Kmain /\ cpu.pc = "init" /\ UNCHANGED <<active_procs, booted>>
      BY <1>6 DEF kfork_init
    <2>3. ~booted /\ lapid \in Pids /\ ~Ready(lapid)
      BY <2>2 DEF KmainInv, Ready
    <2>4. Cardinality(ReadyPids)' = Cardinality(ReadyPids) + 1 - 0
      BY <2>1, <2>3, SetBitsCount
    <2>5. Cardinality(ReadyPids)' = active_procs' + 1
      BY <1>1, <2>2, <2>4 DEF KmainInv
    <2> QED BY <2>1, <2>2, <2>3, <2>5 DEF KmainInv, CountInv
  <1>7. CASE kfork_count
    <2>1. /\ ~Crashed /\ cpu.owner = 0 /\ cpu.pc = "count"
          /\ UNCHANGED <<proc_list, lapid>> /\ active_procs' = active_procs + 1
          /\ cpu'.owner = 0 /\ cpu'.pc = "register" /\ cpu'.step = cpu.step + 1
          /\ booted' = (cpu'.step = BootForks)
      BY <1>7, KforkCountBits
    <2>2. ReadyPids' = ReadyPids
      BY <2>1 DEF ReadyPids, Ready
    <2>3. Cardinality(ReadyPids)' = active_procs'
      BY <1>1, <2>1, <2>2 DEF KmainInv, Kmain
    <2>4. active_procs' \in Nat /\ cpu'.step \in Nat /\ BootForks \in Nat
      BY SchedulerAssumption DEF Inv, TypeOK, Context
    <2>5. booted' => cpu'.step = BootForks
      BY <2>1
    <2> QED BY <2>1, <2>3, <2>4, <2>5 DEF KmainInv, CountInv
  <1>8. CASE exit_v_remove
    <2>1. PICK p \in ExitPids :
             /\ p \in Pids /\ p = cpid /\ Ready(p) /\ active_procs > 0
             /\ \A q \in Slots : IF q = p THEN SetBits(q, FALSE, FALSE) ELSE SameBits(q)
             /\ cpu'.owner # 0 /\ cpu'.pc = "count"
      BY <1>8, ExitRemoveBits
    <2>2. UNCHANGED <<active_procs, booted>>
      BY <1>8 DEF exit_v_remove
    <2>3. Cardinality(ReadyPids)' = Cardinality(ReadyPids) + 0 - 1
      BY <2>1, SetBitsCount
    <2> QED BY <1>1, <2>1, <2>2, <2>3 DEF KmainInv, CountInv, Kmain
  <1>9. CASE exit_v_count
    <2>1. /\ cpu.owner # 0 /\ cpu.pc = "count" /\ active_procs > 0
          /\ UNCHANGED <<proc_list, booted>> /\ active_procs' = active_procs - 1
          /\ cpu'.owner # 0 /\ cpu'.pc = "spin"
      BY <1>9, ExitCountBits
    <2>2. ReadyPids' = ReadyPids
      BY <2>1 DEF ReadyPids, Ready
    <2> QED BY <1>1, <2>1, <2>2, DispatchedCount DEF CountInv
  <1>10. CASE Execute \/ sys_not_ring0 \/ UNCHANGED vars
    <2>1. /\ UNCHANGED <<proc_list, active_procs, lapid, booted, cpid>>
          /\ \/ Crashed'
             \/ cpu'.owner # 0 /\ cpu'.pc = "run"
             \/ cpu' = cpu
      BY <1>10, QuietBits
    <2>2. ReadyPids' = ReadyPids
      BY <2>1 DEF ReadyPids, Ready
    <2>3. CASE cpu' = cpu
      BY <2>1, <2>2, <2>3 DEF KmainInv, CountInv, Kmain, Crashed
    <2> QED BY <2>1, <2>2, <2>3, DispatchedCount DEF CountInv
  <1> QED BY <1>2, <1>3, <1>4, <1>5, <1>6, <1>7, <1>8, <1>9, <1>10 DEF Next, kfork, exit_v

\* Once kmain has started its processes the count of active processes is never below
\* the number that can run, wherever a tick cuts a kfork or an exit in two: a count that
\* is too low would switch schedule off under a process that waits for its turn.
THEOREM CountCoversReadyAlways == Spec => []CountCoversReady
  <1>1. Init => KmainInv /\ CountInv
    <2> SUFFICES ASSUME Init PROVE KmainInv /\ CountInv
      OBVIOUS
    <2>1. ReadyPids = {}
      BY SchedulerAssumption DEF Init, ReadyPids, Ready, Empty, Slots, Pids
    <2>2. Cardinality(ReadyPids) = 0
      BY <2>1, FS_EmptySet
    <2> QED BY <2>2 DEF Init, KmainInv, CountInv
  <1>2. Inv /\ CountInv => CountCoversReady
    <2> SUFFICES ASSUME Inv, CountInv, booted
                 PROVE  active_procs >= Cardinality(ReadyPids)
      BY DEF CountCoversReady, ReadyPids
    <2>1. active_procs \in Nat /\ Cardinality(ReadyPids) \in Nat
      BY PidSetFinite DEF Inv, TypeOK, ReadyPids
    <2> QED BY <2>1 DEF CountInv
  <1> QED BY <1>1, <1>2, CountStep, InvAlways, PTL DEF Spec

----------------------------------------------------------------------------
\* The first process kmain starts is idle, which has no way to exit.
IdleStays == 1 \notin ExitPids

\* Process 1 is the first to be registered, and is ready from the first count on.
IdleInv ==
    /\ active_procs > 0 => Ready(1)
    /\ Kmain => active_procs = cpu.step
    /\ Kmain /\ cpu.step = 0 =>
         /\ cpu.pc = "register" => lapid = 0 /\ ~proc_list[1].used
         /\ cpu.pc \in {"init", "count"} => lapid = 1
         /\ cpu.pc = "count" => Ready(1)
    /\ proc_list[0].used

\* A step that leaves kmain's place alone, or leaves kmain.
LEMMA IdleKept ==
    ASSUME IdleInv, proc_list'[0].used, active_procs' > 0 => Ready(1)',
           Crashed' \/ cpu'.owner # 0
    PROVE  IdleInv'
  BY DEF IdleInv, Kmain

LEMMA IdleStep == IdleStays => (Inv /\ Inv' /\ IdleInv /\ [Next]_vars => IdleInv')
  <1> SUFFICES ASSUME IdleStays, Inv, Inv', IdleInv, [Next]_vars
               PROVE  IdleInv'
    OBVIOUS
  <1>1. /\ 0 \in Slots /\ 1 \in Slots /\ 1 \in Pids /\ 0 \notin Pids
        /\ active_procs \in Nat /\ cpu.step \in Nat
    BY SchedulerAssumption DEF Pids, Slots, Inv, TypeOK, Context
  <1>2. CASE irq0_timer_handler \/ sys_other
    <2>1. UNCHANGED <<active_procs, lapid, booted>>
      BY <1>2 DEF irq0_timer_handler, sys_other
    <2>2. /\ proc_list'[0].used /\ proc_list'[1].used = proc_list[1].used
          /\ proc_list'[1].ready = proc_list[1].ready
      BY <1>1, <1>2, TickBits DEF SameBits, IdleInv
    <2>3. CASE active_procs # 0
      BY <1>2, <2>1, <2>2, <2>3, TickBits, IdleKept DEF IdleInv, Ready
    <2>4. CASE active_procs = 0
      <3>1. cpu'.owner = cpu.owner /\ cpu'.pc = cpu.pc /\ cpu'.step = cpu.step
        BY <1>2, <2>4, TickBits DEF Inv, TypeOK, Context
      <3>2. Kmain' => Kmain
        <4>1. ~Crashed
          BY <1>2, RunningFacts DEF irq0_timer_handler, sys_other
        <4> QED BY <3>1, <4>1 DEF Kmain
      <3> QED BY <2>1, <2>2, <3>1, <3>2 DEF IdleInv, Ready
    <2> QED BY <2>3, <2>4
  <1>3. CASE sys_exit
    <2>1. PICK p \in ExitPids :
             /\ p \in Pids /\ active_procs > 0
             /\ \A q \in Slots : IF q = p THEN SetBits(q, FALSE, FALSE) ELSE SameBits(q)
             /\ Crashed' \/ (cpu'.owner # 0 /\ cpu'.pc \in {"run", "spin"})
      BY <1>3, SysExitBits
    <2>2. p # 1 /\ p # 0
      BY <1>1, <2>1 DEF IdleStays
    <2> QED BY <1>1, <2>1, <2>2, IdleKept DEF IdleInv, Ready, SameBits
  <1>4. CASE sys_fork
    <2>1. PICK t \in Pids, filled \in BOOLEAN :
             /\ ~proc_list[t].used
             /\ \A q \in Slots : IF q = t THEN SetBits(q, TRUE, filled) ELSE SameBits(q)
             /\ active_procs > 0
             /\ active_procs' = IF filled THEN active_procs + 1 ELSE active_procs
             /\ UNCHANGED booted
             /\ Crashed' \/ (cpu'.owner # 0 /\ cpu'.pc = "run")
      BY <1>4, SysForkBits
    <2>2. t # 1 /\ t # 0
      BY <1>1, <2>1 DEF IdleInv, Ready
    <2> QED BY <1>1, <2>1, <2>2, IdleKept DEF IdleInv, Ready, SameBits
  <1>5. CASE register_process
    <2> DEFINE t == lapid'
    <2>1. /\ ~Crashed /\ cpu.owner = 0 /\ t \in Pids
          /\ NextFree(proc_list, lapid, t) /\ ~proc_list[t].used
          /\ \A q \in Slots : IF q = t THEN SetBits(q, TRUE, FALSE) ELSE SameBits(q)
          /\ cpu'.owner = 0 /\ cpu'.pc = "init" /\ cpu'.step = cpu.step
      BY <1>5, RegisterBits
    <2>2. cpu.pc = "register" /\ UNCHANGED <<active_procs, booted>> /\ Kmain
      BY <1>5 DEF register_process
    <2>3. cpu.step = 0 => t = 1
      <3> SUFFICES ASSUME cpu.step = 0, t # 1
                   PROVE  FALSE
        OBVIOUS
      <3>1. lapid = 0 /\ ~proc_list[1].used
        BY <2>2 DEF IdleInv
      <3>2. t > 1 /\ t \in Nat
        BY <2>1, SchedulerAssumption DEF Pids
      <3>3. \A n \in Nat : n > 1 => 1 \in 0..(n - 1)
        OBVIOUS
      <3>4. \A s \in 0..(t - 1) : proc_list[s].used
        BY <2>1, <3>1, <3>2 DEF NextFree
      <3> QED BY <3>1, <3>2, <3>3, <3>4
    <2>4. proc_list'[0].used
      BY <1>1, <2>1 DEF SameBits, IdleInv
    <2>5. active_procs' > 0 => Ready(1)'
      BY <1>1, <2>1, <2>2 DEF SameBits, SetBits, IdleInv, Ready
    <2> QED BY <2>1, <2>2, <2>3, <2>4, <2>5 DEF IdleInv
  <1>6. CASE kfork_init
    <2>1. /\ ~Crashed /\ cpu.owner = 0 /\ lapid' = lapid
          /\ \A q \in Slots : IF q = lapid THEN SetBits(q, TRUE, TRUE) ELSE SameBits(q)
          /\ cpu'.owner = 0 /\ cpu'.pc = "count" /\ cpu'.step = cpu.step
      BY <1>6, KforkInitBits
    <2>2. cpu.pc = "init" /\ UNCHANGED <<active_procs, booted>> /\ Kmain
      BY <1>6 DEF kfork_init
    <2>3. proc_list'[0].used
      BY <1>1, <2>1 DEF SameBits, SetBits, IdleInv
    <2>4. Ready(1) => Ready(1)'
      BY <1>1, <2>1 DEF SameBits, SetBits, Ready
    <2>5. lapid = 1 => Ready(1)'
      BY <1>1, <2>1 DEF SetBits, Ready
    <2> QED BY <2>1, <2>2, <2>3, <2>4, <2>5 DEF IdleInv
  <1>7. CASE kfork_count
    <2>1. /\ ~Crashed /\ cpu.owner = 0 /\ cpu.pc = "count"
          /\ UNCHANGED <<proc_list, lapid>> /\ active_procs' = active_procs + 1
          /\ cpu'.owner = 0 /\ cpu'.pc = "register" /\ cpu'.step = cpu.step + 1
      BY <1>7, KforkCountBits
    <2>2. Kmain /\ active_procs = cpu.step
      BY <2>1 DEF Kmain, IdleInv
    <2>3. Ready(1)
      BY <1>1, <2>1, <2>2 DEF IdleInv
    <2> QED BY <1>1, <2>1, <2>2, <2>3 DEF IdleInv, Ready
  <1>8. CASE exit_v_remove
    <2>1. PICK p \in ExitPids :
             /\ p \in Pids /\ active_procs > 0
             /\ \A q \in Slots : IF q = p THEN SetBits(q, FALSE, FALSE) ELSE SameBits(q)
             /\ cpu'.owner # 0
      BY <1>8, ExitRemoveBits
    <2>2. p # 1 /\ p # 0
      BY <1>1, <2>1 DEF IdleStays
    <2> QED BY <1>1, <2>1, <2>2, IdleKept DEF IdleInv, Ready, SameBits
  <1>9. CASE exit_v_count
    BY <1>9, ExitCountBits, IdleKept DEF IdleInv, Ready
  <1>10. CASE Execute \/ sys_not_ring0 \/ UNCHANGED vars
    <2>1. /\ UNCHANGED <<proc_list, active_procs, lapid, booted, cpid>>
          /\ \/ Crashed'
             \/ cpu'.owner # 0 /\ cpu'.pc = "run"
             \/ cpu' = cpu
      BY <1>10, QuietBits
    <2>2. CASE cpu' = cpu
      BY <2>1, <2>2 DEF IdleInv, Kmain, Crashed, Ready
    <2> QED BY <2>1, <2>2, IdleKept DEF IdleInv, Ready
  <1> QED BY <1>2, <1>3, <1>4, <1>5, <1>6, <1>7, <1>8, <1>9, <1>10 DEF Next, kfork, exit_v

\* As long as the idle process does not exit, schedule's search for a used slot ends,
\* for every size of the table: without an entry it would call itself for ever, also in
\* the moment between an exit's removal of its entry and its count.
THEOREM SearchEndsAlways == IdleStays => (Spec => []SearchEnds)
  <1> SUFFICES ASSUME IdleStays
               PROVE  Spec => []SearchEnds
    OBVIOUS
  <1>1. Init => IdleInv
    BY SchedulerAssumption DEF Init, IdleInv, Unfilled, Empty, Slots
  <1>2. IdleInv => SearchEnds
    BY SchedulerAssumption DEF IdleInv, SearchEnds, Ready, Pids
  <1>3. Inv /\ Inv' /\ IdleInv /\ [Next]_vars => IdleInv'
    BY IdleStep
  <1> QED BY <1>1, <1>2, <1>3, InvAlways, PTL DEF Spec
==========================================================================
