------------------------------- MODULE Kmain -------------------------------
(***************************************************************************)
(* kmain from init_idt to its first kfork.  Interrupts are set up while    *)
(* the devices already ask for them: the loader leaves the interrupt       *)
(* controllers (the PICs) with the vectors and masks of the BIOS, and the  *)
(* user may type from the first moment.  init_8042 then talks to the       *)
(* keyboard controller, which has one byte of output for the answers and   *)
(* for the scan codes.  The rest of kmain is module Boot.                  *)
(***************************************************************************)
EXTENDS Boot

VARIABLES
    step,           \* where kmain is
    cpu,            \* the interrupt flag, and whether the IDT is loaded
    pic,            \* its vectors are the kernel's, the masked lines, the requests
    pic_mask,       \* master_pic_mask and slave_pic_mask: the lines to mask
    handlers,       \* _irq_handlers: the lines that have one
    kbc,            \* the keyboard controller: port 1 is on, the output byte, and
                    \* the command it has not answered yet
    portclk2,       \* bit 5 of the configuration byte; TRUE when not in use
    ps2_listener    \* the driver is registered

setup == <<step, cpu, pic, pic_mask, handlers, kbc, portclk2, ps2_listener>>

kvars == <<vars, setup>>

\* The timer, the keyboard, and a line of the second PIC.
Lines == {"pit", "ps2kb", "pata_p"}

\* What the output byte of the keyboard controller may hold: nothing, a scan code,
\* or the answer to a command.
Commands == {"0x20", "0xaa", "0xab", "0xa9"}

KmainInit ==
    /\ Init
    /\ step = "init_idt"
    /\ cpu = [flag |-> FALSE, idt |-> FALSE]
    /\ pic \in [remapped : {FALSE}, masked : SUBSET Lines, requests : {{}}]
    /\ pic_mask = {}
    /\ handlers = {}
    /\ kbc \in [on : BOOLEAN, out : {"empty", "scancode"}, command : {"none"}]
    /\ portclk2 = TRUE
    /\ ps2_listener = FALSE

----------------------------------------------------------------------------
(***************************************************************************)
(* The devices.                                                            *)
(***************************************************************************)

\* A device other than the keyboard asks for an interrupt.
request ==
    /\ \E l \in Lines \ (pic.requests \cup {"ps2kb"}) :
           pic' = [pic EXCEPT !.requests = @ \cup {l}]
    /\ UNCHANGED <<vars, step, cpu, pic_mask, handlers, kbc, portclk2, ps2_listener>>

\* A byte comes to the output of the keyboard controller: a key, when the port is
\* on, or the answer to the last command; line 1 is raised for either.
Output(c, byte, command) ==
    /\ kbc.out = "empty" /\ c
    /\ kbc' = [kbc EXCEPT !.out = byte, !.command = command]
    /\ pic' = [pic EXCEPT !.requests = @ \cup {"ps2kb"}]
    /\ UNCHANGED <<vars, step, cpu, pic_mask, handlers, portclk2, ps2_listener>>

key == Output(kbc.on, "scancode", kbc.command)

answer == Output(kbc.command # "none", kbc.command, "none")

----------------------------------------------------------------------------
(***************************************************************************)
(* _irq_handler.  The handlers' own work is of the modules Scheduler (with *)
(* no process, schedule returns at once) and Console (nobody listens yet): *)
(* what is left here is the byte ps2_handler takes from the controller.    *)
(***************************************************************************)
Deliverable == {l \in pic.requests \ pic.masked : cpu.flag}

irq_handler ==
    /\ \E l \in Deliverable :
           /\ pic' = [pic EXCEPT !.requests = @ \ {l}]
           /\ kbc' = IF l = "ps2kb" /\ l \in handlers THEN [kbc EXCEPT !.out = "empty"]
                     ELSE kbc
    /\ UNCHANGED <<vars, step, cpu, pic_mask, handlers, portclk2, ps2_listener>>

----------------------------------------------------------------------------
(***************************************************************************)
(* kmain, up to init_8042.                                                 *)
(***************************************************************************)
At(from, to) == step = from /\ step' = to

\* Remapping the PICs clears their masks and the requests they have latched.
irq_remap ==
    /\ At("init_idt", "mask")
    /\ pic' = [remapped |-> TRUE, masked |-> {}, requests |-> {}]
    /\ UNCHANGED <<cpu, pic_mask, handlers>>

\* Fault: nothing is masked until pic_remask.
mask_all_not ==
    /\ At("mask", "sti")
    /\ pic_mask' = Lines
    /\ UNCHANGED <<pic, cpu, handlers>>

mask_all ==
    /\ At("mask", "sti")
    /\ pic' = [pic EXCEPT !.masked = Lines]
    /\ pic_mask' = Lines
    /\ UNCHANGED <<cpu, handlers>>

\* Interrupts are enabled, then the IDT is loaded.
sti ==
    /\ At("sti", "load_idt")
    /\ cpu' = [cpu EXCEPT !.flag = TRUE]
    /\ UNCHANGED <<pic, pic_mask, handlers>>

load_idt ==
    /\ At("load_idt", "timer")
    /\ cpu' = [cpu EXCEPT !.idt = TRUE]
    /\ UNCHANGED <<pic, pic_mask, handlers>>

\* A handler that is there already stays.
irq_install_handler(l) == handlers' = handlers \cup {l}

\* The masks change in the variables only, until pic_remask.
install_timer ==
    /\ At("timer", "disable")
    /\ irq_install_handler("pit")
    /\ pic_mask' = pic_mask \ {"pit"}
    /\ UNCHANGED <<pic, cpu>>

install_ps2 ==
    /\ At("install", "remask")
    /\ irq_install_handler("ps2kb")
    /\ pic_mask' = pic_mask \ {"ps2kb"}
    /\ UNCHANGED <<pic, cpu>>

pic_remask ==
    /\ At("remask", "drives")
    /\ pic' = [pic EXCEPT !.masked = pic_mask]
    /\ UNCHANGED <<cpu, pic_mask, handlers>>

start_interrupts ==
    /\ irq_remap \/ mask_all \/ sti \/ load_idt \/ install_timer \/ install_ps2 \/ pic_remask
    /\ UNCHANGED <<vars, kbc, portclk2, ps2_listener>>

----------------------------------------------------------------------------
(***************************************************************************)
(* init_8042.  A command that has an answer is followed by a loop that     *)
(* waits for the output byte and by the read of it.  The configuration     *)
(* byte goes to the command port, where the controller ignores it.         *)
(***************************************************************************)
Send(from, command) ==
    /\ At(from, command)
    /\ kbc' = [kbc EXCEPT !.command = command]
    /\ UNCHANGED <<portclk2, ps2_listener>>

\* The output byte is there, and is taken.
Take == kbc.out # "empty" /\ kbc' = [kbc EXCEPT !.out = "empty"] /\ UNCHANGED ps2_listener

\* Fault: the keyboard stays on.
disable_ports_not == At("disable", "flush") /\ UNCHANGED <<kbc, portclk2, ps2_listener>>

disable_ports ==
    /\ At("disable", "flush")
    /\ kbc' = [kbc EXCEPT !.on = FALSE]
    /\ UNCHANGED <<portclk2, ps2_listener>>

flush ==
    \/ step = "flush" /\ Take /\ UNCHANGED <<step, portclk2>>
    \/ At("flush", "config") /\ kbc.out = "empty" /\ UNCHANGED <<kbc, portclk2, ps2_listener>>

\* The configuration; its bit 5 tells the code whether to test the second port.
read_config ==
    \/ Send("config", "0x20")
    \/ At("0x20", "self test") /\ Take /\ portclk2' \in BOOLEAN

\* A controller that fails its test stays as it is, and kmain goes on.
self_test ==
    \/ Send("self test", "0xaa")
    \/ At("0xaa", "port 1") /\ Take /\ UNCHANGED portclk2
    \/ At("0xaa", "install") /\ Take /\ portclk2' = TRUE

\* The results of the port tests are only printed.
test_ports ==
    \/ Send("port 1", "0xab")
    \/ /\ At("0xab", IF portclk2 THEN "enable" ELSE "port 2")
       /\ Take /\ portclk2' = TRUE
    \/ Send("port 2", "0xa9")
    \/ At("0xa9", "enable") /\ Take /\ UNCHANGED portclk2

register_keyboard ==
    /\ At("enable", "install")
    /\ kbc' = [kbc EXCEPT !.on = TRUE]
    /\ ps2_listener' = TRUE
    /\ UNCHANGED portclk2

init_8042 ==
    /\ disable_ports \/ flush \/ read_config \/ self_test \/ test_ports \/ register_keyboard
    /\ UNCHANGED <<vars, cpu, pic, pic_mask, handlers>>

----------------------------------------------------------------------------
\* The drives, the filesystems and the scheduler.
register_all == step = "drives" /\ Next /\ UNCHANGED setup

kmain == start_interrupts \/ init_8042 \/ register_all

KmainNext == kmain \/ request \/ key \/ answer \/ irq_handler

\* The processor runs kmain between interrupts, and the controller answers.
KmainSpec ==
    /\ KmainInit /\ [][KmainNext]_kvars
    /\ WF_kvars(start_interrupts) /\ WF_kvars(init_8042)
    /\ WF_kvars(answer)

----------------------------------------------------------------------------
\* An interrupt that the processor would take finds the kernel's vectors, the IDT
\* and a handler, whatever the devices asked for before and while init_idt and kmain
\* set them up: init_idt enables interrupts before it loads the IDT.
NoStrayInterrupt ==
    \A l \in Deliverable : cpu.idt /\ pic.remapped /\ l \in handlers

\* The byte that init_8042 waits for, when it is there, is the answer to the command
\* just sent: neither a key typed before or meanwhile nor an earlier answer.
AnswersInStep == step \in Commands => kbc.out \in {"empty", step}

\* kmain comes to its drives: it is not kept in init_8042 by a user who types, nor in
\* a wait for an answer that was flushed or that ps2_handler took.
KmainStarts == <>(step = "drives")
==========================================================================
