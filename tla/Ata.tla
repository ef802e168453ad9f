------------------------------- MODULE Ata -------------------------------
(***************************************************************************)
(* Programmed I/O with an ATA drive (kernel/drivers/ata.c) and the waits   *)
(* of kernel/drivers/timer.c it is built on: ata_identify's polling of a   *)
(* drive, ata_read and ata_write with the commands they cut a request      *)
(* into, ata28_read and ata28_write.  Three parties act: the code, the     *)
(* timer that advances `seconds', and the drive, whose status register     *)
(* changes when it likes.  Of the data, which sector of the disk moved to  *)
(* or from which place in the buffer is kept: the drive hands over its     *)
(* sectors in order, one whenever the code goes through the data port      *)
(* while the drive asks for data, and nothing when it does not.            *)
(***************************************************************************)
EXTENDS Integers

CONSTANTS
    Statuses,    \* what the drive may show in its status register
    MaxSectors,  \* bound on the sectors of a request
    Chunk,       \* 256, the sectors of a command at most
    LbaMod,      \* 2^24, the sectors the three LBA registers tell apart
    Starts,      \* the first sectors asked for
    Seconds,     \* 5, the argument of wait_secs
    trymax       \* 6

ASSUME AtaAssumption ==
    /\ Statuses \subseteq [bsy : BOOLEAN, rdy : BOOLEAN, df : BOOLEAN,
                           drq : BOOLEAN, err : BOOLEAN]
    /\ MaxSectors \in Nat
    /\ Chunk \in Nat \ {0}
    /\ LbaMod \in Nat \ {0}
    /\ Starts \subseteq Nat
    /\ Seconds \in Nat \ {0}
    /\ trymax \in Nat

VARIABLES
    status,      \* the drive's status register
    left,        \* seconds until wait_secs(0) returns 1
    pc,          \* where the call in progress is
    res,         \* the status byte the code read last
    request,     \* the call: what it is, how many sectors, from which on
    chunk,       \* how many commands it has sent
    job,         \* the command: sectors, the first one, its place in the buffer
    j,           \* sectors transferred
    trycount,
    ret,         \* what poll_drive or the command returned
    irqs,        \* interrupts are enabled: not so in a system call
    data         \* what went through the data port for this request

vars == <<status, left, pc, res, request, chunk, job, j, trycount, ret, irqs, data>>

Codes == {"E_NO_ERR", "E_TIMEOUT", "DE_DRIVE_ERR", "DE_INVALID_DRIVE",
          "E_NOT_IMPLEMENTED", "E_UNKNOWN", "failed"}

Requests == [kind : {"identify", "read", "write"}, sectors : 0..MaxSectors, start : Nat]

Commands == [sectors : 0..(Chunk - 1), start : 0..(LbaMod - 1), at : Nat]

NoCommand == [sectors |-> 0, start |-> 0, at |-> 0]

\* moved: the pairs <<place in the buffer, sector of the disk>>; missed: the places
\* that were gone over while the drive asked for no data; served: the sectors of the
\* command that the drive is through with.
NoData == [moved |-> {}, missed |-> {}, served |-> 0]

Init ==
    /\ status \in Statuses
    /\ left = 0
    /\ pc = "idle"
    /\ res = status
    /\ request = [kind |-> "identify", sectors |-> 0, start |-> 0]
    /\ chunk = 0
    /\ job = NoCommand
    /\ j = 0
    /\ trycount = 0
    /\ ret = "E_NO_ERR"
    /\ irqs = TRUE
    /\ data = NoData

----------------------------------------------------------------------------
\* The drive changes its status: it is external hardware.
Drive ==
    /\ \E s \in Statuses \ {status} : status' = s
    /\ UNCHANGED <<left, pc, res, request, chunk, job, j, trycount, ret, irqs, data>>

\* wait_secs(n) sets start = seconds + n - 1, and wait_secs(0) asks for
\* seconds > start: it takes n increments of seconds.
wait_secs(n) == left' = n

Due == left = 0

\* irq0_timer_handler increments seconds.  The gate of int 0x80 clears IF, so while a
\* system call reads or writes a file the clock stands still.
Second ==
    /\ left > 0
    /\ irqs \/ pc = "idle"
    /\ left' = left - 1
    /\ UNCHANGED <<status, pc, res, request, chunk, job, j, trycount, ret, irqs, data>>

----------------------------------------------------------------------------
\* Whether the request has sent its last command; ata_identify has no other.
LastCommand == request.kind = "identify" \/ chunk > request.sectors \div Chunk

\* A command ends.  ata_read and ata_write do not look at its result: they go on to
\* the next one, and after the last return to their caller.
Return(code) ==
    /\ pc' = IF LastCommand THEN "idle" ELSE "chunks"
    /\ ret' = code
    /\ job' = NoCommand /\ j' = 0 /\ trycount' = 0   \* its locals are gone
    /\ UNCHANGED <<status, left, res, request, chunk, irqs, data>>

Goto(place) == pc' = place

(***************************************************************************)
(* ata_identify up to its first transfer: IDENTIFY is sent, a status of 0  *)
(* means there is no drive, else poll_drive_i waits for it.                *)
(***************************************************************************)
ata_identify ==
    /\ pc = "idle"
    /\ request' = [kind |-> "identify", sectors |-> 0, start |-> 0]
    /\ data' = NoData
    /\ irqs' = TRUE
    /\ Goto("identify")
    /\ UNCHANGED <<status, left, res, chunk, job, j, trycount, ret>>

NoBits(s) == ~s.bsy /\ ~s.rdy /\ ~s.df /\ ~s.drq /\ ~s.err

identify_status ==
    /\ pc = "identify"
    /\ \/ NoBits(status) /\ Return("DE_INVALID_DRIVE")
       \/ /\ ~NoBits(status)
          /\ Goto("i_busy") /\ wait_secs(Seconds)
          /\ UNCHANGED <<status, res, request, chunk, job, j, trycount, ret, irqs, data>>

\* while(status & 0x80), bounded by the timeout; then the LBA registers tell an
\* ATA drive from another kind, and the status is read once more.
poll_drive_i_busy ==
    /\ pc = "i_busy"
    /\ \/ status.bsy /\ Due /\ Return("E_TIMEOUT")
       \/ ~status.bsy /\ Return("E_NOT_IMPLEMENTED")
       \/ /\ ~status.bsy
          /\ Goto("i_status")
          /\ UNCHANGED <<status, left, res, request, chunk, job, j, trycount, ret, irqs, data>>

poll_drive_i_status ==
    /\ pc = "i_status"
    /\ res' = status
    /\ wait_secs(Seconds)
    /\ Goto("i_data")
    /\ UNCHANGED <<status, request, chunk, job, j, trycount, ret, irqs, data>>

\* The second loop does not read the status again.
poll_drive_i_data ==
    /\ pc = "i_data"
    /\ \/ ~res.drq /\ ~res.err /\ Due /\ Return("E_TIMEOUT")
       \/ res.err /\ Return("E_UNKNOWN")
       \/ res.drq /\ ~res.err /\ Return("E_NO_ERR")

----------------------------------------------------------------------------
(***************************************************************************)
(* The call of ata_read or ata_write, by kmain with interrupts enabled or  *)
(* by a system call.  Nothing sets the drive's lba48 bit and clearmem      *)
(* clears nothing, so the bit is what the page of the drive's structure    *)
(* held; with the bit set the call is turned away.                         *)
(***************************************************************************)
Call(kind) ==
    /\ pc = "idle"
    /\ \E n \in 0..MaxSectors, s \in Starts :
        request' = [kind |-> kind, sectors |-> n, start |-> s]
    /\ irqs' \in BOOLEAN
    /\ chunk' = 0
    /\ data' = NoData
    /\ \E lba48 \in BOOLEAN :
        \/ lba48 /\ ret' = "E_NOT_IMPLEMENTED" /\ UNCHANGED pc
        \/ ~lba48 /\ Goto("chunks") /\ UNCHANGED ret
    /\ UNCHANGED <<status, left, res, job, j, trycount>>

ata_read == Call("read")

ata_write == Call("write")

\* The storage layer.  Every drive that register_drive has been given is an ATA drive.
read_from_drive == ata_read

write_to_drive == ata_write

\* Fault: the rest goes behind the place of a chunk more.
Command_far(k) ==
    LET n == request.sectors
        end == (k + 1) * Chunk IN
    [sectors |-> IF k < n \div Chunk THEN 0 ELSE n % Chunk,
     start   |-> (request.start + (IF k < n \div Chunk THEN k * Chunk ELSE end \div 2)) % LbaMod,
     at      |-> end]

(***************************************************************************)
(* The k-th command of a request.  A whole chunk is sent as a count of 0   *)
(* to the place one chunk further on; the rest follows, at a sector that   *)
(* is half as far on as it should be (`end' counts words of 16 bits and is *)
(* divided by 512).  DRIVE_HEAD is given bits of the count, so the sector  *)
(* is what its lower 24 bits say.                                          *)
(***************************************************************************)
Command(k) ==
    LET n == request.sectors
        end == IF k < n \div Chunk THEN (k + 1) * Chunk ELSE k * Chunk IN
    [sectors |-> IF k < n \div Chunk THEN 0 ELSE n % Chunk,
     start   |-> (request.start + (IF k < n \div Chunk THEN k * Chunk ELSE end \div 2)) % LbaMod,
     at      |-> end]

\* ata28_read or ata28_write is called.
ata28 ==
    /\ pc = "chunks"
    /\ job' = Command(chunk)
    /\ chunk' = chunk + 1
    /\ j' = 0
    /\ data' = [moved |-> data.moved, missed |-> data.missed, served |-> 0]
    /\ Goto("wait_ready")
    /\ UNCHANGED <<status, left, res, request, trycount, ret, irqs>>

\* 256 words go through the data port, without a look at the data request bit: the
\* next sector of the command if the bit is set, and else nothing that is the disk's.
Transfer ==
    /\ LET ready == status.drq /\ ~status.bsy
           pair == <<job.at + j, job.start + data.served>> IN
       data' = [moved  |-> data.moved \cup (IF ready THEN {pair} ELSE {}),
                missed |-> data.missed \cup (IF ready THEN {} ELSE {job.at + j}),
                served |-> data.served + (IF ready THEN 1 ELSE 0)]
    /\ j' = j + 1

\* wait_ready before the registers are written; a write first reads the status
\* and starts a wait.
wait_ready ==
    /\ pc = "wait_ready" /\ status.rdy
    /\ \/ request.kind = "read" /\ Goto("command") /\ UNCHANGED <<left, res>>
       \/ request.kind = "write" /\ res' = status /\ wait_secs(Seconds) /\ Goto("w_busy")
    /\ UNCHANGED <<status, request, chunk, job, j, trycount, ret, irqs, data>>

\* ata28_write waits while busy without data request.
write_busy ==
    /\ pc = "w_busy"
    /\ \/ /\ ~res.bsy \/ res.drq
          /\ Goto("command")
          /\ UNCHANGED <<left, res, ret>>
       \/ /\ res.bsy /\ ~res.drq
          /\ ~(status.err \/ status.df \/ Due)
          /\ res' = status
          /\ UNCHANGED <<left, pc, ret>>
       \/ /\ res.bsy /\ ~res.drq
          /\ status.err \/ status.df \/ Due
          /\ res' = status
          /\ pc' = IF LastCommand THEN "idle" ELSE "chunks"
          /\ ret' = "failed"
          /\ UNCHANGED left
    /\ UNCHANGED <<status, request, chunk, job, j, trycount, irqs, data>>

\* The registers and the command are written, then wait_ready again.
command ==
    /\ pc = "command" /\ status.rdy
    /\ Goto(IF request.kind = "read" THEN "r_sector" ELSE "w_sector")
    /\ UNCHANGED <<status, left, res, request, chunk, job, j, trycount, ret, irqs, data>>

\* ata28_write sends one sector after another, then flushes the cache.
write_sector ==
    /\ pc = "w_sector"
    /\ \/ /\ j < job.sectors
          /\ Transfer
          /\ UNCHANGED <<status, left, pc, res, request, chunk, job, trycount, ret, irqs>>
       \/ j = job.sectors /\ Return("E_NO_ERR")

----------------------------------------------------------------------------
\* poll_drive reads the status and starts a wait.
StartPoll == res' = status /\ wait_secs(Seconds) /\ Goto("poll")

\* The head of ata28_read's loop over the sectors.
read_sector ==
    /\ pc = "r_sector"
    /\ \/ /\ j < job.sectors
          /\ trycount' = 0
          /\ StartPoll
          /\ UNCHANGED <<status, request, chunk, job, j, ret, irqs, data>>
       \/ j = job.sectors /\ Return("E_NO_ERR")

\* Fault: the loop has no timeout at all.
Waiting_forever(s, due) == (~s.rdy /\ s.drq) \/ s.bsy

\* The condition of poll_drive's loop: the timeout ends only one side of it.
Waiting(s, due) == (~s.rdy /\ s.drq) \/ (s.bsy /\ ~due)

poll_drive ==
    /\ pc = "poll"
    /\ \/ /\ Waiting(res, Due) /\ (res.df \/ res.err)
          /\ ret' = "DE_DRIVE_ERR"
          /\ Goto("polled")
          /\ UNCHANGED res
       \/ /\ Waiting(res, Due) /\ ~res.df /\ ~res.err
          /\ res' = status
          /\ UNCHANGED <<pc, ret>>
       \/ /\ ~Waiting(res, Due)
          /\ Goto("poll_end")
          /\ UNCHANGED <<res, ret>>
    /\ UNCHANGED <<status, left, request, chunk, job, j, trycount, irqs, data>>

\* Fault: leaving the loop is taken for an answer.
poll_drive_end_unchecked ==
    /\ pc = "poll_end"
    /\ ret' = "E_NO_ERR"
    /\ Goto("polled")
    /\ UNCHANGED <<status, left, res, request, chunk, job, j, trycount, irqs, data>>

\* The timeout is looked at again after the loop.
poll_drive_end ==
    /\ pc = "poll_end"
    /\ ret' = IF Due THEN "E_TIMEOUT" ELSE "E_NO_ERR"
    /\ Goto("polled")
    /\ UNCHANGED <<status, left, res, request, chunk, job, j, trycount, irqs, data>>

\* Fault: trycount <= trymax.
read_polled_once_more ==
    /\ pc = "polled"
    /\ \/ /\ ret # "E_NO_ERR" /\ trycount <= trymax
          /\ trycount' = trycount + 1
          /\ StartPoll
          /\ UNCHANGED <<status, request, chunk, job, j, ret, irqs, data>>
       \/ ret # "E_NO_ERR" /\ trycount > trymax /\ Return("failed")
       \/ /\ ret = "E_NO_ERR"
          /\ Transfer
          /\ Goto("r_sector")
          /\ UNCHANGED <<status, left, res, request, chunk, job, trycount, ret, irqs>>

\* What ata28_read does with the result: try again, give up, or take the sector.
read_polled ==
    /\ pc = "polled"
    /\ \/ /\ ret # "E_NO_ERR" /\ trycount < trymax
          /\ trycount' = trycount + 1
          /\ StartPoll
          /\ UNCHANGED <<status, request, chunk, job, j, ret, irqs, data>>
       \/ ret # "E_NO_ERR" /\ trycount >= trymax /\ Return("failed")
       \/ /\ ret = "E_NO_ERR"
          /\ Transfer
          /\ Goto("r_sector")
          /\ UNCHANGED <<status, left, res, request, chunk, job, trycount, ret, irqs>>

Code ==
    \/ ata28
    \/ identify_status
    \/ poll_drive_i_busy
    \/ poll_drive_i_status
    \/ poll_drive_i_data
    \/ wait_ready
    \/ write_busy
    \/ command
    \/ write_sector
    \/ read_sector
    \/ poll_drive
    \/ poll_drive_end
    \/ read_polled

Next ==
    \/ Drive
    \/ Second
    \/ ata_identify
    \/ read_from_drive
    \/ write_to_drive
    \/ Code

Spec == Init /\ [][Next]_vars

\* The processor executes the call in progress, and the PIT goes on ticking where
\* interrupts are enabled; the drive owes nothing.
FairSpec == Spec /\ WF_vars(Code) /\ WF_vars(Second)

----------------------------------------------------------------------------
\* Every variable has its type; a poll is repeated trymax times at most.
TypeOK ==
    /\ status \in Statuses /\ res \in Statuses
    /\ left \in 0..Seconds
    /\ pc \in {"idle", "identify", "i_busy", "i_status", "i_data", "chunks", "wait_ready",
               "w_busy", "command", "w_sector", "r_sector", "poll", "poll_end", "polled"}
    /\ request \in Requests /\ chunk \in Nat
    /\ job \in Commands /\ j \in 0..Chunk
    /\ trycount \in 0..trymax
    /\ ret \in Codes
    /\ irqs \in BOOLEAN
    /\ data \in [moved : SUBSET (Nat \X Nat), missed : SUBSET Nat, served : Nat]

\* No request goes beyond its buffer.  One of less than a chunk, inside the part of the
\* disk that 24 bits reach, moves sectors that were asked for, each to its own place as
\* long as the drive had data whenever it was taken, whatever polls had to be repeated;
\* and a request that reports no error has gone over all of its places, so that what
\* did not move is what the drive was not ready for.
AskedSectors ==
    /\ \A p \in data.moved : p[1] < request.sectors
    /\ request.sectors < Chunk /\ request.start + request.sectors <= LbaMod =>
         /\ \A p \in data.moved :
               /\ request.start <= p[2] /\ p[2] <= request.start + p[1]
               /\ (\A m \in data.missed : p[1] < m) => p[2] = request.start + p[1]
         /\ pc = "idle" /\ ret = "E_NO_ERR" =>
               \A k \in 0..(request.sectors - 1) :
                   k \in data.missed \/ \E p \in data.moved : p[1] = k

\* When poll_drive reports no error the drive was not busy at its last look: a
\* wait that ran out in the same moment as the loop ended is never taken for an
\* answer.
NotBusyWhenPolled == pc = "polled" /\ ret = "E_NO_ERR" => ~res.bsy

\* A poll that has left its loop with the drive busy left it because of the
\* timeout, which stays expired.
TimeoutHolds == pc = "poll_end" /\ res.bsy => Due

\* A poll's answer belongs to the sector that is being read.
SectorPending == pc \in {"poll", "poll_end", "polled"} => j < job.sectors

\* Once the drive keeps its ready bit set, every request made with interrupts enabled
\* comes to an end, however long the drive stays busy; one made in a system call, where
\* no wait runs out, does when the drive is no longer busy either.
CallsEnd ==
    /\ <>[]status.rdy => (pc # "idle" /\ irqs ~> pc = "idle")
    /\ <>[](status.rdy /\ ~status.bsy) => (pc # "idle" ~> pc = "idle")
==========================================================================
