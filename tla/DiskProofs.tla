---------------------------- MODULE DiskProofs ----------------------------
(***************************************************************************)
(* Theorems about the disk: the ATA driver, for every set of status        *)
(* registers the drive may show, every wait and every number of tries; and *)
(* the chains of clusters of the FAT32 volume above it, for every size of  *)
(* the volume and everything memory may hold.                              *)
(***************************************************************************)
EXTENDS Ata, Files, TLAPS


\* What makes a poll's answer reliable, with what it rests on.
Inv == TypeOK /\ TimeoutHolds /\ SectorPending /\ NotBusyWhenPolled

\* A fresh request, and the state before the first one, satisfy the invariant.
LEMMA InitInv == Init => Inv
BY AtaAssumption DEF Init, Inv, TypeOK, TimeoutHolds, SectorPending, NotBusyWhenPolled,
                     Requests, Commands, NoCommand, NoData, Codes

\* Returning from a call preserves the invariant.
LEMMA ReturnInv ==
    ASSUME NEW code \in Codes, Inv, Return(code)
    PROVE  Inv'
BY AtaAssumption DEF Inv, TypeOK, TimeoutHolds, SectorPending, NotBusyWhenPolled,
                     Requests, Commands, NoCommand, Codes, Return, Due

\* The calls that may begin preserve the invariant.
LEMMA CallInv ==
    ASSUME Inv, ata_identify \/ read_from_drive \/ write_to_drive
    PROVE  Inv'
<1> USE AtaAssumption DEF Inv, TypeOK, TimeoutHolds, SectorPending, NotBusyWhenPolled,
                          Requests, Commands, NoData, Codes, Due, Goto
<1>1. CASE ata_identify
  BY <1>1 DEF ata_identify
<1>2. CASE read_from_drive
  BY <1>2 DEF read_from_drive, ata_read, Call
<1>3. CASE write_to_drive
  BY <1>3 DEF write_to_drive, ata_write, Call
<1> QED  BY <1>1, <1>2, <1>3

\* The drive and the clock: a changed status is not yet a status that was read,
\* and a wait that has run out stays so.
LEMMA EnvironmentInv ==
    ASSUME Inv, Drive \/ Second
    PROVE  Inv'
<1> USE AtaAssumption DEF Inv, TypeOK, TimeoutHolds, SectorPending, NotBusyWhenPolled, Due
<1>1. CASE Drive
  BY <1>1 DEF Drive
<1>2. CASE Second
  BY <1>2 DEF Second
<1> QED  BY <1>1, <1>2

\* The commands a request is cut into.
LEMMA CommandType ==
    ASSUME TypeOK
    PROVE  Command(chunk) \in Commands
<1> DEFINE n == request.sectors
           end == IF chunk < n \div Chunk THEN (chunk + 1) * Chunk ELSE chunk * Chunk
           start == request.start + (IF chunk < n \div Chunk THEN chunk * Chunk ELSE end \div 2)
<1>1. n \in Nat /\ chunk \in Nat /\ request.start \in Nat
  BY AtaAssumption DEF TypeOK, Requests
<1>2. n % Chunk \in 0..(Chunk - 1) /\ 0 \in 0..(Chunk - 1)
  BY <1>1, AtaAssumption
<1>3. chunk * Chunk \in Nat /\ (chunk + 1) * Chunk \in Nat
  BY <1>1, AtaAssumption
<1>4. end \in Nat
  BY <1>3
<1> HIDE DEF end
<1>5. start \in Nat
  BY <1>1, <1>3, <1>4
<1> HIDE DEF start
<1>6. start % LbaMod \in 0..(LbaMod - 1)
  BY <1>5, AtaAssumption
<1>7. Command(chunk) = [sectors |-> IF chunk < n \div Chunk THEN 0 ELSE n % Chunk,
                        start |-> start % LbaMod, at |-> end]
  BY DEF Command, end, start
<1> QED  BY <1>2, <1>4, <1>6, <1>7 DEF Commands

\* A sector of the command in progress is moved.
LEMMA TransferType ==
    ASSUME TypeOK, j < job.sectors, Transfer
    PROVE  /\ j' \in 0..Chunk
           /\ data' \in [moved : SUBSET (Nat \X Nat), missed : SUBSET Nat, served : Nat]
BY AtaAssumption DEF TypeOK, Commands, Transfer

\* ata_identify and ata28_write, which do not use poll_drive.
LEMMA OtherInv ==
    ASSUME Inv,
           \/ ata28 \/ identify_status \/ poll_drive_i_busy \/ poll_drive_i_status \/ poll_drive_i_data
           \/ wait_ready \/ write_busy \/ command \/ write_sector
    PROVE  Inv'
<1> USE AtaAssumption DEF Codes
<1>1. CASE identify_status
  <2>1. CASE Return("DE_INVALID_DRIVE")
    BY <2>1, ReturnInv
  <2> QED  BY <1>1, <2>1 DEF identify_status, Inv, TypeOK, TimeoutHolds, SectorPending,
                NotBusyWhenPolled, Goto, wait_secs
<1>2. CASE poll_drive_i_busy
  <2>1. CASE Return("E_TIMEOUT") \/ Return("E_NOT_IMPLEMENTED")
    BY <2>1, ReturnInv
  <2> QED  BY <1>2, <2>1 DEF poll_drive_i_busy, Inv, TypeOK, TimeoutHolds, SectorPending,
                NotBusyWhenPolled, Goto
<1>3. CASE poll_drive_i_status
  BY <1>3 DEF poll_drive_i_status, Inv, TypeOK, TimeoutHolds, SectorPending,
              NotBusyWhenPolled, Goto, wait_secs
<1>4. CASE poll_drive_i_data
  BY <1>4, ReturnInv DEF poll_drive_i_data
<1>5. CASE wait_ready
  BY <1>5 DEF wait_ready, Inv, TypeOK, TimeoutHolds, SectorPending,
              NotBusyWhenPolled, Goto, wait_secs
<1>6. CASE write_busy
  BY <1>6 DEF write_busy, Inv, TypeOK, TimeoutHolds, SectorPending,
              NotBusyWhenPolled, Goto, LastCommand
<1>7. CASE command
  BY <1>7 DEF command, Inv, TypeOK, TimeoutHolds, SectorPending,
              NotBusyWhenPolled, Goto
<1>8. CASE write_sector
  <2>1. CASE Return("E_NO_ERR")
    BY <2>1, ReturnInv
  <2>2. CASE /\ j < job.sectors /\ Transfer
             /\ UNCHANGED <<status, left, pc, res, request, chunk, job, trycount, ret, irqs>>
    BY <1>8, <2>2, TransferType DEF write_sector, Inv, TypeOK, TimeoutHolds, SectorPending,
                      NotBusyWhenPolled, Due
  <2> QED  BY <1>8, <2>1, <2>2 DEF write_sector
<1>9. CASE ata28
  BY <1>9, CommandType DEF ata28, Inv, TypeOK, TimeoutHolds, SectorPending,
              NotBusyWhenPolled, Goto, Due
<1> QED  BY <1>1, <1>2, <1>3, <1>4, <1>5, <1>6, <1>7, <1>8, <1>9

\* ata28_read's loop and poll_drive.
LEMMA ReadInv ==
    ASSUME Inv, read_sector \/ poll_drive \/ poll_drive_end \/ read_polled
    PROVE  Inv'
<1> USE AtaAssumption DEF Codes
<1>1. CASE read_sector
  <2>1. CASE Return("E_NO_ERR")
    BY <2>1, ReturnInv
  <2> QED  BY <1>1, <2>1 DEF read_sector, StartPoll, Inv, TypeOK, TimeoutHolds,
                SectorPending, NotBusyWhenPolled, Goto, wait_secs
<1>2. CASE poll_drive
  BY <1>2 DEF poll_drive, Waiting, Inv, TypeOK, TimeoutHolds, SectorPending,
              NotBusyWhenPolled, Goto, Due
<1>3. CASE poll_drive_end
  BY <1>3 DEF poll_drive_end, Inv, TypeOK, TimeoutHolds, SectorPending,
              NotBusyWhenPolled, Goto, Due
<1>4. CASE read_polled
  <2>1. CASE Return("failed")
    BY <2>1, ReturnInv
  <2>2. CASE trycount < trymax /\ trycount' = trycount + 1 /\ StartPoll
             /\ UNCHANGED <<status, request, chunk, job, j, ret, irqs, data>>
    BY <1>4, <2>2 DEF read_polled, StartPoll, Inv, TypeOK, TimeoutHolds,
                SectorPending, NotBusyWhenPolled, Goto, wait_secs
  <2>3. CASE /\ Transfer /\ Goto("r_sector")
             /\ UNCHANGED <<status, left, res, request, chunk, job, trycount, ret, irqs>>
    BY <1>4, <2>3, TransferType DEF read_polled, Inv, TypeOK, TimeoutHolds, SectorPending,
                NotBusyWhenPolled, Goto
  <2> QED  BY <1>4, <2>1, <2>2, <2>3 DEF read_polled
<1> QED  BY <1>1, <1>2, <1>3, <1>4

\* Every step of the code, the clock or the drive preserves the invariant.
LEMMA NextInv == Inv /\ [Next]_vars => Inv'
<1> SUFFICES ASSUME Inv, [Next]_vars PROVE Inv'
  OBVIOUS
<1>1. CASE Drive \/ Second
  BY <1>1, EnvironmentInv
<1>2. CASE ata_identify \/ read_from_drive \/ write_to_drive
  BY <1>2, CallInv
<1>3. CASE Code
  BY <1>3, OtherInv, ReadInv DEF Code
<1>4. CASE UNCHANGED vars
  BY <1>4 DEF vars, Inv, TypeOK, TimeoutHolds, SectorPending, NotBusyWhenPolled, Due
<1> QED  BY <1>1, <1>2, <1>3, <1>4 DEF Next

\* The variables keep their types: no request moves more sectors than it was asked
\* for and no sector is polled more than trymax + 1 times.
THEOREM TypeCorrect == Spec => []TypeOK
<1>1. Inv => TypeOK
  BY DEF Inv
<1> QED  BY InitInv, NextInv, <1>1, PTL DEF Spec

\* poll_drive never reports success while the drive it last saw was busy.
THEOREM NotBusyWhenPolledAlways == Spec => []NotBusyWhenPolled
<1>1. Inv => NotBusyWhenPolled
  BY DEF Inv
<1> QED  BY InitInv, NextInv, <1>1, PTL DEF Spec

----------------------------------------------------------------------------
Transferring == pc \in {"wait_ready", "w_busy", "command", "w_sector", "r_sector", "poll",
                        "poll_end", "polled"}

\* The commands of a request lie in its buffer.
InBuffer ==
    /\ \A p \in data.moved : p[1] < request.sectors
    /\ pc = "chunks" => chunk <= request.sectors \div Chunk /\ request.kind # "identify"
    /\ pc \in {"identify", "i_busy", "i_status", "i_data"} => request.kind = "identify"
    /\ Transferring => /\ request.kind # "identify"
                       /\ j <= job.sectors
                       /\ job.sectors > 0 => job.at + job.sectors <= request.sectors

LEMMA Division ==
    ASSUME NEW n \in Nat, NEW c \in Nat \ {0}
    PROVE  /\ n \div c \in Nat /\ n % c \in 0..(c - 1)
           /\ c * (n \div c) + (n % c) = n
OBVIOUS

\* The rest of a request ends where the request ends, and the other commands move nothing.
LEMMA CommandFits ==
    ASSUME TypeOK, chunk <= request.sectors \div Chunk, Command(chunk).sectors > 0
    PROVE  Command(chunk).at + Command(chunk).sectors <= request.sectors
<1> DEFINE n == request.sectors
<1>1. n \in Nat /\ chunk \in Nat /\ Chunk \in Nat \ {0}
  BY AtaAssumption DEF TypeOK, Requests
<1>2. n \div Chunk \in Nat /\ Chunk * (n \div Chunk) + (n % Chunk) = n
  BY <1>1, Division
<1>3. ~(chunk < n \div Chunk)
  BY DEF Command
<1>4. chunk = n \div Chunk
  BY <1>1, <1>2, <1>3
<1>5. Command(chunk).at = chunk * Chunk /\ Command(chunk).sectors = n % Chunk
  BY <1>3 DEF Command
<1>6. chunk * Chunk = Chunk * chunk
  BY <1>1
<1>7. Command(chunk).at + Command(chunk).sectors = n
  BY <1>2, <1>4, <1>5, <1>6
<1> QED  BY <1>1, <1>7

LEMMA ReturnInBuffer ==
    ASSUME NEW code, TypeOK, InBuffer, Return(code)
    PROVE  InBuffer'
<1>1. UNCHANGED <<request, chunk, data>> /\ pc' = IF LastCommand THEN "idle" ELSE "chunks"
  BY DEF Return
<1>2. request.sectors \in Nat /\ chunk \in Nat /\ request.sectors \div Chunk \in Nat
  BY AtaAssumption, Division DEF TypeOK, Requests
<1>3. pc' = "chunks" => chunk <= request.sectors \div Chunk /\ request.kind # "identify"
  BY <1>1, <1>2 DEF LastCommand
<1> QED  BY <1>1, <1>3 DEF InBuffer, Transferring

LEMMA TransferInBuffer ==
    ASSUME TypeOK, InBuffer, Transfer, j < job.sectors, pc \in {"w_sector", "polled"},
           pc' \in {"w_sector", "r_sector"}, UNCHANGED <<request, chunk, job>>
    PROVE  InBuffer'
<1>1. Transferring /\ Transferring'
  BY DEF Transferring
<1>2. /\ j \in Nat /\ job.sectors \in Nat /\ job.at \in Nat /\ request.sectors \in Nat
      /\ j' = j + 1
  BY AtaAssumption DEF TypeOK, Requests, Commands, Transfer
<1>3. job.at + j < request.sectors
  BY <1>1, <1>2 DEF InBuffer
<1>4. \A p \in data'.moved : p \in data.moved \/ p[1] = job.at + j
  BY DEF Transfer
<1>5. \A p \in data'.moved : p[1] < request.sectors
  BY <1>3, <1>4 DEF InBuffer
<1> QED  BY <1>1, <1>2, <1>5 DEF InBuffer

\* A step that moves nothing.
LEMMA WaitInBuffer ==
    ASSUME InBuffer, UNCHANGED <<request, chunk, job, j, data>>,
           \/ Transferring /\ Transferring'
           \/ /\ pc \in {"identify", "i_busy", "i_status", "i_data"}
              /\ pc' \in {"i_busy", "i_status", "i_data"}
    PROVE  InBuffer'
BY DEF InBuffer, Transferring

LEMMA CodeInBuffer ==
    ASSUME Inv, InBuffer, Code
    PROVE  InBuffer'
<1>0. TypeOK /\ SectorPending
  BY DEF Inv
<1>1. CASE ata28
  <2>1. /\ job' = Command(chunk) /\ pc' = "wait_ready" /\ j' = 0 /\ UNCHANGED request
        /\ data'.moved = data.moved
        /\ chunk <= request.sectors \div Chunk /\ request.kind # "identify"
    BY <1>1 DEF ata28, Goto, InBuffer
  <2>2. job'.sectors \in Nat
    BY <1>0, <2>1, CommandType, AtaAssumption DEF Commands
  <2>3. job'.sectors > 0 => job'.at + job'.sectors <= request.sectors
    BY <1>0, <2>1, CommandFits
  <2> QED  BY <2>1, <2>2, <2>3 DEF InBuffer, Transferring
<1>2. CASE identify_status \/ poll_drive_i_busy \/ poll_drive_i_status \/ poll_drive_i_data
  <2>1. CASE \E code \in Codes : Return(code)
    BY <1>0, <2>1, ReturnInBuffer
  <2>2. CASE /\ pc' \in {"i_busy", "i_status", "i_data"}
             /\ UNCHANGED <<request, chunk, job, j, data>>
    BY <1>2, <2>2, WaitInBuffer DEF identify_status, poll_drive_i_busy, poll_drive_i_status,
                poll_drive_i_data
  <2> QED  BY <1>2, <2>1, <2>2 DEF identify_status, poll_drive_i_busy, poll_drive_i_status,
                poll_drive_i_data, Goto, Codes
<1>3. CASE wait_ready \/ command \/ poll_drive \/ poll_drive_end
  BY <1>3, WaitInBuffer DEF wait_ready, command, poll_drive, poll_drive_end, Goto, Transferring
<1>4. CASE write_busy
  <2>1. CASE UNCHANGED pc \/ Goto("command")
    BY <1>4, <2>1, WaitInBuffer DEF write_busy, Goto, Transferring
  <2>2. CASE ret' = "failed" /\ pc' = IF LastCommand THEN "idle" ELSE "chunks"
    <3>1. UNCHANGED <<request, chunk, data>> /\ request.kind # "identify"
      BY <1>4 DEF write_busy, InBuffer, Transferring
    <3>2. request.sectors \in Nat /\ chunk \in Nat /\ request.sectors \div Chunk \in Nat
      BY <1>0, AtaAssumption, Division DEF TypeOK, Requests
    <3>3. pc' = "chunks" => chunk <= request.sectors \div Chunk
      BY <2>2, <3>2 DEF LastCommand
    <3> QED  BY <2>2, <3>1, <3>3 DEF InBuffer, Transferring
  <2> QED  BY <1>4, <2>1, <2>2 DEF write_busy
<1>5. CASE write_sector
  <2>1. CASE Return("E_NO_ERR")
    BY <1>0, <2>1, ReturnInBuffer
  <2>2. CASE /\ j < job.sectors /\ Transfer
             /\ UNCHANGED <<status, left, pc, res, request, chunk, job, trycount, ret, irqs>>
    BY <1>0, <1>5, <2>2, TransferInBuffer DEF write_sector
  <2> QED  BY <1>5, <2>1, <2>2 DEF write_sector
<1>6. CASE read_sector
  <2>1. CASE Return("E_NO_ERR")
    BY <1>0, <2>1, ReturnInBuffer
  <2>2. CASE StartPoll /\ UNCHANGED <<status, request, chunk, job, j, ret, irqs, data>>
    BY <1>6, <2>2, WaitInBuffer DEF read_sector, StartPoll, Goto, Transferring
  <2> QED  BY <1>6, <2>1, <2>2 DEF read_sector
<1>7. CASE read_polled
  <2>1. pc = "polled" /\ Transferring /\ j < job.sectors
    BY <1>0, <1>7 DEF read_polled, Transferring, SectorPending
  <2>2. CASE Return("failed")
    BY <1>0, <2>2, ReturnInBuffer
  <2>3. CASE StartPoll /\ UNCHANGED <<status, request, chunk, job, j, ret, irqs, data>>
    BY <2>1, <2>3, WaitInBuffer DEF StartPoll, Goto, Transferring
  <2>4. CASE /\ Transfer /\ Goto("r_sector")
             /\ UNCHANGED <<status, left, res, request, chunk, job, trycount, ret, irqs>>
    BY <1>0, <2>1, <2>4, TransferInBuffer DEF Goto
  <2> QED  BY <1>7, <2>2, <2>3, <2>4 DEF read_polled
<1> QED  BY <1>1, <1>2, <1>3, <1>4, <1>5, <1>6, <1>7 DEF Code

LEMMA NextInBuffer == Inv /\ InBuffer /\ [Next]_vars => InBuffer'
<1> SUFFICES ASSUME Inv, InBuffer, [Next]_vars PROVE InBuffer'
  OBVIOUS
<1>1. CASE Drive \/ Second \/ UNCHANGED vars
  BY <1>1 DEF Drive, Second, vars, InBuffer, Transferring
<1>2. CASE ata_identify
  BY <1>2 DEF ata_identify, Goto, InBuffer, Transferring, NoData
<1>3. CASE read_from_drive \/ write_to_drive
  <2>1. /\ chunk' = 0 /\ data'.moved = {} /\ pc' \in {"idle", "chunks"}
        /\ request'.kind # "identify" /\ request'.sectors \in Nat
    BY <1>3, AtaAssumption DEF read_from_drive, write_to_drive, ata_read, ata_write, Call, Goto,
              NoData
  <2>2. request'.sectors \div Chunk \in Nat
    BY <2>1, AtaAssumption, Division
  <2> QED  BY <2>1, <2>2 DEF InBuffer, Transferring
<1>4. CASE Code
  BY <1>4, CodeInBuffer
<1> QED  BY <1>1, <1>2, <1>3, <1>4 DEF Next

\* A request of less than a chunk, inside the part of the disk that 24 bits reach.
Small == request.sectors < Chunk /\ request.start + request.sectors <= LbaMod

\* Each sector is one that was asked for, at its own place unless one before it was missed.
InPlace(d, s) ==
    \A p \in d.moved :
        /\ s <= p[2] /\ p[2] <= s + p[1]
        /\ (\A m \in d.missed : p[1] < m) => p[2] = s + p[1]

\* The first n places have been gone over.
Covered(d, n) == \A k \in 0..(n - 1) : k \in d.missed \/ \E p \in d.moved : p[1] = k

\* After n places of a command: none behind them, and the drive has fallen back as many
\* sectors as it missed.
UpTo(d, n) ==
    /\ \A m \in d.missed : m < n
    /\ d.served <= n
    /\ d.missed = {} => d.served = n
    /\ Covered(d, n)

\* A small request is one command.
OneCommand ==
    Small =>
        /\ InPlace(data, request.start)
        /\ pc = "chunks" => chunk = 0 /\ data.moved = {} /\ data.missed = {}
        /\ request.kind = "identify" => request.sectors = 0
        /\ Transferring =>
             /\ chunk = 1
             /\ job.sectors = request.sectors /\ job.at = 0
             /\ request.sectors > 0 => job.start = request.start
             /\ UpTo(data, j)
        /\ pc = "idle" /\ ret = "E_NO_ERR" => Covered(data, request.sectors)

LEMMA SmallDivision ==
    ASSUME NEW n \in Nat, NEW c \in Nat \ {0}, n < c
    PROVE  n \div c = 0 /\ n % c = n
OBVIOUS

\* The only command of a small request asks for what the request asks for.
LEMMA SmallCommand ==
    ASSUME TypeOK, Small, chunk = 0
    PROVE  /\ Command(chunk).sectors = request.sectors
           /\ Command(chunk).at = 0
           /\ request.sectors > 0 => Command(chunk).start = request.start
<1> DEFINE n == request.sectors
<1>1. n \in Nat /\ request.start \in Nat
  BY AtaAssumption DEF TypeOK, Requests
<1>2. n \div Chunk = 0 /\ n % Chunk = n
  BY <1>1, AtaAssumption, SmallDivision DEF Small
<1>3. Command(chunk) = [sectors |-> n, start |-> (request.start + (0 * Chunk) \div 2) % LbaMod,
                        at |-> 0 * Chunk]
  BY <1>1, <1>2 DEF Command
<1>4. 0 * Chunk = 0 /\ 0 \div 2 = 0
  BY AtaAssumption
<1>5. n > 0 => request.start % LbaMod = request.start
  BY <1>1, AtaAssumption, SmallDivision DEF Small
<1> QED  BY <1>1, <1>3, <1>4, <1>5

\* A small request has no second command.
LEMMA SmallIsLast ==
    ASSUME TypeOK, OneCommand, Small, Transferring \/ request.kind = "identify"
    PROVE  LastCommand
<1>1. request.sectors \div Chunk = 0
  BY AtaAssumption, SmallDivision DEF TypeOK, Requests, Small
<1> QED  BY <1>1 DEF OneCommand, LastCommand

\* A command may end when it failed or when it has gone over all its places.
LEMMA ReturnOneCommand ==
    ASSUME NEW code, TypeOK, InBuffer, OneCommand, UNCHANGED <<request, chunk, data>>,
           ret' = code, pc' = IF LastCommand THEN "idle" ELSE "chunks",
           \/ request.kind = "identify"
           \/ Transferring /\ (code # "E_NO_ERR" \/ j = job.sectors)
    PROVE  OneCommand'
<1> SUFFICES ASSUME Small
             PROVE  OneCommand'
  BY DEF OneCommand, Small
<1>1. pc' = "idle"
  BY SmallIsLast
<1>2. InPlace(data', request'.start)
  BY DEF OneCommand
<1>3. request.kind = "identify" => Covered(data, request.sectors)
  BY DEF OneCommand, Covered
<1>4. Transferring /\ j = job.sectors => Covered(data, request.sectors)
  BY DEF OneCommand, UpTo
<1>5. code = "E_NO_ERR" => Covered(data', request'.sectors)
  BY <1>3, <1>4
<1>6. request'.kind = "identify" => request'.sectors = 0
  BY DEF OneCommand
<1> QED  BY <1>1, <1>2, <1>5, <1>6 DEF OneCommand, Transferring

\* One more place is gone over.
LEMMA TransferUpTo ==
    ASSUME NEW d \in [moved : SUBSET (Nat \X Nat), missed : SUBSET Nat, served : Nat],
           NEW n \in Nat, NEW s \in Nat, NEW ready \in BOOLEAN,
           UpTo(d, n), InPlace(d, s), NEW e,
           e = [moved  |-> d.moved \cup (IF ready THEN {<<n, s + d.served>>} ELSE {}),
                missed |-> d.missed \cup (IF ready THEN {} ELSE {n}),
                served |-> d.served + (IF ready THEN 1 ELSE 0)]
    PROVE  UpTo(e, n + 1) /\ InPlace(e, s)
<1>1. d.served \in Nat /\ d.served <= n /\ (d.missed = {} => d.served = n)
      /\ (\A m \in d.missed : m \in Nat /\ m < n) /\ Covered(d, n)
      /\ \A p \in d.moved : p[1] \in Nat /\ p[2] \in Nat
  BY DEF UpTo
<1>2. CASE ready
  <2>1. /\ e.moved = d.moved \cup {<<n, s + d.served>>} /\ e.missed = d.missed
        /\ e.served = d.served + 1
    BY <1>1, <1>2
  <2>2. \A k \in 0..(n + 1 - 1) : k \in 0..(n - 1) \/ k = n
    OBVIOUS
  <2>3. <<n, s + d.served>> \in e.moved /\ <<n, s + d.served>>[1] = n
    BY <2>1
  <2>4. Covered(e, n + 1)
    BY <1>1, <2>1, <2>2, <2>3 DEF Covered
  <2>5. UpTo(e, n + 1)
    BY <1>1, <2>1, <2>4 DEF UpTo
  <2>6. (\A m \in d.missed : n < m) => d.missed = {}
    BY <1>1
  <2>7. ASSUME NEW p \in e.moved
        PROVE  /\ s <= p[2] /\ p[2] <= s + p[1]
               /\ (\A m \in e.missed : p[1] < m) => p[2] = s + p[1]
    <3>1. CASE p \in d.moved
      BY <2>1, <3>1 DEF InPlace
    <3>2. CASE p = <<n, s + d.served>>
      BY <1>1, <2>1, <2>6, <3>2
    <3> QED  BY <2>1, <3>1, <3>2
  <2> QED  BY <2>5, <2>7 DEF InPlace
<1>3. CASE ~ready
  <2>1. e.moved = d.moved /\ e.missed = d.missed \cup {n} /\ e.served = d.served
    BY <1>1, <1>3
  <2>2. \A k \in 0..(n + 1 - 1) : k \in 0..(n - 1) \/ k = n
    OBVIOUS
  <2>3. Covered(e, n + 1)
    BY <1>1, <2>1, <2>2 DEF Covered
  <2>4. UpTo(e, n + 1)
    BY <1>1, <2>1, <2>3 DEF UpTo
  <2>5. InPlace(e, s)
    BY <2>1 DEF InPlace
  <2> QED  BY <2>4, <2>5
<1> QED  BY <1>2, <1>3

LEMMA TransferOneCommand ==
    ASSUME TypeOK, OneCommand, Transfer, j < job.sectors, pc \in {"w_sector", "polled"},
           pc' \in {"w_sector", "r_sector"}, UNCHANGED <<request, chunk, job>>
    PROVE  OneCommand'
<1> SUFFICES ASSUME Small
             PROVE  OneCommand'
  BY DEF OneCommand, Small
<1>1. /\ j \in Nat /\ request.start \in Nat /\ request.sectors \in Nat /\ job.sectors \in Nat
      /\ data \in [moved : SUBSET (Nat \X Nat), missed : SUBSET Nat, served : Nat]
  BY AtaAssumption DEF TypeOK, Requests, Commands
<1>2. Transferring /\ Transferring'
  BY DEF Transferring
<1>3. /\ chunk = 1 /\ job.sectors = request.sectors /\ job.at = 0
      /\ job.start = request.start
      /\ UpTo(data, j) /\ InPlace(data, request.start)
      /\ request.kind = "identify" => request.sectors = 0
  BY <1>1, <1>2 DEF OneCommand
<1> DEFINE ready == status.drq /\ ~status.bsy
<1>4. /\ j' = j + 1 /\ ready \in BOOLEAN
      /\ data' = [moved  |-> data.moved \cup (IF ready THEN {<<j, request.start + data.served>>}
                                              ELSE {}),
                  missed |-> data.missed \cup (IF ready THEN {} ELSE {j}),
                  served |-> data.served + (IF ready THEN 1 ELSE 0)]
  BY <1>1, <1>3 DEF Transfer
<1> HIDE DEF ready
<1>5. UpTo(data', j + 1) /\ InPlace(data', request.start)
  BY <1>1, <1>3, <1>4, TransferUpTo
<1> QED  BY <1>2, <1>3, <1>4, <1>5 DEF OneCommand

\* A step between two transfers.
LEMMA WaitOneCommand ==
    ASSUME OneCommand, UNCHANGED <<request, chunk, job, j, data>>,
           \/ Transferring /\ Transferring'
           \/ pc' \in {"i_busy", "i_status", "i_data"}
    PROVE  OneCommand'
BY DEF OneCommand, Small, Transferring

LEMMA CodeOneCommand ==
    ASSUME Inv, InBuffer, OneCommand, Code
    PROVE  OneCommand'
<1>0. TypeOK /\ SectorPending
  BY DEF Inv
<1>1. CASE ata28
  <2> SUFFICES ASSUME Small
               PROVE  OneCommand'
    BY <1>1 DEF OneCommand, Small, ata28
  <2>1. /\ chunk = 0 /\ data.moved = {} /\ data.missed = {}
        /\ request.kind = "identify" => request.sectors = 0
    BY <1>1 DEF OneCommand, ata28
  <2>2. request.start \in Nat /\ request.sectors \in Nat
    BY <1>0, AtaAssumption DEF TypeOK, Requests
  <2>3. /\ job'.sectors = request.sectors /\ job'.at = 0
        /\ request.sectors > 0 => job'.start = request.start
    BY <1>0, <1>1, <2>1, SmallCommand DEF ata28
  <2>4. /\ UNCHANGED request /\ chunk' = 1 /\ j' = 0 /\ pc' = "wait_ready"
        /\ data'.moved = {} /\ data'.missed = {} /\ data'.served = 0
    BY <1>1, <2>1 DEF ata28, Goto
  <2>5. UpTo(data', 0) /\ InPlace(data', request.start)
    BY <2>4 DEF UpTo, Covered, InPlace
  <2> QED  BY <2>1, <2>3, <2>4, <2>5 DEF OneCommand, Transferring
<1>2. CASE identify_status \/ poll_drive_i_busy \/ poll_drive_i_status \/ poll_drive_i_data
  <2>1. pc \in {"identify", "i_busy", "i_status", "i_data"} /\ request.kind = "identify"
    BY <1>2 DEF InBuffer, identify_status, poll_drive_i_busy, poll_drive_i_status,
                poll_drive_i_data
  <2>2. CASE \E code \in Codes : Return(code)
    BY <1>0, <2>1, <2>2, ReturnOneCommand DEF Return
  <2>3. CASE /\ pc' \in {"i_busy", "i_status", "i_data"}
             /\ UNCHANGED <<request, chunk, job, j, data>>
    BY <2>3, WaitOneCommand
  <2> QED  BY <1>2, <2>2, <2>3 DEF identify_status, poll_drive_i_busy, poll_drive_i_status,
                poll_drive_i_data, Goto, Codes
<1>3. CASE wait_ready \/ command \/ poll_drive \/ poll_drive_end
  BY <1>3, WaitOneCommand DEF wait_ready, command, poll_drive, poll_drive_end, Goto, Transferring
<1>4. CASE write_busy
  <2>1. CASE UNCHANGED pc \/ Goto("command")
    BY <1>4, <2>1, WaitOneCommand DEF write_busy, Goto, Transferring
  <2>2. CASE ret' = "failed" /\ pc' = IF LastCommand THEN "idle" ELSE "chunks"
    BY <1>0, <1>4, <2>2, ReturnOneCommand DEF write_busy, Transferring
  <2> QED  BY <1>4, <2>1, <2>2 DEF write_busy
<1>5. CASE write_sector
  <2>1. pc = "w_sector" /\ Transferring
    BY <1>5 DEF write_sector, Transferring
  <2>2. CASE j = job.sectors /\ Return("E_NO_ERR")
    BY <1>0, <2>1, <2>2, ReturnOneCommand DEF Return
  <2>3. CASE /\ j < job.sectors /\ Transfer
             /\ UNCHANGED <<status, left, pc, res, request, chunk, job, trycount, ret, irqs>>
    BY <1>0, <2>1, <2>3, TransferOneCommand
  <2> QED  BY <1>5, <2>2, <2>3 DEF write_sector
<1>6. CASE read_sector
  <2>1. pc = "r_sector" /\ Transferring
    BY <1>6 DEF read_sector, Transferring
  <2>2. CASE j = job.sectors /\ Return("E_NO_ERR")
    BY <1>0, <2>1, <2>2, ReturnOneCommand DEF Return
  <2>3. CASE StartPoll /\ UNCHANGED <<status, request, chunk, job, j, ret, irqs, data>>
    BY <2>1, <2>3, WaitOneCommand DEF StartPoll, Goto, Transferring
  <2> QED  BY <1>6, <2>2, <2>3 DEF read_sector
<1>7. CASE read_polled
  <2>1. pc = "polled" /\ Transferring /\ j < job.sectors
    BY <1>0, <1>7 DEF read_polled, Transferring, SectorPending
  <2>2. CASE Return("failed")
    BY <1>0, <2>1, <2>2, ReturnOneCommand DEF Return
  <2>3. CASE StartPoll /\ UNCHANGED <<status, request, chunk, job, j, ret, irqs, data>>
    BY <2>1, <2>3, WaitOneCommand DEF StartPoll, Goto, Transferring
  <2>4. CASE /\ Transfer /\ Goto("r_sector")
             /\ UNCHANGED <<status, left, res, request, chunk, job, trycount, ret, irqs>>
    BY <1>0, <2>1, <2>4, TransferOneCommand DEF Goto
  <2> QED  BY <1>7, <2>2, <2>3, <2>4 DEF read_polled
<1> QED  BY <1>1, <1>2, <1>3, <1>4, <1>5, <1>6, <1>7 DEF Code

LEMMA NextOneCommand == Inv /\ InBuffer /\ OneCommand /\ [Next]_vars => OneCommand'
<1> SUFFICES ASSUME Inv, InBuffer, OneCommand, [Next]_vars PROVE OneCommand'
  OBVIOUS
<1>1. CASE Drive \/ Second \/ UNCHANGED vars
  BY <1>1 DEF Drive, Second, vars, OneCommand, Small, Transferring
<1>2. CASE ata_identify
  BY <1>2 DEF ata_identify, Goto, OneCommand, Small, Transferring, NoData, InPlace
<1>3. CASE read_from_drive \/ write_to_drive
  <2>1. /\ chunk' = 0 /\ data'.moved = {} /\ data'.missed = {} /\ request'.kind # "identify"
        /\ pc' = "chunks" \/ (pc' = "idle" /\ ret' # "E_NO_ERR")
    BY <1>3 DEF read_from_drive, write_to_drive, ata_read, ata_write, Call, Goto, NoData
  <2> QED  BY <2>1 DEF OneCommand, Transferring, InPlace
<1>4. CASE Code
  BY <1>4, CodeOneCommand
<1> QED  BY <1>1, <1>2, <1>3, <1>4 DEF Next

\* No request of ata_read or ata_write goes beyond its buffer.  One of less than a chunk
\* moves only sectors it was asked for, each to its own place as long as the drive had
\* data whenever ata28_read or ata28_write took it, however the drive answers and how
\* often it is polled; and when it reports no error it has gone over all its places.
THEOREM AskedSectorsAlways == Spec => []AskedSectors
<1>1. Init => InBuffer /\ OneCommand
  BY DEF Init, InBuffer, OneCommand, Small, Transferring, NoData, InPlace, Covered
<1>2. Inv /\ InBuffer /\ OneCommand => AskedSectors
  BY DEF InBuffer, OneCommand, AskedSectors, Small, InPlace, Covered
<1>3. Init => Inv
  BY InitInv
<1>4. (Inv /\ InBuffer /\ OneCommand) /\ [Next]_vars => (Inv /\ InBuffer /\ OneCommand)'
  BY NextInv, NextInBuffer, NextOneCommand
<1> QED  BY <1>1, <1>2, <1>3, <1>4, PTL DEF Spec

----------------------------------------------------------------------------
(***************************************************************************)
(* The chains of clusters of a FAT32 volume, for every content of memory,  *)
(* every hint and every number of clusters.                                *)
(***************************************************************************)
\* Only numbers are needed of the filesystem's fields.
FatOK(f) ==
    /\ f = [links |-> f.links,
            cached_clusters_start |-> f.cached_clusters_start,
            cached_clusters_size |-> f.cached_clusters_size,
            last_free_cluster |-> f.last_free_cluster, astray |-> f.astray]
    /\ f.links \in [Words -> 0..Top]
    /\ f.cached_clusters_start \in Nat /\ f.cached_clusters_size \in Nat
    /\ f.last_free_cluster \in 0..Top
    /\ f.astray \in BOOLEAN

\* The clusters a call may come to.
CallOK ==
    /\ call = [op |-> call.op, file |-> call.file, cluster |-> call.cluster,
               left |-> call.left, i |-> call.i]
    /\ call.op # "none" => call.cluster \in 0..Top
    /\ call.op = "search" => call.i \in Nat
    /\ call.op = "read" => call.file \in Handles

FilesInv ==
    /\ FatOK(fat) /\ CallOK
    /\ root_file \in 0..Top
    /\ files \in [Handles -> 0..Closed]

LEMMA InWords ==
    ASSUME NEW c \in Nat, NEW s \in Nat
    PROVE  (c - Shift(s)) % MemoryWords \in Words
<1>1. MemoryWords \in Nat \ {0} /\ ClustersPerShift \in Nat \ {0}
  BY FilesAssumption
<1>2. Shift(s) \in Nat
  BY <1>1 DEF Shift
<1>3. c - Shift(s) \in Int
  BY <1>2
<1> QED  BY <1>1, <1>3 DEF Words

\* Looking a cluster up changes no link, and is astray unless its own word is used.
LEMMA Cached ==
    ASSUME NEW f, FatOK(f), NEW c \in Nat, NEW g, g = cache_fat32(f, c)
    PROVE  /\ FatOK(g) /\ g.links = f.links /\ g.last_free_cluster = f.last_free_cluster
           /\ Index(g, c) \in Words /\ LinkWord(c) \in Words
           /\ f.astray => g.astray
           /\ ~g.astray => Index(g, c) = LinkWord(c)
<1>1. g.cached_clusters_start \in Nat
  BY DEF cache_fat32, FatOK
<1>2. Index(g, c) \in Words /\ LinkWord(c) \in Words
  BY <1>1, InWords DEF Index, LinkWord
<1>3. /\ g.links = f.links /\ g.last_free_cluster = f.last_free_cluster
      /\ g.cached_clusters_size = f.cached_clusters_size
      /\ g.astray = (f.astray \/ (c - Shift(g.cached_clusters_start)) % MemoryWords # LinkWord(c))
  BY DEF cache_fat32
<1>4. g = [links |-> g.links,
            cached_clusters_start |-> g.cached_clusters_start,
            cached_clusters_size |-> g.cached_clusters_size,
            last_free_cluster |-> g.last_free_cluster, astray |-> g.astray]
  BY DEF cache_fat32
<1>5. FatOK(g)
  BY <1>1, <1>3, <1>4 DEF FatOK
<1> QED  BY <1>2, <1>3, <1>5 DEF Index

LEMMA Got ==
    ASSUME NEW f, FatOK(f), NEW c \in Nat
    PROVE  /\ FatOK(get_next_cluster32(c, f).fat)
           /\ get_next_cluster32(c, f).fat.links = f.links
           /\ get_next_cluster32(c, f).next \in 0..Top
<1> DEFINE g == cache_fat32(f, c)
<1>1. FatOK(g) /\ g.links = f.links /\ Index(g, c) \in Words
  BY Cached
<1> HIDE DEF g
<1>2. g.links[Index(g, c)] \in 0..Top
  BY <1>1 DEF FatOK
<1>3. get_next_cluster32(c, f) = [next |-> g.links[Index(g, c)], fat |-> g]
  BY DEF get_next_cluster32, g
<1> QED  BY <1>1, <1>2, <1>3

\* The links m are the links l but for the word w.
Written(l, m, w, x) == m = [l EXCEPT ![w] = x]

\* What set_next_cluster32 writes.
LEMMA Set ==
    ASSUME NEW f, FatOK(f), NEW c \in Nat, NEW n \in 0..Top, NEW h,
           h = set_next_cluster32(c, n, f)
    PROVE  /\ FatOK(h)
           /\ \E w \in Words : /\ Written(f.links, h.links, w, IF c = n THEN Top ELSE n)
                               /\ ~h.astray => w = LinkWord(c)
<1> DEFINE g == cache_fat32(f, c)
           w == Index(g, c)
<1>1. /\ FatOK(g) /\ g.links = f.links /\ w \in Words
      /\ f.astray => g.astray
      /\ ~g.astray => w = LinkWord(c)
  BY Cached
<1>2. h = [g EXCEPT !.links[w] = IF c = n THEN Top ELSE n]
  BY DEF set_next_cluster32
<1> HIDE DEF g, w
<1>3. DOMAIN g = {"links", "cached_clusters_start", "cached_clusters_size",
                  "last_free_cluster", "astray"}
  BY <1>1 DEF FatOK
<1>4. /\ h.links = [g.links EXCEPT ![w] = IF c = n THEN Top ELSE n]
      /\ h.cached_clusters_start = g.cached_clusters_start
      /\ h.cached_clusters_size = g.cached_clusters_size
      /\ h.last_free_cluster = g.last_free_cluster /\ h.astray = g.astray
      /\ h = [links |-> h.links,
              cached_clusters_start |-> h.cached_clusters_start,
              cached_clusters_size |-> h.cached_clusters_size,
              last_free_cluster |-> h.last_free_cluster, astray |-> h.astray]
  BY <1>2, <1>3
<1>5. h.links \in [Words -> 0..Top]
  BY <1>1, <1>4, FilesAssumption DEF FatOK
<1>6. FatOK(h)
  BY <1>1, <1>4, <1>5 DEF FatOK
<1>7. Written(f.links, h.links, w, IF c = n THEN Top ELSE n)
  BY <1>1, <1>4 DEF Written
<1>8. w \in Words /\ (~h.astray => w = LinkWord(c))
  BY <1>1, <1>4
<1> QED  BY <1>6, <1>7, <1>8

\* The two writes of an extension leave a chain that ends one that ends: whichever word
\* was led to k, the word of k itself ends its chain.
LEMMA NoCatch ==
    ASSUME NEW f, NEW h, NEW v \in Words, NEW k \in 0..Top, NEW x,
           f.links \in [Words -> 0..Top], x \in {k, Top},
           h.links = [[f.links EXCEPT ![v] = x] EXCEPT ![LinkWord(k)] = Top],
           NEW c, Ends(f, c)
    PROVE  Ends(h, c)
<1> SUFFICES ASSUME ~(c >= EndOfChain),
                    NEW S \in SUBSET Words, LinkWord(c) \in S,
                    \A w \in S : h.links[w] < EndOfChain /\ LinkWord(h.links[w]) \in S
             PROVE  FALSE
  BY DEF Ends
<1>1. Top >= EndOfChain /\ LinkWord(k) \in Words
  BY FilesAssumption, InWords DEF LinkWord
<1>2. LinkWord(k) \notin S
  <2>1. h.links[LinkWord(k)] = Top
    BY <1>1
  <2> QED  BY <1>1, <2>1, FilesAssumption
<1>3. v \notin S
  <2> SUFFICES ASSUME v \in S PROVE FALSE
    OBVIOUS
  <2>1. h.links[v] = x
    BY <1>1, <1>2
  <2>2. x < EndOfChain /\ LinkWord(x) \in S
    BY <2>1
  <2> QED  BY <1>1, <1>2, <2>2, FilesAssumption
<1>4. \A w \in S : h.links[w] = f.links[w]
  BY <1>1, <1>2, <1>3
<1>5. \A w \in S : f.links[w] < EndOfChain /\ LinkWord(f.links[w]) \in S
  BY <1>4
<1> QED  BY <1>5 DEF Ends

LEMMA ExtendStep ==
    ASSUME NEW f, FatOK(f), NEW k \in Nat, k \in 0..Top, FilesInv, call.op = "search", Extend(f, k)
    PROVE  /\ FatOK(fat')
           /\ ~fat'.astray => \A c \in 0..Top : Ends(f, c) => Ends(fat', c)
           /\ call' = [op |-> "write", file |-> call.file, cluster |-> k,
                       left |-> call.left - 1, i |-> 0]
<1> DEFINE e == [f EXCEPT !.last_free_cluster = k]
           g == set_next_cluster32(call.cluster, k, e)
<1>0. e = [links |-> f.links, cached_clusters_start |-> f.cached_clusters_start,
           cached_clusters_size |-> f.cached_clusters_size,
           last_free_cluster |-> k, astray |-> f.astray]
  BY DEF FatOK
<1>1. e.links = f.links /\ FatOK(e)
  <2> HIDE DEF e
  <2> QED  BY <1>0 DEF FatOK
<1>2. call.cluster \in Nat /\ call.cluster \in 0..Top /\ Top \in 0..Top
  BY FilesAssumption DEF FilesInv, CallOK
<1>3. fat' = set_next_cluster32(k, Top, g)
  BY DEF Extend, e, g
<1> HIDE DEF e
<1>4. PICK v \in Words :
         FatOK(g) /\ Written(e.links, g.links, v, IF call.cluster = k THEN Top ELSE k)
  BY <1>1, <1>2, Set
<1> HIDE DEF g
<1>5. FatOK(fat') /\ \E w \in Words : /\ Written(g.links, fat'.links, w, IF k = Top THEN Top ELSE Top)
                                      /\ ~fat'.astray => w = LinkWord(k)
  BY <1>2, <1>3, <1>4, Set
<1>6. ASSUME ~fat'.astray, NEW c \in 0..Top, Ends(f, c)
      PROVE  Ends(fat', c)
  <2>1. g.links = [e.links EXCEPT ![v] = IF call.cluster = k THEN Top ELSE k]
    BY <1>4 DEF Written
  <2>2. fat'.links = [g.links EXCEPT ![LinkWord(k)] = Top]
    BY <1>5, <1>6 DEF Written
  <2> DEFINE x == IF call.cluster = k THEN Top ELSE k
  <2>3. x \in {k, Top}
    OBVIOUS
  <2>4. fat'.links = [[f.links EXCEPT ![v] = x] EXCEPT ![LinkWord(k)] = Top]
    BY <1>1, <2>1, <2>2
  <2> HIDE DEF x
  <2>5. f.links \in [Words -> 0..Top]
    BY DEF FatOK
  <2> QED  BY <1>6, <2>3, <2>4, <2>5, NoCatch
<1>7. call' = [op |-> "write", file |-> call.file, cluster |-> k,
               left |-> call.left - 1, i |-> 0]
  BY DEF Extend, FilesInv, CallOK
<1> QED  BY <1>5, <1>6, <1>7

\* What a step may do to the links.
Kept == ~fat'.astray => \A c \in 0..Top : Ends(fat, c) => Ends(fat', c)

LEMMA SameLinks ==
    ASSUME fat'.links = fat.links
    PROVE  Kept
BY DEF Kept, Ends

LEMMA FilesStep ==
    ASSUME FilesInv, FilesNext
    PROVE  FilesInv' /\ Kept
<1>0. FatOK(fat) /\ CallOK /\ Top \in Nat /\ root_dir_cluster \in 0..Top
  BY FilesAssumption DEF FilesInv
<1>1. CASE fopen_root
  BY <1>0, <1>1, SameLinks DEF fopen_root, FilesInv, FatOK, CallOK, Closed
<1>2. CASE fopen_name
  BY <1>0, <1>2, SameLinks DEF fopen_name, Begin, FilesInv, FatOK, CallOK
<1>3. CASE fread
  <2>1. PICK h \in Handles, n \in 0..MaxRead :
           files[h] # Closed /\ Begin("read", h, files[h], (n + 1) * sectors_per_cluster)
    BY <1>3 DEF fread
  <2>2. files[h] \in 0..Top
    BY <1>0, <2>1 DEF FilesInv, Closed
  <2>3. CallOK'
    BY <2>1, <2>2 DEF Begin, CallOK
  <2>4. UNCHANGED <<fat, sectors_per_cluster, root_file, files>>
    BY <1>3 DEF fread
  <2> QED  BY <1>0, <2>3, <2>4, SameLinks DEF FilesInv, FatOK
<1>4. CASE fwrite
  <2>1. CallOK'
    BY <1>0, <1>4 DEF fwrite, Begin, CallOK
  <2>2. UNCHANGED <<fat, sectors_per_cluster, root_file, files>>
    BY <1>4 DEF fwrite
  <2> QED  BY <1>0, <2>1, <2>2, SameLinks DEF FilesInv, FatOK
<1>5. CASE sys_close
  BY <1>0, <1>5, SameLinks DEF sys_close, FilesInv, FatOK, CallOK, Closed
<1>6. CASE fat32_read
  <2> DEFINE r == get_next_cluster32(call.cluster, fat)
  <2>1. call.op \in {"open", "read"} /\ call.cluster \in 0..Top /\ call.cluster \in Nat
    BY <1>0, <1>6 DEF fat32_read, CallOK
  <2>2. FatOK(r.fat) /\ r.fat.links = fat.links /\ r.next \in 0..Top
    BY <1>0, <2>1, Got
  <2>3. /\ call' = [call EXCEPT !.cluster = r.next, !.left = @ \div sectors_per_cluster]
        /\ fat' = r.fat /\ UNCHANGED <<root_file, files>>
    BY <1>6 DEF fat32_read
  <2> HIDE DEF r
  <2>4. call' = [op |-> call.op, file |-> call.file, cluster |-> r.next,
                 left |-> call.left \div sectors_per_cluster, i |-> call.i]
    BY <1>0, <2>3 DEF CallOK
  <2>5. CallOK'
    BY <1>0, <2>1, <2>2, <2>4 DEF CallOK
  <2> QED  BY <2>2, <2>3, <2>5, SameLinks DEF FilesInv
<1>7. CASE fat32_read_end
  <2>1. call.cluster \in 0..Top /\ (call.op = "read" => call.file \in Handles)
    BY <1>0, <1>7 DEF fat32_read_end, CallOK
  <2>2. fat' = fat /\ root_file' \in 0..Top
    BY <1>7, <2>1 DEF fat32_read_end, FilesInv
  <2>3. files' \in [Handles -> 0..Closed]
    BY <1>0, <1>7, <2>1 DEF fat32_read_end, FilesInv, Closed
  <2>4. CallOK'
    BY <1>0, <1>7 DEF fat32_read_end, CallOK, Idle
  <2> QED  BY <1>0, <2>2, <2>3, <2>4, SameLinks DEF FilesInv, FatOK
<1>8. CASE count_entries
  <2>1. CallOK'
    BY <1>0, <1>8 DEF count_entries, CallOK, Idle
  <2> QED  BY <1>0, <1>8, <2>1, SameLinks DEF count_entries, FilesInv, FatOK
<1>9. CASE fat32_write
  <2> DEFINE r == get_next_cluster32(call.cluster, fat)
             from == IF fat.last_free_cluster = Top THEN 0 ELSE fat.last_free_cluster
  <2>1. call.op = "write" /\ call.cluster \in 0..Top /\ call.cluster \in Nat
    BY <1>0, <1>9 DEF fat32_write, CallOK
  <2>2. FatOK(r.fat) /\ r.fat.links = fat.links /\ r.next \in 0..Top
    BY <1>0, <2>1, Got
  <2>3. /\ call' = IF r.next < EndOfChain
                   THEN [call EXCEPT !.cluster = r.next, !.left = @ - 1]
                   ELSE [call EXCEPT !.op = "search", !.i = from]
        /\ fat' = r.fat /\ UNCHANGED <<root_file, files>>
    BY <1>9 DEF fat32_write
  <2>4. from \in Nat
    BY <1>0 DEF FatOK
  <2> HIDE DEF r, from
  <2>5. \/ call' = [op |-> "write", file |-> call.file, cluster |-> r.next,
                    left |-> call.left - 1, i |-> call.i]
        \/ call' = [op |-> "search", file |-> call.file, cluster |-> call.cluster,
                    left |-> call.left, i |-> from]
    BY <1>0, <2>1, <2>3 DEF CallOK
  <2>6. CallOK'
    BY <2>1, <2>2, <2>4, <2>5 DEF CallOK
  <2> QED  BY <2>2, <2>3, <2>6, SameLinks DEF FilesInv
<1>10. CASE fat32_find_free_cluster
  <2> DEFINE r == get_next_cluster32(call.i, fat)
  <2>1. call.op = "search" /\ call.i \in Nat /\ call.cluster \in 0..Top
    BY <1>0, <1>10 DEF fat32_find_free_cluster, CallOK
  <2>2. FatOK(r.fat) /\ r.fat.links = fat.links
    BY <1>0, <2>1, Got
  <2>3. UNCHANGED <<root_file, files>>
    BY <1>10 DEF fat32_find_free_cluster
  <2>4. \/ call.i < total_clusters /\ Extend(r.fat, call.i)
        \/ call' = [call EXCEPT !.i = @ + 1] /\ fat' = r.fat
        \/ Extend(fat, fat.last_free_cluster)
    BY <1>10 DEF fat32_find_free_cluster
  <2> HIDE DEF r
  <2>5. ASSUME NEW f, FatOK(f), f.links = fat.links, NEW k \in 0..Top, Extend(f, k)
        PROVE  FilesInv' /\ Kept
    <3>1. /\ FatOK(fat')
          /\ ~fat'.astray => \A c \in 0..Top : Ends(f, c) => Ends(fat', c)
          /\ call' = [op |-> "write", file |-> call.file, cluster |-> k,
                      left |-> call.left - 1, i |-> 0]
      BY <2>1, <2>5, <1>0, ExtendStep
    <3>2. \A c : Ends(f, c) <=> Ends(fat, c)
      BY <2>5 DEF Ends
    <3>3. CallOK'
      BY <3>1, <2>5 DEF CallOK
    <3> QED  BY <2>3, <3>1, <3>2, <3>3 DEF FilesInv, Kept
  <2>6. CASE call.i < total_clusters /\ Extend(r.fat, call.i)
    <3>1. call.i \in 0..Top
      BY <2>1, <2>6, FilesAssumption
    <3> QED  BY <2>2, <2>5, <2>6, <3>1
  <2>7. CASE Extend(fat, fat.last_free_cluster)
    <3>1. fat.last_free_cluster \in 0..Top
      BY <1>0 DEF FatOK
    <3> QED  BY <1>0, <2>5, <2>7, <3>1
  <2>8. CASE call' = [call EXCEPT !.i = @ + 1] /\ fat' = r.fat
    <3>0. call = [op |-> "search", file |-> call.file, cluster |-> call.cluster,
                  left |-> call.left, i |-> call.i]
      BY <1>0, <2>1 DEF CallOK
    <3>1. call' = [op |-> "search", file |-> call.file, cluster |-> call.cluster,
                   left |-> call.left, i |-> call.i + 1]
      BY <3>0, <2>8
    <3>2. CallOK'
      BY <2>1, <3>1 DEF CallOK
    <3> QED  BY <2>2, <2>3, <2>8, <3>2, SameLinks DEF FilesInv
  <2> QED  BY <2>4, <2>6, <2>7, <2>8
<1>11. CASE fat32_write_end
  <2>1. CallOK'
    BY <1>11 DEF fat32_write_end, CallOK, Idle
  <2> QED  BY <1>0, <1>11, <2>1, SameLinks DEF fat32_write_end, FilesInv, FatOK
<1> QED  BY <1>1, <1>2, <1>3, <1>4, <1>5, <1>6, <1>7, <1>8, <1>9, <1>10, <1>11
         DEF FilesNext, Loops

LEMMA FilesStart == FilesInit => FilesInv
<1> SUFFICES ASSUME FilesInit PROVE FilesInv
  OBVIOUS
<1>1. FatOK(fat)
  <2>1. PICK words \in [Words -> Leftovers], start \in Leftovers, size \in Leftovers,
             hint \in 0..Top :
           fat = [links |-> words,
                  cached_clusters_start |-> start, cached_clusters_size |-> size,
                  last_free_cluster |-> hint, astray |-> FALSE]
    BY DEF FilesInit
  <2>2. words \in [Words -> 0..Top]
    BY FilesAssumption
  <2>3. start \in Nat /\ size \in Nat
    BY FilesAssumption
  <2>4. /\ fat.links = words /\ fat.cached_clusters_start = start
        /\ fat.cached_clusters_size = size
        /\ fat.last_free_cluster = hint /\ fat.astray = FALSE
    BY <2>1
  <2>5. fat = [links |-> fat.links,
               cached_clusters_start |-> fat.cached_clusters_start,
               cached_clusters_size |-> fat.cached_clusters_size,
               last_free_cluster |-> fat.last_free_cluster, astray |-> fat.astray]
    BY <2>1
  <2> QED  BY <2>2, <2>3, <2>4, <2>5 DEF FatOK
<1>2. CallOK
  BY DEF FilesInit, CallOK, Idle
<1>3. root_file \in 0..Top /\ files \in [Handles -> 0..Closed]
  BY FilesAssumption DEF FilesInit, Closed
<1> QED  BY <1>1, <1>2, <1>3 DEF FilesInv

\* fat32_write closes no cycle: on every volume, with every hint and whatever memory the
\* links are read from, a chain that comes to an end still does after any step of a file
\* call, unless a link was looked up in another cluster's word.
THEOREM NoNewCycleAlways == FilesSpec => NoNewCycle
<1>1. FilesInv /\ [FilesNext]_files_vars => FilesInv' /\ (Kept \/ UNCHANGED files_vars)
  <2>1. CASE FilesNext
    BY <2>1, FilesStep
  <2>2. CASE UNCHANGED files_vars
    BY <2>2 DEF files_vars, FilesInv, FatOK, CallOK
  <2> QED  BY <2>1, <2>2
<1>2. FilesInv /\ [FilesNext]_files_vars => FilesInv'
  BY <1>1
<1>3. FilesInv /\ [FilesNext]_files_vars
        => [~fat'.astray => \A c \in 0..Top : Ends(fat, c) => Ends(fat', c)]_files_vars
  BY <1>1 DEF Kept
<1> QED  BY FilesStart, <1>2, <1>3, PTL DEF FilesSpec, NoNewCycle
===========================================================================
