------------------------------- MODULE Boot -------------------------------
(***************************************************************************)
(* The part of kmain that fills memory before anything is scheduled:       *)
(* ata_identify_all finds the drives of the primary channel, register_drive *)
(* reads their partition tables and detect_fs mounts what it finds, and    *)
(* init_scheduler takes proc_list.  No other code allocates meanwhile, so  *)
(* a step runs from one thing the hardware decides (is there a drive, what *)
(* is in a partition) to the next.                                         *)
(***************************************************************************)
EXTENDS PageTable, FiniteSets, Sequences

CONSTANTS
    PartitionCount,   \* 4, the entries of a partition table
    FsInfoPages,      \* 8, what fat32_register asks for
    ProcListPages     \* 64, what init_scheduler asks for

\* The blocks are smaller than the address of the first page kmalloc looks at, and
\* memory does not run out.
ASSUME BootAssumption ==
    /\ PartitionCount \in Nat
    /\ FsInfoPages \in 1..FirstPage
    /\ ProcListPages \in 1..FirstPage
    /\ Cardinality(Pages \ BootReserved)
         >= 7 + 2 * PartitionCount * (1 + FsInfoPages) + ProcListPages

VARIABLES
    heap,          \* the page table, and the block each pointer holds
    drives,        \* the registered drives, by number
    filesystems,   \* the mounted filesystems, by mountID
    pc,            \* which loop kmain is in
    partition      \* the partition register_drive comes to next

vars == <<heap, drives, filesystems, pc, partition>>

DriveNos == {0, 1}

\* The pointers: what they point to, the drive and the partition they are about.
Name(kind, d, p) == <<kind, d, p>>

Names == {Name("proc_list", 0, 0), Name("part_start", 0, 0)}
         \cup {Name(kind, d, 0) : kind \in {"drive", "buffer", "mbr"}, d \in DriveNos}
         \cup {Name(kind, d, p) : kind \in {"fs", "fsinfo"}, d \in DriveNos,
                                  p \in 0..(PartitionCount - 1)}

Null == [start |-> 0, size |-> 0]

PagesOf(n) == heap.block[n].start..(heap.block[n].start + heap.block[n].size - 1)

Init ==
    /\ heap = [table |-> BootTable, block |-> [n \in Names |-> Null]]
    /\ drives = <<>>
    /\ filesystems = <<>>
    /\ pc = "identify"
    /\ partition = 0

----------------------------------------------------------------------------
\* The heap after n = kmalloc(size, ...) and after kfree(n).
kmalloc(h, n, size) ==
    LET i == CHOOSE i \in Pages : FirstFit(h.table, i, size) IN
    [table |-> Allocated(h.table, i, size, 0),
     block |-> [h.block EXCEPT ![n] = [start |-> i, size |-> size]]]

kfree(h, n) ==
    [table |-> Freed(h.table, h.block[n].start),
     block |-> [h.block EXCEPT ![n] = Null]]

----------------------------------------------------------------------------
\* register_drive stores the drive in the first empty slot and reads its first
\* sector; the page of the partition table stays allocated.
register_drive(h, d) ==
    /\ drives' = Append(drives, Name("drive", d, 0))
    /\ heap' = kmalloc(h, Name("mbr", d, 0), 1)
    /\ pc' = "partitions"
    /\ partition' = 0

\* A drive's structure and the buffer IDENTIFY's answer is read into.
Identified(h, d) == kmalloc(kmalloc(h, Name("drive", d, 0), 1), Name("buffer", d, 0), 1)

ata_identify_all ==
    /\ pc = "identify"
    /\ \/ register_drive(Identified(heap, 0), 0)
       \/ /\ heap' = kmalloc(heap, Name("drive", 0, 0), 1)   \* there is no master
          /\ pc' = "scheduler"
          /\ UNCHANGED <<drives, partition>>
    /\ UNCHANGED filesystems

----------------------------------------------------------------------------
\* The drive whose partition table is being read.
CurrentDrive == Len(drives) - 1

\* register_drive's next partition: skipped, or its first sectors are read to a
\* page that is given back at the end.
NextPartition == pc = "partitions" /\ partition < PartitionCount /\ partition' = partition + 1

part_start == Name("part_start", 0, 0)

partition_skipped ==
    /\ NextPartition
    /\ UNCHANGED <<heap, drives, filesystems, pc>>

\* detect_fs finds an ext filesystem or an impossible FAT header.
partition_not_fat ==
    /\ NextPartition
    /\ heap' = kfree(kmalloc(heap, part_start, 1), part_start)
    /\ UNCHANGED <<drives, filesystems, pc>>

\* Fault: the page of the boot sector is freed before the filesystem is registered.
Mount_frees_early(type) ==
    LET fs     == Name("fs", CurrentDrive, partition)
        fsinfo == Name("fsinfo", CurrentDrive, partition)
        found  == kfree(kmalloc(kmalloc(heap, part_start, 1), fs, 1), part_start)
    IN
    /\ NextPartition
    /\ filesystems' = Append(filesystems, fs)
    /\ heap' = IF type = "FAT32" THEN kmalloc(found, fsinfo, FsInfoPages) ELSE found
    /\ UNCHANGED <<drives, pc>>

\* Fault: the structure is freed although the driver kept it.
Mount_frees_fs(type) ==
    LET fs == Name("fs", CurrentDrive, partition) IN
    /\ NextPartition
    /\ filesystems' = Append(filesystems, fs)
    /\ heap' = kfree(kfree(kmalloc(kmalloc(heap, part_start, 1), fs, 1), fs), part_start)
    /\ UNCHANGED <<drives, pc>>

\* detect_fs mounts a FAT filesystem; for FAT32 fat32_register then reads the
\* FSInfo sectors into a block that nobody frees.
Mount(type) ==
    LET fs     == Name("fs", CurrentDrive, partition)
        fsinfo == Name("fsinfo", CurrentDrive, partition)
        found  == kmalloc(kmalloc(heap, part_start, 1), fs, 1)
    IN
    /\ NextPartition
    /\ filesystems' = Append(filesystems, fs)
    /\ heap' = kfree(IF type = "FAT32" THEN kmalloc(found, fsinfo, FsInfoPages) ELSE found,
                     part_start)
    /\ UNCHANGED <<drives, pc>>

detect_fs == Mount("FAT16") \/ Mount("FAT32")

----------------------------------------------------------------------------
\* ata_identify after the master's register_drive: the buffer is freed, and a
\* status that is not 0 tells of a slave, whose buffer is not freed.
identify_slave ==
    LET h == kfree(heap, Name("buffer", 0, 0)) IN
    /\ pc = "partitions" /\ partition = PartitionCount /\ CurrentDrive = 0
    /\ \/ register_drive(Identified(h, 1), 1)
       \/ heap' = h /\ pc' = "scheduler" /\ UNCHANGED <<drives, partition>>
    /\ UNCHANGED filesystems

slave_registered ==
    /\ pc = "partitions" /\ partition = PartitionCount /\ CurrentDrive = 1
    /\ pc' = "scheduler"
    /\ UNCHANGED <<heap, drives, filesystems, partition>>

\* proc_list is allocated and all of it is cleared.
init_scheduler ==
    /\ pc = "scheduler"
    /\ heap' = kmalloc(heap, Name("proc_list", 0, 0), ProcListPages)
    /\ pc' = "kfork"
    /\ UNCHANGED <<drives, filesystems, partition>>

Next ==
    \/ ata_identify_all
    \/ partition_skipped
    \/ partition_not_fat
    \/ detect_fs
    \/ identify_slave
    \/ slave_registered
    \/ init_scheduler

Spec == Init /\ [][Next]_vars

----------------------------------------------------------------------------
\* Whatever drives and partitions there are, the blocks taken while drives are
\* registered never overlap: when a block of several pages is asked for, the pages
\* freed so far have all been taken again.
RegistrationIsSafe ==
    pc # "kfork" => \A m, n \in Names : m # n => PagesOf(m) \cap PagesOf(n) = {}

\* A registered drive or filesystem is in memory that is allocated to it: no kfree
\* of a buffer took it away.
RegisteredLive ==
    \A r \in {drives[i] : i \in DOMAIN drives} \cup {filesystems[i] : i \in DOMAIN filesystems} :
        /\ heap.block[r] # Null
        /\ heap.table[heap.block[r].start].used = 1

\* Mounted filesystems stay until the machine is shut down: clearing proc_list
\* does not wipe one.
FilesystemsSurvive ==
    \A i \in DOMAIN filesystems :
        PagesOf(filesystems[i]) \cap PagesOf(Name("proc_list", 0, 0)) = {}
==========================================================================
