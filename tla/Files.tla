------------------------------- MODULE Files -------------------------------
(***************************************************************************)
(* Files on a FAT32 filesystem: fopen, fread, fwrite and sys_close, which  *)
(* reach it through the system calls 1 to 4.  The handler runs with        *)
(* interrupts off, so a call is alone from its start to its end, and one   *)
(* that does not end stops the machine.                                    *)
(*                                                                         *)
(* fat_cache, cached_clusters_start and cached_clusters_size are assigned  *)
(* nowhere before they are used, and the page they are in is not cleared:  *)
(* the links of the clusters are whatever words of memory fat_cache points *)
(* at, and the other two are any numbers.  total_clusters wraps, since     *)
(* sectors_in_vol is 0 on a FAT32 volume.  What the sectors hold is not    *)
(* kept, and how a path is taken apart is the module StringCalls.          *)
(***************************************************************************)
EXTENDS Naturals, SequencesExt, FiniteSetsExt

CONSTANTS
    Top,                 \* 2^32 - 1, which is -1
    EndOfChain,          \* 0x0fffffff: from here on fat32_write sees the end of a chain
    FirstMark,           \* 0x0ffffff8: from here on fat32_read does
    total_clusters,
    MemoryWords,         \* 2^30, the words fat_cache can index
    ClustersPerShift,    \* sector_size_bytes * BYTES_PER_FAT_ENTRY_32: 2048
    root_dir_cluster,
    Leftovers,           \* what a word of memory may hold
    Handles,             \* files a program has open
    OpenBits,            \* 2^OpenBits sectors are what fread(-1) asks for: 23
    MaxWrites,           \* clusters one fwrite is asked to write: a bound
    MaxRead              \* sectors of a fread: a bound

ASSUME FilesAssumption ==
    /\ Top \in Nat
    /\ EndOfChain \in 0..Top /\ FirstMark \in 0..EndOfChain
    /\ total_clusters \in 0..Top
    /\ MemoryWords \in Nat \ {0} /\ ClustersPerShift \in Nat \ {0}
    /\ root_dir_cluster \in 0..Top
    /\ Leftovers \subseteq 0..Top
    /\ OpenBits \in Nat /\ MaxWrites \in Nat /\ MaxRead \in Nat

VARIABLES
    fat,                   \* the links and the filesystem's fields about them
    sectors_per_cluster,
    root_file,             \* the current cluster of the root directory
    files,                 \* the current cluster of each open file
    call                   \* the call in progress: its loop, file, cluster and counters

files_vars == <<fat, sectors_per_cluster, root_file, files, call>>

Words == 0..(MemoryWords - 1)

Shift(start) == start \div ClustersPerShift

Idle == [op |-> "none", file |-> 0, cluster |-> 0, left |-> 0, i |-> 0]

Closed == Top + 1

\* The hint comes from the volume's FSInfo sector.
FilesInit ==
    /\ \E words \in [Words -> Leftovers], start \in Leftovers, size \in Leftovers, hint \in 0..Top :
           fat = [links |-> words,
                  cached_clusters_start |-> start, cached_clusters_size |-> size,
                  last_free_cluster |-> hint,
                  astray |-> FALSE]
    /\ sectors_per_cluster \in {1, 2}
    /\ root_file = root_dir_cluster
    /\ files = [h \in Handles |-> Closed]
    /\ call = Idle

----------------------------------------------------------------------------
(***************************************************************************)
(* The links.  The cache is said to hold the clusters from Shift(start) to *)
(* Shift(start) + size; for another one cache_fat32 moves the start there, *)
(* and transfers no sector, since fat_cache_size is 0.  A cluster's word   *)
(* is counted from Shift(start), so it depends on where the cache starts:  *)
(* `astray' records that a link was looked up in another word than the one *)
(* the cluster has when the start is moved to it.                          *)
(***************************************************************************)
LinkWord(c) == (c - Shift(c)) % MemoryWords

Index(f, c) == (c - Shift(f.cached_clusters_start)) % MemoryWords

cache_fat32(f, c) ==
    LET first == Shift(f.cached_clusters_start)
        in_cache == first <= c /\ c <= (first + f.cached_clusters_size) % (Top + 1)
        start == IF in_cache THEN f.cached_clusters_start ELSE c IN
    [links |-> f.links,
     cached_clusters_start |-> start, cached_clusters_size |-> f.cached_clusters_size,
     last_free_cluster |-> f.last_free_cluster,
     astray |-> f.astray \/ (c - Shift(start)) % MemoryWords # LinkWord(c)]

get_next_cluster32(c, f) ==
    LET g == cache_fat32(f, c) IN [next |-> g.links[Index(g, c)], fat |-> g]

\* Fault: the last cluster is not marked.
set_next_cluster32_unmarked(c, next, f) ==
    LET g == cache_fat32(f, c) IN
    IF next = Top THEN g ELSE [g EXCEPT !.links[Index(g, c)] = next]

\* A link to the cluster itself, which find_free returns on a full volume, ends the
\* chain instead.
set_next_cluster32(c, next, f) ==
    LET g == cache_fat32(f, c) IN
    [g EXCEPT !.links[Index(g, c)] = IF c = next THEN Top ELSE next]

----------------------------------------------------------------------------
\* A system call begins.
Begin(op, h, cluster, left) ==
    /\ call = Idle
    /\ call' = [op |-> op, file |-> h, cluster |-> cluster, left |-> left, i |-> 0]

\* fopen of "/": a copy of root_file.
fopen_root ==
    /\ call = Idle
    /\ \E h \in Handles : files[h] = Closed /\ files' = [files EXCEPT ![h] = root_file]
    /\ UNCHANGED <<fat, sectors_per_cluster, root_file, call>>

\* fopen of another path reads all of the root directory first: a size of -1 is as many
\* bytes as a number can count.
fopen_name ==
    /\ Begin("open", 0, root_file, sectors_per_cluster * 2^OpenBits)
    /\ UNCHANGED <<fat, sectors_per_cluster, root_file, files>>

fread ==
    /\ \E h \in Handles, n \in 0..MaxRead :
           files[h] # Closed /\ Begin("read", h, files[h], (n + 1) * sectors_per_cluster)
    /\ UNCHANGED <<fat, sectors_per_cluster, root_file, files>>

\* A write goes from the file's first cluster on.
fwrite ==
    /\ \E h \in Handles, n \in 0..MaxWrites :
           files[h] # Closed /\ Begin("write", h, root_dir_cluster, n + 1)
    /\ UNCHANGED <<fat, sectors_per_cluster, root_file, files>>

sys_close ==
    /\ call = Idle
    /\ \E h \in Handles : files[h] # Closed /\ files' = [files EXCEPT ![h] = Closed]
    /\ UNCHANGED <<fat, sectors_per_cluster, root_file, call>>

----------------------------------------------------------------------------
\* Fault: the loop of a read looks at its counter only.
fat32_read_counted ==
    LET r == get_next_cluster32(call.cluster, fat) IN
    /\ call.op \in {"open", "read"} /\ call.left > 0
    /\ call' = [call EXCEPT !.cluster = r.next, !.left = @ \div sectors_per_cluster]
    /\ fat' = r.fat
    /\ UNCHANGED <<sectors_per_cluster, root_file, files>>

\* A turn of fat32_read's loop: the counter is divided by the sectors of a cluster.
fat32_read ==
    LET r == get_next_cluster32(call.cluster, fat) IN
    /\ call.op \in {"open", "read"}
    /\ call.left > 0 /\ call.cluster < FirstMark
    /\ call' = [call EXCEPT !.cluster = r.next, !.left = @ \div sectors_per_cluster]
    /\ fat' = r.fat
    /\ UNCHANGED <<sectors_per_cluster, root_file, files>>

\* Its end.  The file goes on from the cluster it came to; fopen then counts the
\* entries of the directory.
fat32_read_end ==
    /\ call.op \in {"open", "read"}
    /\ call.left = 0 \/ call.cluster >= FirstMark
    /\ \/ /\ call.op = "read"
          /\ files' = [files EXCEPT ![call.file] = call.cluster]
          /\ call' = Idle /\ UNCHANGED root_file
       \/ /\ call.op = "open"
          /\ root_file' = call.cluster
          /\ call' = [Idle EXCEPT !.op = "count"] /\ UNCHANGED files
    /\ UNCHANGED <<fat, sectors_per_cluster>>

\* The loop that counts looks at the first entry only: if it is in use the loop does
\* not end, and else search_dir has nothing to find.
count_entries ==
    /\ call.op = "count"
    /\ call' \in {Idle, [Idle EXCEPT !.op = "counting"]}
    /\ UNCHANGED <<fat, sectors_per_cluster, root_file, files>>

\* A turn of fat32_write's loop: the cluster is written; when it was the last of the
\* chain, a free one is looked for, whether or not there is more to write.
fat32_write ==
    LET r == get_next_cluster32(call.cluster, fat) IN
    /\ call.op = "write" /\ call.left > 0
    /\ call' = IF r.next < EndOfChain
               THEN [call EXCEPT !.cluster = r.next, !.left = @ - 1]
               ELSE [call EXCEPT !.op = "search",
                                 !.i = IF fat.last_free_cluster = Top THEN 0
                                       ELSE fat.last_free_cluster]
    /\ fat' = r.fat
    /\ UNCHANGED <<sectors_per_cluster, root_file, files>>

\* The cluster found becomes the hint and the last of the chain.
Extend(f, c) ==
    /\ fat' = set_next_cluster32(c, Top,
                  set_next_cluster32(call.cluster, c, [f EXCEPT !.last_free_cluster = c]))
    /\ call' = [call EXCEPT !.op = "write", !.cluster = c, !.left = @ - 1, !.i = 0]

\* A turn of the search from the hint on: the cluster is free, is in use, or there is
\* none and the hint itself is the result.
fat32_find_free_cluster ==
    LET r == get_next_cluster32(call.i, fat) IN
    /\ call.op = "search"
    /\ \/ call.i < total_clusters /\ r.next = 0 /\ Extend(r.fat, call.i)
       \/ /\ call.i < total_clusters /\ r.next # 0
          /\ call' = [call EXCEPT !.i = @ + 1]
          /\ fat' = r.fat
       \/ call.i >= total_clusters /\ Extend(fat, fat.last_free_cluster)
    /\ UNCHANGED <<sectors_per_cluster, root_file, files>>

fat32_write_end ==
    /\ call.op = "write" /\ call.left = 0
    /\ call' = Idle
    /\ UNCHANGED <<fat, sectors_per_cluster, root_file, files>>

Loops == fat32_read \/ fat32_read_end \/ count_entries \/ fat32_write
         \/ fat32_find_free_cluster \/ fat32_write_end

FilesNext == fopen_root \/ fopen_name \/ fread \/ fwrite \/ sys_close \/ Loops

\* A call, once begun, is executed.
FilesSpec == FilesInit /\ [][FilesNext]_files_vars /\ WF_files_vars(Loops)

----------------------------------------------------------------------------
(***************************************************************************)
(* The chain of c comes to an end: it is not caught in a set of words from *)
(* which no link leads out.                                                *)
(***************************************************************************)
Ends(f, c) ==
    \/ c >= EndOfChain
    \/ ~\E S \in SUBSET Words :
           LinkWord(c) \in S /\ \A w \in S : f.links[w] < EndOfChain /\ LinkWord(f.links[w]) \in S

\* A write makes no cycle: a chain that ends goes on ending however it is extended, with
\* a free cluster, on a full volume with one that is part of a chain, and where two
\* clusters share a word; as long as links are looked up in their own words (fat.c,
\* fat32_write).
NoNewCycle ==
    [][~fat'.astray => \A c \in 0..Top : Ends(fat, c) => Ends(fat', c)]_files_vars

\* Every loop of a call ends, but for the count of directory entries, if the chain it
\* follows ends and no link is looked up in another one's word: a read of a volume with
\* one sector per cluster stops at the end of the chain only, because its counter is
\* divided by 1 (fat.c, fat32_read).
LoopsEnd ==
    call.op \notin {"none", "counting"} /\ Ends(fat, call.cluster)
        ~> call.op \in {"none", "counting"} \/ fat.astray
==========================================================================
