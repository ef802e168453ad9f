----------------------------- MODULE MCFiles -----------------------------
\* The walks of paths and the file calls, in one run.  They share no state: a behaviour
\* is of the one part or of the other.
EXTENDS StringCalls, Files

VARIABLE part

mcvars == <<vars, files_vars, part>>

\* One volume is enough beside the paths.
MCInit ==
    /\ Init /\ FilesInit
    /\ \/ part = "files"
       \/ /\ part = "paths" /\ sectors_per_cluster = 1
          /\ fat.last_free_cluster = 0 /\ fat.cached_clusters_start = 0
          /\ fat.cached_clusters_size = 0 /\ Range(fat.links) = {0}

PathStep == part = "paths" /\ Next /\ UNCHANGED <<files_vars, part>>

FileStep == part = "files" /\ FilesNext /\ UNCHANGED <<vars, part>>

\* A call, once begun, is executed.
MCSpec ==
    /\ MCInit /\ [][PathStep \/ FileStep]_mcvars
    /\ WF_mcvars(part = "files" /\ Loops /\ UNCHANGED <<vars, part>>)
==========================================================================
