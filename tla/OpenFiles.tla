----------------------------- MODULE OpenFiles -----------------------------
(***************************************************************************)
(* FileCache together with the handlers that take a file's path away or    *)
(* give it another content: dfs_unlink and dfs_rename (unlink.c,           *)
(* rename.c), seen from one of the paths they are called with.             *)
(*                                                                         *)
(* libfuse holds the path of every request, for itself alone when it is    *)
(* removed or moved; the collector takes no part in this.  A file that is  *)
(* open is not unlinked: libfuse renames it to a hidden name (.fuse_hidden *)
(* and a number), which is dfs_rename, which copies the object and then    *)
(* calls dfs_unlink for the old path, as any rename of the path does.      *)
(***************************************************************************)
EXTENDS FileCache

VARIABLES
    taken,    \* the path dfs_unlink is at work on, NULL when on none
    upc,      \* where it is
    hidden    \* handles open under a name that has been taken away

treevars == <<taken, upc, hidden>>
allvars  == <<vars, treevars>>

OpenInit == Init /\ taken = NULL /\ upc = "idle" /\ hidden = {}

(* No request on p is being served (libfuse).  An open the kernel has not  *)
(* sent yet would be refused by libfuse once the path is gone: it is as if *)
(* it had not been made.                                                   *)
PathIdle(p) ==
    \A h \in Handle : call[h] # NULL /\ PathOf(h) = p
                          => pc[h] \in {"opened", "undefined"}

(* libfuse has the file at p open.                                         *)
IsOpen(p) ==
    \E h \in Handle \ hidden :
        call[h] # NULL /\ PathOf(h) = p /\ pc[h] \in {"opened", "undefined"}

(* The kernel has looked a name up before it removes or replaces it.       *)
LookedUp(p) == p \in dentry /\ remote[p] # NULL

(* dfs_unlink, called for an unlink, or by rename_file for a rename of the *)
(* path, a hidden name included: from then on the open handles of the path *)
(* belong to the other name.                                               *)
dfs_unlink(p) ==
    /\ taken = NULL /\ PathIdle(p) /\ LookedUp(p)
    /\ remote' = [remote EXCEPT ![p] = NULL]
    /\ dentry' = dentry \ {p}
    /\ hidden' = hidden \cup {h \in Handle : call[h] # NULL /\ PathOf(h) = p
                                             /\ pc[h] \in {"opened", "undefined"}}
    /\ taken' = p /\ upc' = "local"
    /\ UNCHANGED <<table, disk, pc, call, fh, private, gcvars>>

(* Mutant: the cache file is left to the collector.                        *)
unlink_local_mutated ==
    /\ upc = "local"
    /\ upc' = "cell"
    /\ UNCHANGED <<vars, taken, hidden>>

unlink_local ==
    /\ upc = "local"
    /\ local' = [local EXCEPT ![taken] = NULL]
    /\ upc' = "cell"
    /\ UNCHANGED <<table, data, young, store, pc, call, fh, private, gcvars, taken, hidden>>

(* Mutant: the cell stays in the table.                                    *)
unlink_cell_mutated ==
    /\ upc = "cell"
    /\ upc' = "idle" /\ taken' = NULL
    /\ UNCHANGED <<vars, hidden>>

(* The lookup and the removal are by the path: the cell is freed, open or  *)
(* not, and whoever has locked it.                                         *)
unlink_cell ==
    /\ upc = "cell"
    /\ hash_remove(taken)
    /\ upc' = "idle" /\ taken' = NULL
    /\ UNCHANGED <<disk, store, pc, call, fh, private, gcvars, hidden>>

(* rename_file onto p, which is not open (an open one is hidden first):    *)
(* the object is replaced, the path's cell and cache file are left alone.  *)
rename_onto(p) ==
    /\ taken = NULL /\ PathIdle(p) /\ LookedUp(p) /\ ~IsOpen(p)
    /\ remote' = [remote EXCEPT ![p] = "moved"]
    /\ UNCHANGED <<table, disk, dentry, pc, call, fh, private, gcvars, treevars>>

-----------------------------------------------------------------------------
(* A request on a path waits while the path is being taken away.           *)
Served(h) ==
    /\ taken = NULL
    /\ \/ Kernel(h) \/ dfs_open(h) \/ Working(h) \/ dfs_write(h) \/ dfs_release(h)
    /\ hidden' = {g \in hidden : call'[g] # NULL}
    /\ UNCHANGED <<taken, upc>>

Aside ==
    /\ \/ \E p \in Path : KernelForget(p) \/ gc_callback(p)
       \/ GcStep
       \/ \E i \in Inode : Age(i)
    /\ UNCHANGED treevars

OpenNext ==
    \/ \E h \in Handle : Served(h)
    \/ Aside
    \/ \E p \in Path : dfs_unlink(p) \/ rename_onto(p)
    \/ unlink_local \/ unlink_cell

OpenSpec == OpenInit /\ [][OpenNext]_allvars

-----------------------------------------------------------------------------
(* No copy without an original: a file of the cache directory belongs to   *)
(* an object of the store, unless a handler is between the two, or it was  *)
(* left by an earlier mount (unlink.c removes both, and a download that    *)
(* began before cannot bring the copy back after).                         *)
NoOrphanCopy ==
    \A p \in Path :
        /\ PathIdle(p) /\ taken # p
        /\ \A h \in Handle \ hidden :
              call[h] # NULL /\ PathOf(h) = p => pc[h] # "undefined"
        /\ local[p] # NULL /\ data[local[p]] # "stale"
        => remote[p] # NULL

(* What was unlinked or renamed stays away: an object comes into being     *)
(* only where an application creates a file or renames one to, and never   *)
(* by the close of a handle from before (release.c).                       *)
UnlinkedStaysAway ==
    [][\A p \in Path : remote[p] = NULL /\ remote'[p] # NULL =>
        \/ \E h \in Handle : pc[h] = "mknod" /\ PathOf(h) = p
        \/ remote'[p] = "moved"]_allvars
=============================================================================
