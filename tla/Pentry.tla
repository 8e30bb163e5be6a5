------------------------------- MODULE Pentry -------------------------------
(***************************************************************************)
(* The path entries of hash.c and the global hashtable of dropletfs.c.     *)
(*                                                                         *)
(* A cell (struct pentry) describes one path of the mounted file system.   *)
(* The table maps a path to its cell and owns it: the table is built with  *)
(* pentry_free as the destroy function of its values, so that inserting    *)
(* over an existing entry, or removing one, frees the cell, whoever still  *)
(* holds a pointer to it.  Nothing locks the table.                        *)
(*                                                                         *)
(* A pointer to a cell is an element of Pe.  pe->st and pe->atime,         *)
(* pe->metadata, pe->dirent and pe->filetype are not part of this module:  *)
(* none of them steers the handling of open files.                         *)
(***************************************************************************)
EXTENDS Naturals, FiniteSets

CONSTANTS
    Path,     \* paths of the mounted file system
    Pe,       \* addresses malloc may give to a cell
    Inode,    \* files of the local cache directory
    Handle,   \* threads of requests: one struct fuse_file_info each
    Gc,       \* the garbage collecting thread
    NULL

VARIABLES
    hash,     \* path -> cell, NULL when the path has no entry
    cell      \* address -> struct pentry

(***************************************************************************)
(* Contents of a file, local or remote: what a handle wrote is named by    *)
(* the handle, "old" is what the store held before, "stale" what an        *)
(* earlier mount left in the cache directory, "moved" what a rename brings *)
(* to the path, "partial" a download that is not complete.                 *)
(***************************************************************************)
Content == {"empty", "partial", "stale", "old", "moved"} \cup Handle

(* An open file descriptor: the inode it names and whether pwrite works.   *)
Descriptor == [ino : Inode, mode : {"O_RDONLY", "O_RDWR"}]

ASSUME PentryAssumption ==
    /\ NULL \notin Path \cup Pe \cup Inode \cup Handle \cup Content \cup Descriptor
    /\ Gc \notin Handle \cup {NULL}
    /\ Handle \cap {"empty", "partial", "stale", "old", "moved"} = {}

Pentry == [fd       : Descriptor \cup {NULL},
           refcount : Nat,
           ondisk   : {"FILE_LOCAL", "FILE_REMOTE", "FILE_UNSET"},
           flag     : {"FLAG_CLEAN", "FLAG_DIRTY"},
           digest   : Content \cup {"garbage"},
           exclude  : {0, 1},
           mutex    : Handle \cup {Gc, NULL},
           state    : {"live", "free"}]

(* The digest is the one field with a meaning here that pentry_new leaves  *)
(* uninitialised: it then holds whatever the allocator left there.         *)
pentry_new == [fd       |-> NULL,
               refcount |-> 0,
               ondisk   |-> "FILE_UNSET",
               flag     |-> "FLAG_DIRTY",
               digest   |-> "garbage",
               exclude  |-> 0,
               mutex    |-> NULL,
               state    |-> "live"]

(* pentry_free closes the descriptor and releases the memory.  The fields  *)
(* of a freed cell have no meaning: they are reset to one value.           *)
pentry_free == [pentry_new EXCEPT !.state = "free"]

Live(x) == cell[x].state = "live"

(* g_hash_table_insert: a cell already there is destroyed.                 *)
hash_insert(p, x) ==
    /\ hash' = [hash EXCEPT ![p] = x]
    /\ cell' = [y \in Pe |-> IF y = x THEN pentry_new
                             ELSE IF y = hash[p] THEN pentry_free
                             ELSE cell[y]]

(* g_hash_table_remove: the cell the path has at this moment is destroyed. *)
hash_remove(p) ==
    /\ hash' = [hash EXCEPT ![p] = NULL]
    /\ cell' = [y \in Pe |-> IF y = hash[p] THEN pentry_free ELSE cell[y]]

(* The setters change one cell; r is the cell with its new fields.         *)
Update(x, r) == cell' = [cell EXCEPT ![x] = r]

pentry_set_placeholder(x, v) == Update(x, [cell[x] EXCEPT !.ondisk = v])

(* Mutant: a flag instead of a count.                                      *)
pentry_inc_refcount_mutated(x) ==
    Update(x, [cell[x] EXCEPT !.refcount = 1])

pentry_inc_refcount(x) ==
    Update(x, [cell[x] EXCEPT !.refcount = cell[x].refcount + 1])

(* sem_wait: the caller sleeps until the count is positive.                *)
pentry_dec_refcount(x) ==
    /\ cell[x].refcount > 0
    /\ Update(x, [cell[x] EXCEPT !.refcount = cell[x].refcount - 1])

(* A default pthread mutex: any thread may unlock it, whoever locked it,   *)
(* and nothing happens when it is not locked.                              *)
pentry_lock(x, t) ==
    /\ cell[x].mutex = NULL
    /\ Update(x, [cell[x] EXCEPT !.mutex = t])
pentry_unlock(x) == Update(x, [cell[x] EXCEPT !.mutex = NULL])

HashInit ==
    /\ hash = [p \in Path |-> NULL]
    /\ cell = [x \in Pe |-> pentry_free]

(* The type of the table and of the cells.                                 *)
HashTypeOK ==
    /\ hash \in [Path -> Pe \cup {NULL}]
    /\ cell \in [Pe -> Pentry]
=============================================================================
