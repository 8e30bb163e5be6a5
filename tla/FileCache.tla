----------------------------- MODULE FileCache -----------------------------
(***************************************************************************)
(* The file cache of dropletfs: what happens to the cells of the table, to *)
(* the files of the cache directory and to the objects of the remote store *)
(* when FUSE workers look up, open, create, write and release files        *)
(* (getattr.c, open.c, create.c, file.c, write.c, release.c) while the     *)
(* garbage collector (gc.c) walks over the table.                          *)
(*                                                                         *)
(* A handle is one application's use of one file, from the path lookup to  *)
(* the release.  Its requests are run by FUSE worker threads; pc says      *)
(* where the handler is, one step for each access to something another     *)
(* thread can change.  Between two requests pc is "closed", "open" (looked *)
(* up, open not yet sent) or "opened".                                     *)
(*                                                                         *)
(* A handler that follows a pointer to a freed cell has undefined          *)
(* behaviour: its pc becomes "undefined" and nothing more is said of it.   *)
(***************************************************************************)
EXTENDS Pentry

CONSTANTS
    Calls,         \* the open(2)/creat(2)/stat(2) calls applications make
    Excluded,      \* paths that match the exclusion pattern
    Faults,        \* which operations may fail, see below
    GcOn,          \* gc_loop_delay and gc_age_threshold are both non-zero
    Workers,       \* FUSE worker threads, 1 when mounted with -s
    MaxRefcount    \* bound: no new open of a cell counted this often

Call == [acc   : {"O_RDONLY", "O_WRONLY", "O_RDWR", "stat"},
         flags : SUBSET {"O_APPEND", "O_CREAT"},
         path  : Path]

(***************************************************************************)
(* "alloc" malloc or strdup   "lock"  pthread_mutex_lock                   *)
(* "open"  open(2)            "fstat" fstat(2)                             *)
(* "namei" a remote lookup    "read"  dpl_openread or what follows it      *)
(* "mknod" dpl_mknod          "upload" dpl_openwrite, dpl_write, dpl_close *)
(***************************************************************************)
Fault == {"alloc", "lock", "open", "fstat", "namei", "read", "mknod", "upload"}

ASSUME FileCacheAssumption ==
    /\ Calls \subseteq Call /\ NULL \notin Call
    /\ Excluded \subseteq Path
    /\ Faults \subseteq Fault
    /\ GcOn \in BOOLEAN
    /\ Workers \in Nat \ {0}
    /\ MaxRefcount \in Nat \ {0}
    /\ IsFiniteSet(Handle)

VARIABLES
    local,    \* cache directory: path -> inode, NULL when there is no file
    data,     \* inode -> content
    young,    \* inodes with all three time stamps below the threshold
    remote,   \* remote store: path -> content, NULL when there is no object
    dentry,   \* paths the kernel has looked up and still remembers
    pc,       \* handle -> where its handler is
    call,     \* handle -> the call it serves (info->flags), NULL if none
    fh,       \* handle -> its pointer to a cell (pe, then info->fh)
    lfd,      \* handle -> the descriptor in the handler's local variable
    etag,     \* handle -> the remote digest in the downloaded headers
    wrote,    \* history: handle -> 1 once a dfs_write succeeded
    gcpc,     \* where gc_callback is
    gcpe,     \* its pe
    gcpath    \* its path

table   == <<hash, cell>>
disk    == <<local, data, young>>
store   == <<remote, dentry>>
private == <<lfd, etag, wrote>>
gcvars  == <<gcpc, gcpe, gcpath>>
vars    == <<table, disk, store, pc, call, fh, private, gcvars>>

-----------------------------------------------------------------------------
(* Program counters.                                                       *)
GetattrPc == {"getattr", "getattr_insert", "stat", "unset", "mark"}
OpenPc    == {"populate", "incref", "lock", "creat", "existing", "headers",
              "digest", "discard", "download", "fetch", "reopen", "set_fd",
              "placeholder", "create", "mknod"}
ReleasePc == {"decref", "send", "clean"}
IdlePc    == {"closed", "open", "opened", "undefined"}
(* Where the handler has no pointer to a cell, and where it has read the   *)
(* headers of the object it copies.                                        *)
NoCellPc  == {"closed", "open", "getattr", "getattr_insert", "populate"}
CopyPc    == {"digest", "discard", "download", "fetch", "reopen"}
Pc        == IdlePc \cup GetattrPc \cup OpenPc \cup ReleasePc

(* A request starts only when a worker thread is free to run it.           *)
WorkerFree ==
    Cardinality({h \in Handle : pc[h] \notin IdlePc}) < Workers

PathOf(h)   == call[h].path
Flags(h)    == call[h].flags
Creating(h) == "O_CREAT" \in Flags(h)

(***************************************************************************)
(* Kernel, not part of the program: a lookup of a name, or its creation,   *)
(* holds the name until it is done, so no second one runs at the same      *)
(* time.  A name the kernel remembers (dentry) needs no new lookup.        *)
(***************************************************************************)
HoldsName(h) ==
    /\ call[h] # NULL
    /\ call[h].acc # "stat"
    /\ \/ pc[h] \in GetattrPc
       \/ Creating(h) /\ pc[h] \in OpenPc \cup {"open"}

NameHeld(p) == \E h \in Handle : HoldsName(h) /\ PathOf(h) = p

get_mode_from_flags(c) ==
    IF "O_APPEND" \in c.flags THEN "MODE_RDWR"
    ELSE IF "O_CREAT" \in c.flags \/ c.acc # "O_RDONLY" THEN "MODE_CREAT"
    ELSE "MODE_RDONLY"

Mode(h) == get_mode_from_flags(call[h])

(* Mutant: every mode reopens the cached file read-only.                   *)
open_flags_mutated(mode) ==
    "O_RDONLY"

(* The modes that open the cached file without O_CREAT and O_TRUNC.        *)
open_flags(mode) == IF mode = "MODE_RDONLY" THEN "O_RDONLY" ELSE "O_RDWR"

(* dfs_open locks the cell unless the mode is read-only ...                *)
NeedsLock(h) == Mode(h) # "MODE_RDONLY"
(* ... and dfs_release looks at the access mode to know what to undo.      *)
ReadOnlyRelease(h) == call[h].acc = "O_RDONLY"

Goto(h, s) == pc' = [pc EXCEPT ![h] = s]

(* The handler returns and the kernel forgets the file handle.             *)
Return(h) ==
    /\ Goto(h, "closed")
    /\ call'  = [call EXCEPT ![h] = NULL]
    /\ fh'    = [fh EXCEPT ![h] = NULL]
    /\ lfd'   = [lfd EXCEPT ![h] = NULL]
    /\ etag'  = [etag EXCEPT ![h] = NULL]
    /\ wrote' = [wrote EXCEPT ![h] = 0]

(* Addresses and inodes that can be handed out: nothing points to them.    *)
FreePe(x) ==
    /\ ~Live(x)
    /\ gcpe # x
    /\ \A h \in Handle : fh[h] # x
FreeInode(i) ==
    /\ \A p \in Path : local[p] # i
    /\ \A h \in Handle : lfd[h] # NULL => lfd[h].ino # i
    /\ \A x \in Pe : cell[x].fd # NULL => cell[x].fd.ino # i

(* Mutant: O_TRUNC is missing, an existing file keeps its content.         *)
OpenTrunc_mutated(p, i, d) ==
    /\ IF local[p] = NULL THEN FreeInode(i) ELSE i = local[p]
    /\ local' = [local EXCEPT ![p] = i]
    /\ data'  = IF local[p] = NULL THEN [data EXCEPT ![i] = d] ELSE data
    /\ young' = IF local[p] = NULL THEN young \cup {i} ELSE young

(* open(local, O_RDWR|O_CREAT|O_TRUNC): the file p has, or a new one, now  *)
(* with content d.  Only a new file has all its time stamps fresh.         *)
OpenTrunc(p, i, d) ==
    /\ IF local[p] = NULL THEN FreeInode(i) ELSE i = local[p]
    /\ local' = [local EXCEPT ![p] = i]
    /\ data'  = [data EXCEPT ![i] = d]
    /\ young' = IF local[p] = NULL THEN young \cup {i} ELSE young

Init ==
    /\ HashInit
    /\ local \in {f \in [Path -> Inode \cup {NULL}] :
                    \A p, q \in Path : f[p] = f[q] /\ f[p] # NULL => p = q}
    /\ data = [i \in Inode |-> "stale"]
    /\ young = {}
    /\ remote \in [Path -> {"old", NULL}]
    /\ dentry = {}
    /\ pc     = [h \in Handle |-> "closed"]
    /\ call   = [h \in Handle |-> NULL]
    /\ fh     = [h \in Handle |-> NULL]
    /\ lfd    = [h \in Handle |-> NULL]
    /\ etag   = [h \in Handle |-> NULL]
    /\ wrote  = [h \in Handle |-> 0]
    /\ gcpc   = "idle"
    /\ gcpe   = NULL
    /\ gcpath = NULL

-----------------------------------------------------------------------------
(* Kernel: an application makes call c.                                    *)

BelowBound(p) == hash[p] # NULL => cell[hash[p]].refcount < MaxRefcount

(* The name is not remembered: FUSE gets a lookup, served by dfs_getattr.  *)
KernelLookup(h, c) ==
    /\ pc[h] = "closed" /\ WorkerFree
    /\ c.acc # "stat" /\ BelowBound(c.path)
    /\ c.path \notin dentry /\ ~NameHeld(c.path)
    /\ Goto(h, "getattr")
    /\ call' = [call EXCEPT ![h] = c]
    /\ UNCHANGED <<table, disk, store, fh, private, gcvars>>

(* stat(2) of a name the kernel remembers, with attributes it does not.    *)
KernelStat(h, c) ==
    /\ pc[h] = "closed" /\ WorkerFree
    /\ c.acc = "stat" /\ c.path \in dentry
    /\ Goto(h, "getattr")
    /\ call' = [call EXCEPT ![h] = c]
    /\ UNCHANGED <<table, disk, store, fh, private, gcvars>>

(* open(2) of a name the kernel remembers: O_CREAT means nothing.          *)
KernelOpen(h, c) ==
    /\ pc[h] = "closed"
    /\ c.acc # "stat" /\ BelowBound(c.path)
    /\ c.path \in dentry
    /\ Goto(h, "open")
    /\ call' = [call EXCEPT ![h] = [c EXCEPT !.flags = c.flags \ {"O_CREAT"}]]
    /\ UNCHANGED <<table, disk, store, fh, private, gcvars>>

KernelForget(p) ==
    /\ p \in dentry
    /\ dentry' = dentry \ {p}
    /\ UNCHANGED <<table, disk, remote, pc, call, fh, private, gcvars>>

-----------------------------------------------------------------------------
(* dfs_getattr (getattr.c), as the kernel's lookup uses it.                *)

(* The file exists: the kernel remembers the name and sends the open, from *)
(* which it strips O_CREAT.                                                *)
Found(h) ==
    IF call[h].acc = "stat"
    THEN Return(h) /\ UNCHANGED dentry
    ELSE /\ Goto(h, "open")
         /\ dentry' = dentry \cup {PathOf(h)}
         /\ call' = [call EXCEPT ![h].flags = Flags(h) \ {"O_CREAT"}]
         /\ fh' = [fh EXCEPT ![h] = NULL]
         /\ UNCHANGED private

(* ENOENT: with O_CREAT the kernel goes on with a create request.          *)
NotFound(h) ==
    IF call[h].acc # "stat" /\ Creating(h)
    THEN /\ Goto(h, "open")
         /\ fh' = [fh EXCEPT ![h] = NULL]
         /\ UNCHANGED <<call, private>>
    ELSE Return(h)

(* Mutant: the table is not searched before an entry is inserted.          *)
dfs_getattr_mutated(h) ==
    /\ pc[h] = "getattr"
    /\ Goto(h, "getattr_insert")
    /\ UNCHANGED <<table, disk, store, call, fh, private, gcvars>>

dfs_getattr(h) ==
    /\ pc[h] = "getattr"
    /\ IF hash[PathOf(h)] # NULL
       THEN Goto(h, "stat") /\ fh' = [fh EXCEPT ![h] = hash[PathOf(h)]]
       ELSE Goto(h, "getattr_insert") /\ UNCHANGED fh
    /\ UNCHANGED <<table, disk, store, call, private, gcvars>>

getattr_insert(h) ==
    /\ pc[h] = "getattr_insert"
    /\ \/ \E x \in Pe : /\ FreePe(x)
                        /\ hash_insert(PathOf(h), x)
                        /\ fh' = [fh EXCEPT ![h] = x]
                        /\ Goto(h, "stat")
                        /\ UNCHANGED <<call, private>>
       \/ "alloc" \in Faults /\ Return(h) /\ UNCHANGED table
    /\ UNCHANGED <<disk, store, gcvars>>

(* Mutant: the placeholder is not looked at, every lookup goes to the      *)
(* store.                                                                  *)
getattr_dispatch_mutated(h) ==
    /\ pc[h] = "stat" /\ Live(fh[h])
    /\ Goto(h, "unset")
    /\ UNCHANGED <<table, disk, store, call, fh, private, gcvars>>

(* The dispatch on the placeholder, with getattr_local and getattr_remote. *)
getattr_dispatch(h) ==
    LET pe == cell[fh[h]] IN
    /\ pc[h] = "stat" /\ Live(fh[h])
    /\ \/ pe.ondisk = "FILE_LOCAL" /\ pe.fd # NULL /\ Found(h)
       \/ /\ pe.ondisk = "FILE_LOCAL"
          /\ pe.fd = NULL \/ "fstat" \in Faults
          /\ Return(h) /\ UNCHANGED dentry
       \/ pe.ondisk = "FILE_REMOTE" /\ Found(h)
       \/ /\ pe.ondisk = "FILE_UNSET"
          /\ Goto(h, "unset")
          /\ UNCHANGED <<call, fh, private, dentry>>
    /\ UNCHANGED <<table, disk, remote, gcvars>>

getattr_unset(h) ==
    /\ pc[h] = "unset"
    /\ \/ remote[PathOf(h)] # NULL /\ Goto(h, "mark")
          /\ UNCHANGED <<call, fh, private>>
       \/ remote[PathOf(h)] = NULL /\ NotFound(h)
       \/ "namei" \in Faults /\ Return(h)
    /\ UNCHANGED <<table, disk, store, gcvars>>

(* The placeholder read by getattr_dispatch is overwritten, whatever it    *)
(* has become since.                                                       *)
getattr_mark(h) ==
    /\ pc[h] = "mark" /\ Live(fh[h])
    /\ pentry_set_placeholder(fh[h], "FILE_REMOTE")
    /\ Found(h)
    /\ UNCHANGED <<hash, disk, remote, gcvars>>
-----------------------------------------------------------------------------
(* dfs_open (open.c), called by FUSE or by dfs_create.                     *)

dfs_open(h) ==
    /\ pc[h] = "open" /\ WorkerFree
    /\ IF hash[PathOf(h)] # NULL
       THEN Goto(h, "incref") /\ fh' = [fh EXCEPT ![h] = hash[PathOf(h)]]
       ELSE Goto(h, "populate") /\ UNCHANGED fh
    /\ UNCHANGED <<table, disk, store, call, private, gcvars>>

(* dfs_create first looks the name up in the store, unless it is excluded, *)
(* and gives up when that fails; otherwise it calls dfs_open.              *)
create_namei(h) ==
    /\ pc[h] = "open" /\ WorkerFree
    /\ Creating(h) /\ PathOf(h) \notin Excluded
    /\ "namei" \in Faults
    /\ Return(h)
    /\ UNCHANGED <<table, disk, store, gcvars>>

populate_hash(h) ==
    /\ pc[h] = "populate"
    /\ \/ \E x \in Pe : /\ FreePe(x)
                        /\ hash_insert(PathOf(h), x)
                        /\ fh' = [fh EXCEPT ![h] = x]
                        /\ Goto(h, "incref")
                        /\ UNCHANGED <<call, private>>
       \/ "alloc" \in Faults /\ Return(h) /\ UNCHANGED table
    /\ UNCHANGED <<disk, store, gcvars>>

(* fn[mode]: open_creat, or open_rdonly and open_rdwr.                     *)
FirstStep(h) == IF Mode(h) = "MODE_CREAT" THEN "creat" ELSE "existing"

(* Mutant: no mode locks the cell.                                         *)
open_incref_mutated(h) ==
    /\ pc[h] = "incref" /\ Live(fh[h])
    /\ pentry_inc_refcount(fh[h])
    /\ Goto(h, FirstStep(h))
    /\ UNCHANGED <<hash, disk, store, call, fh, private, gcvars>>

open_incref(h) ==
    /\ pc[h] = "incref" /\ Live(fh[h])
    /\ pentry_inc_refcount(fh[h])
    /\ Goto(h, IF NeedsLock(h) THEN "lock" ELSE FirstStep(h))
    /\ UNCHANGED <<hash, disk, store, call, fh, private, gcvars>>

(* dfs_open returns -1.  FUSE does not release a file that did not open;   *)
(* dfs_create does not look at the value and goes on with the cell.        *)
OpenFails(h) ==
    IF Creating(h)
    THEN /\ Goto(h, "create")
         /\ lfd' = [lfd EXCEPT ![h] = NULL]
         /\ etag' = [etag EXCEPT ![h] = NULL]
         /\ UNCHANGED <<call, fh, wrote>>
    ELSE Return(h)

open_lock(h) ==
    /\ pc[h] = "lock" /\ Live(fh[h])
    /\ \/ /\ pentry_lock(fh[h], h)
          /\ Goto(h, FirstStep(h))
          /\ UNCHANGED <<call, fh, private>>
       \/ /\ "lock" \in Faults
          /\ pentry_dec_refcount(fh[h])
          /\ OpenFails(h)
    /\ UNCHANGED <<hash, disk, store, gcvars>>

(* Mutant: pentry_set_fd is missing.                                       *)
open_creat_mutated(h) ==
    /\ pc[h] = "creat" /\ Live(fh[h])
    /\ \E i \in Inode : OpenTrunc(PathOf(h), i, "empty")
    /\ Update(fh[h], [cell[fh[h]] EXCEPT !.flag = "FLAG_DIRTY"])
    /\ Goto(h, "placeholder")
    /\ UNCHANGED <<hash, store, call, fh, private, gcvars>>

(* The descriptor the cell had is overwritten, not closed.                 *)
open_creat(h) ==
    /\ pc[h] = "creat" /\ Live(fh[h])
    /\ \/ \E i \in Inode :
            /\ OpenTrunc(PathOf(h), i, "empty")
            /\ Update(fh[h], [cell[fh[h]] EXCEPT
                                 !.fd = [ino |-> i, mode |-> "O_RDWR"],
                                 !.flag = "FLAG_DIRTY"])
            /\ Goto(h, "placeholder")
            /\ UNCHANGED <<call, fh, private>>
       \/ "open" \in Faults /\ OpenFails(h) /\ UNCHANGED <<cell, disk>>
    /\ UNCHANGED <<hash, store, gcvars>>

(* open_rdwr marks the cell dirty once open_existing succeeded.            *)
OpenFlag(h) ==
    IF Mode(h) = "MODE_RDONLY" THEN cell[fh[h]].flag ELSE "FLAG_DIRTY"

(* open_existing: an open descriptor is used as it is.                     *)
open_existing(h) ==
    LET pe == cell[fh[h]] IN
    /\ pc[h] = "existing" /\ Live(fh[h])
    /\ IF pe.fd = NULL
       THEN Goto(h, "headers") /\ UNCHANGED cell
       ELSE /\ Goto(h, "placeholder")
            /\ Update(fh[h], [pe EXCEPT !.flag = OpenFlag(h)])
    /\ UNCHANGED <<hash, disk, store, call, fh, private, gcvars>>

-----------------------------------------------------------------------------
(* dfs_get_local_copy (file.c), of an object that is neither compressed    *)
(* nor encrypted.                                                          *)

(* Mutant: the copy goes on without headers.                               *)
download_headers_mutated(h) ==
    /\ pc[h] = "headers"
    /\ etag' = [etag EXCEPT ![h] = remote[PathOf(h)]]
    /\ Goto(h, "digest")
    /\ UNCHANGED <<table, disk, store, call, fh, lfd, wrote, gcvars>>

download_headers(h) ==
    /\ pc[h] = "headers"
    /\ \/ /\ remote[PathOf(h)] # NULL
          /\ etag' = [etag EXCEPT ![h] = remote[PathOf(h)]]
          /\ Goto(h, "digest")
          /\ UNCHANGED <<call, fh, lfd, wrote>>
       \/ /\ remote[PathOf(h)] = NULL \/ "namei" \in Faults
          /\ OpenFails(h)
    /\ UNCHANGED <<table, disk, store, gcvars>>

(* An uninitialised digest may compare equal or not.                       *)
compare_digests(h) ==
    LET pe == cell[fh[h]] IN
    /\ pc[h] = "digest" /\ Live(fh[h])
    /\ \/ /\ pe.ondisk = "FILE_LOCAL" /\ pe.digest \in {etag[h], "garbage"}
          /\ IF pe.fd = NULL THEN OpenFails(h)
             ELSE /\ lfd' = [lfd EXCEPT ![h] = pe.fd]
                  /\ Goto(h, "set_fd")
                  /\ UNCHANGED <<call, fh, etag, wrote>>
          /\ UNCHANGED cell
       \/ /\ pe.ondisk = "FILE_LOCAL" => pe.digest # etag[h]
          /\ Update(fh[h], [pe EXCEPT !.digest = IF pe.ondisk = "FILE_LOCAL"
                                                 THEN etag[h] ELSE pe.digest])
          /\ Goto(h, "discard")
          /\ UNCHANGED <<call, fh, private>>
    /\ UNCHANGED <<hash, disk, store, gcvars>>

(* A file already in the cache directory is unlinked.                      *)
copy_discard(h) ==
    /\ pc[h] = "discard"
    /\ local' = [local EXCEPT ![PathOf(h)] = NULL]
    /\ Goto(h, "download")
    /\ UNCHANGED <<table, data, young, store, call, fh, private, gcvars>>

copy_download(h) ==
    /\ pc[h] = "download"
    /\ \/ \E i \in Inode :
            /\ OpenTrunc(PathOf(h), i, "partial")
            /\ lfd' = [lfd EXCEPT ![h] = [ino |-> i, mode |-> "O_RDWR"]]
            /\ Goto(h, "fetch")
            /\ UNCHANGED <<call, fh, etag, wrote>>
       \/ "open" \in Faults /\ OpenFails(h) /\ UNCHANGED disk
    /\ UNCHANGED <<table, store, gcvars>>

(* Mutant: a failed dpl_openread is not noticed.                           *)
copy_fetch_mutated(h) ==
    /\ pc[h] = "fetch"
    /\ \/ data' = [data EXCEPT ![lfd[h].ino] = remote[PathOf(h)]]
       \/ "read" \in Faults /\ UNCHANGED data
    /\ lfd' = [lfd EXCEPT ![h] = NULL]
    /\ Goto(h, "reopen")
    /\ UNCHANGED <<table, local, young, store, call, fh, etag, wrote, gcvars>>

(* dpl_openread fills the file through cb_get_buffered; it is then closed. *)
copy_fetch(h) ==
    /\ pc[h] = "fetch"
    /\ \/ /\ data' = [data EXCEPT ![lfd[h].ino] = remote[PathOf(h)]]
          /\ lfd' = [lfd EXCEPT ![h] = NULL]
          /\ Goto(h, "reopen")
          /\ UNCHANGED <<call, fh, etag, wrote>>
       \/ "read" \in Faults /\ OpenFails(h) /\ UNCHANGED data
    /\ UNCHANGED <<table, local, young, store, gcvars>>

(* The file is opened again by its name.                                   *)
copy_reopen(h) ==
    LET i == local[PathOf(h)] IN
    /\ pc[h] = "reopen"
    /\ \/ /\ i # NULL
          /\ lfd' = [lfd EXCEPT ![h] = [ino |-> i, mode |-> open_flags(Mode(h))]]
          /\ Goto(h, "set_fd")
          /\ UNCHANGED <<call, fh, etag, wrote>>
       \/ (i = NULL \/ "open" \in Faults) /\ OpenFails(h)
    /\ UNCHANGED <<table, disk, store, gcvars>>

open_set_fd(h) ==
    /\ pc[h] = "set_fd" /\ Live(fh[h])
    /\ Update(fh[h], [cell[fh[h]] EXCEPT !.fd = lfd[h], !.flag = OpenFlag(h)])
    /\ lfd' = [lfd EXCEPT ![h] = NULL]
    /\ etag' = [etag EXCEPT ![h] = NULL]
    /\ Goto(h, "placeholder")
    /\ UNCHANGED <<hash, disk, store, call, fh, wrote, gcvars>>

open_placeholder(h) ==
    /\ pc[h] = "placeholder" /\ Live(fh[h])
    /\ pentry_set_placeholder(fh[h], "FILE_LOCAL")
    /\ Goto(h, IF Creating(h) THEN "create" ELSE "opened")
    /\ UNCHANGED <<hash, disk, store, call, fh, private, gcvars>>

-----------------------------------------------------------------------------
(* Mutant: pentry_set_exclude is missing.                                  *)
dfs_create_mutated(h) ==
    LET excluded == PathOf(h) \in Excluded IN
    /\ pc[h] = "create" /\ Live(fh[h])
    /\ \/ /\ cell[fh[h]].fd = NULL \/ "fstat" \in Faults
          /\ Return(h) /\ UNCHANGED dentry
       \/ /\ cell[fh[h]].fd # NULL
          /\ Goto(h, IF excluded THEN "opened" ELSE "mknod")
          /\ dentry' = IF excluded THEN dentry \cup {PathOf(h)} ELSE dentry
          /\ UNCHANGED <<call, fh, private>>
    /\ UNCHANGED <<table, disk, remote, gcvars>>

(* dfs_create (create.c) after its call of dfs_open.                       *)
dfs_create(h) ==
    LET excluded == PathOf(h) \in Excluded
        pe == cell[fh[h]] IN
    /\ pc[h] = "create" /\ Live(fh[h])
    /\ Update(fh[h], [pe EXCEPT !.exclude = IF excluded THEN 1 ELSE 0])
    /\ \/ /\ pe.fd = NULL \/ "fstat" \in Faults
          /\ Return(h) /\ UNCHANGED dentry
       \/ /\ pe.fd # NULL
          /\ Goto(h, IF excluded THEN "opened" ELSE "mknod")
          /\ dentry' = IF excluded THEN dentry \cup {PathOf(h)} ELSE dentry
          /\ UNCHANGED <<call, fh, private>>
    /\ UNCHANGED <<hash, disk, remote, gcvars>>

create_mknod(h) ==
    /\ pc[h] = "mknod"
    /\ \/ /\ remote' = [remote EXCEPT ![PathOf(h)] = "empty"]
          /\ dentry' = dentry \cup {PathOf(h)}
          /\ Goto(h, "opened")
          /\ UNCHANGED <<call, fh, private>>
       \/ "mknod" \in Faults /\ Return(h) /\ UNCHANGED store
    /\ UNCHANGED <<table, disk, gcvars>>

(* dfs_write goes to the descriptor the cell has now.  It refreshes two of *)
(* the three time stamps; the third may be recent too.                     *)
dfs_write(h) ==
    LET d == cell[fh[h]].fd IN
    /\ pc[h] = "opened" /\ WorkerFree /\ Live(fh[h])
    /\ call[h].acc # "O_RDONLY"
    /\ d # NULL /\ d.mode = "O_RDWR"
    /\ data' = [data EXCEPT ![d.ino] = h]
    /\ young' \in {young, young \cup {d.ino}}
    /\ wrote' = [wrote EXCEPT ![h] = 1]
    /\ UNCHANGED <<table, local, store, pc, call, fh, lfd, etag, gcvars>>

-----------------------------------------------------------------------------
(* dfs_release (release.c), without compression.                           *)
dfs_release(h) ==
    LET d == cell[fh[h]].fd IN
    /\ pc[h] = "opened" /\ WorkerFree /\ Live(fh[h])
    /\ \/ /\ d # NULL
          /\ lfd' = [lfd EXCEPT ![h] = d]
          /\ Goto(h, "decref")
       \/ /\ d = NULL \/ "fstat" \in Faults
          /\ Goto(h, "clean") /\ UNCHANGED lfd
    /\ UNCHANGED <<table, disk, store, call, fh, etag, wrote, gcvars>>

release_decref(h) ==
    /\ pc[h] = "decref" /\ Live(fh[h])
    /\ pentry_dec_refcount(fh[h])
    /\ \/ ReadOnlyRelease(h) /\ Return(h)
       \/ /\ ~ReadOnlyRelease(h)
          /\ Goto(h, IF cell[fh[h]].exclude = 1 THEN "clean" ELSE "send")
          /\ UNCHANGED <<call, fh, private>>
    /\ UNCHANGED <<hash, disk, store, gcvars>>

(* Mutant: a file the handle has not written is not sent.                  *)
release_send_mutated(h) ==
    /\ pc[h] = "send"
    /\ \/ wrote[h] = 1 /\ remote' = [remote EXCEPT ![PathOf(h)] = data[lfd[h].ino]]
       \/ wrote[h] = 0 /\ UNCHANGED remote
    /\ Goto(h, "clean")
    /\ UNCHANGED <<table, disk, dentry, call, fh, private, gcvars>>

release_send(h) ==
    /\ pc[h] = "send"
    /\ \/ remote' = [remote EXCEPT ![PathOf(h)] = data[lfd[h].ino]]
       \/ "upload" \in Faults /\ UNCHANGED remote
    /\ Goto(h, "clean")
    /\ UNCHANGED <<table, disk, dentry, call, fh, private, gcvars>>

release_clean(h) ==
    /\ pc[h] = "clean" /\ Live(fh[h])
    /\ Update(fh[h], [cell[fh[h]] EXCEPT !.flag = "FLAG_CLEAN", !.mutex = NULL])
    /\ Return(h)
    /\ UNCHANGED <<hash, disk, store, gcvars>>

-----------------------------------------------------------------------------
(* The handler of h is about to follow a pointer to a freed cell.          *)
DerefPc == {"stat", "mark", "incref", "lock", "creat", "existing", "digest",
            "set_fd", "placeholder", "create", "opened", "decref", "clean"}

UseAfterFree(h) ==
    /\ pc[h] \in DerefPc /\ ~Live(fh[h])
    /\ Goto(h, "undefined")
    /\ UNCHANGED <<table, disk, store, call, fh, private, gcvars>>

-----------------------------------------------------------------------------
(* thread_gc and gc_callback (gc.c).  A collector whose cell was freed     *)
(* under it stays where it is: nothing more is said of it.                 *)

(* g_hash_table_foreach calls gc_callback for the entries in some order.   *)
gc_callback(p) ==
    /\ GcOn /\ gcpc = "idle" /\ hash[p] # NULL
    /\ cell[hash[p]].refcount = 0
    /\ gcpc' = "trylock" /\ gcpe' = hash[p] /\ gcpath' = p
    /\ UNCHANGED <<table, disk, store, pc, call, fh, private>>

GcReturn == gcpc' = "idle" /\ gcpe' = NULL /\ gcpath' = NULL

(* Mutant: the result of pentry_trylock is not looked at.                  *)
gc_trylock_mutated ==
    /\ gcpc = "trylock" /\ Live(gcpe)
    /\ gcpc' = "check"
    /\ UNCHANGED <<table, disk, store, pc, call, fh, private, gcpe, gcpath>>

gc_trylock ==
    /\ gcpc = "trylock" /\ Live(gcpe)
    /\ \/ /\ pentry_lock(gcpe, Gc)
          /\ gcpc' = "check" /\ UNCHANGED <<gcpe, gcpath>>
       \/ cell[gcpe].mutex # NULL /\ GcReturn /\ UNCHANGED cell
    /\ UNCHANGED <<hash, disk, store, pc, call, fh, private>>

(* Mutant: a cell that is kept stays locked.                               *)
gc_check_mutated ==
    LET d == cell[gcpe].fd IN
    /\ gcpc = "check" /\ Live(gcpe)
    /\ \/ (d # NULL => d.ino \in young) /\ GcReturn
       \/ /\ d # NULL
          /\ d.ino \notin young \/ "fstat" \in Faults
          /\ gcpc' = "unlink" /\ UNCHANGED <<gcpe, gcpath>>
    /\ UNCHANGED <<table, disk, store, pc, call, fh, private>>

(* A file is kept when all its time stamps are recent.                     *)
gc_check ==
    LET d == cell[gcpe].fd IN
    /\ gcpc = "check" /\ Live(gcpe)
    /\ \/ /\ d # NULL => d.ino \in young
          /\ pentry_unlock(gcpe) /\ GcReturn
       \/ /\ d # NULL
          /\ d.ino \notin young \/ "fstat" \in Faults
          /\ gcpc' = "unlink" /\ UNCHANGED <<cell, gcpe, gcpath>>
    /\ UNCHANGED <<hash, disk, store, pc, call, fh, private>>

gc_unlink ==
    /\ gcpc = "unlink"
    /\ local' = [local EXCEPT ![gcpath] = NULL]
    /\ gcpc' = "remove"
    /\ UNCHANGED <<table, data, young, store, pc, call, fh, private, gcpe, gcpath>>

(* The entry is removed by its name.                                       *)
gc_remove ==
    /\ gcpc = "remove"
    /\ hash_remove(gcpath)
    /\ GcReturn
    /\ UNCHANGED <<disk, store, pc, call, fh, private>>

(* Time passes: one of the time stamps of i reaches the threshold.         *)
Age(i) ==
    /\ i \in young
    /\ young' = young \ {i}
    /\ UNCHANGED <<table, local, data, store, pc, call, fh, private, gcvars>>

-----------------------------------------------------------------------------
Getattr(h) == \/ dfs_getattr(h) \/ getattr_insert(h) \/ getattr_dispatch(h)
              \/ getattr_unset(h) \/ getattr_mark(h)

Open(h) == \/ populate_hash(h) \/ open_incref(h) \/ open_lock(h)
           \/ open_creat(h) \/ open_existing(h) \/ download_headers(h)
           \/ compare_digests(h) \/ copy_discard(h) \/ copy_download(h)
           \/ copy_fetch(h) \/ copy_reopen(h) \/ open_set_fd(h)
           \/ open_placeholder(h) \/ dfs_create(h) \/ create_mknod(h)

Release(h) == release_decref(h) \/ release_send(h) \/ release_clean(h)

(* The rest of a request a worker has begun.                               *)
Working(h) == Getattr(h) \/ Open(h) \/ Release(h) \/ UseAfterFree(h)

Kernel(h) == \E c \in Calls :
    KernelLookup(h, c) \/ KernelStat(h, c) \/ KernelOpen(h, c)

GcStep == gc_trylock \/ gc_check \/ gc_unlink \/ gc_remove

Next ==
    \/ \E h \in Handle : \/ Kernel(h) \/ dfs_open(h) \/ create_namei(h)
                         \/ Working(h) \/ dfs_write(h) \/ dfs_release(h)
    \/ \E p \in Path : KernelForget(p) \/ gc_callback(p)
    \/ GcStep
    \/ \E i \in Inode : Age(i)

Spec == Init /\ [][Next]_vars

(***************************************************************************)
(* Fairness: the system runs its threads, an application closes what it    *)
(* opened, the collector comes by every gc_loop_delay seconds, time        *)
(* passes.  Nothing obliges an application to make a new call, and a       *)
(* handler waiting for a mutex is only owed it while the mutex is free.    *)
(***************************************************************************)
Fairness ==
    /\ \A h \in Handle : /\ WF_vars(dfs_open(h))
                         /\ WF_vars(Working(h))
                         /\ WF_vars(dfs_release(h))
    /\ \A p \in Path : WF_vars(gc_callback(p))
    /\ WF_vars(GcStep)
    /\ \A i \in Inode : WF_vars(Age(i))

FairSpec == Spec /\ Fairness
-----------------------------------------------------------------------------
DiskTypeOK ==
    /\ local \in [Path -> Inode \cup {NULL}]
    /\ data \in [Inode -> Content]
    /\ young \subseteq Inode

StoreTypeOK ==
    /\ remote \in [Path -> Content \cup {NULL}]
    /\ dentry \subseteq Path

HandleTypeOK ==
    /\ pc \in [Handle -> Pc]
    /\ call \in [Handle -> Call \cup {NULL}]
    /\ fh \in [Handle -> Pe \cup {NULL}]
    /\ lfd \in [Handle -> Descriptor \cup {NULL}]
    /\ etag \in [Handle -> Content \cup {NULL}]
    /\ wrote \in [Handle -> {0, 1}]

(* What a handler at a given pc has in its local variables.                *)
LocalsOK(h) ==
    /\ pc[h] = "closed" <=> call[h] = NULL
    /\ fh[h] = NULL <=> pc[h] \in NoCellPc
    /\ pc[h] \in CopyPc => remote[PathOf(h)] # NULL
    /\ pc[h] \in {"fetch", "set_fd", "decref", "send"} => lfd[h] # NULL
    /\ pc[h] = "digest" => etag[h] # NULL

GcTypeOK ==
    /\ gcpc \in {"idle", "trylock", "check", "unlink", "remove"}
    /\ gcpe \in Pe \cup {NULL}
    /\ gcpath \in Path \cup {NULL}
    /\ gcpc # "idle" => gcpe # NULL /\ gcpath # NULL

(* The type of the state, with what each handler's pc says of the pointer, *)
(* descriptor and headers it holds.                                        *)
TypeOK ==
    /\ HashTypeOK
    /\ DiskTypeOK
    /\ StoreTypeOK
    /\ HandleTypeOK
    /\ \A h \in Handle : LocalsOK(h)
    /\ GcTypeOK

(* Where dfs_open has locked the cell, if it does, and has not unlocked it. *)
OwnerPc == (OpenPc \ {"populate", "incref", "lock"}) \cup ReleasePc \cup {"opened"}

(* Where dfs_open has counted the handle and dfs_release not yet.          *)
CountedPc == (OpenPc \ {"populate", "incref"}) \cup {"opened", "decref"}

Counted(x) == {h \in Handle : fh[h] = x /\ pc[h] \in CountedPc}
Writer(h)  == call[h] # NULL /\ NeedsLock(h)

(* A handle that dfs_open or dfs_create reported open has a descriptor in  *)
(* its cell, and so has every cell whose placeholder says FILE_LOCAL, the  *)
(* one getattr_local and compare_digests go by: neither a failed step of   *)
(* an open nor another handle's open takes it away.                        *)
OpenHasFd ==
    /\ \A h \in Handle :
        pc[h] \in {"placeholder", "mknod", "opened", "decref"} /\ Live(fh[h])
            => cell[fh[h]].fd # NULL
    /\ \A x \in Pe : cell[x].ondisk = "FILE_LOCAL" => cell[x].fd # NULL

(* Two handles whose mode is not read-only are never both past pentry_lock *)
(* and before pentry_unlock on the same cell.                              *)
WriterExclusion ==
    \A g, h \in Handle :
        /\ pc[g] \in OwnerPc /\ Writer(g)
        /\ pc[h] \in OwnerPc /\ Writer(h)
        /\ fh[g] = fh[h] /\ Live(fh[h])
        => g = h

(* The semaphore gc_callback reads is never below the number of handles    *)
(* that have the cell open, through failed opens, creates and releases.    *)
RefcountCoversHandles ==
    \A x \in Pe : Live(x) => Cardinality(Counted(x)) <= cell[x].refcount

(* No handler, and not the collector, follows a pointer to a freed cell.   *)
NoUseAfterFree ==
    /\ \A h \in Handle : pc[h] # "undefined"
    /\ gcpc \in {"trylock", "check"} => Live(gcpe)

(* What gc_callback unlinks and removes is the cell it has locked, still   *)
(* the path's entry, and no handle that may write has it open.             *)
GcRemovesWhatItLocked ==
    gcpc \in {"unlink", "remove"} =>
        /\ hash[gcpath] = gcpe
        /\ cell[gcpe].mutex = Gc
        /\ \A h \in Handle : ~(pc[h] \in OwnerPc /\ Writer(h) /\ fh[h] = gcpe)

(* The cell of an open handle that may write is not freed: the mutex it    *)
(* holds keeps gc_callback away.                                           *)
OpenWriterKept ==
    \A h \in Handle : pc[h] \in OwnerPc /\ Writer(h) => Live(fh[h])

(* What an open handle reads from the cache is a whole file, never one     *)
(* whose download has not finished or has failed half way.                 *)
WholeFile ==
    \A h \in Handle :
        pc[h] = "opened" /\ Live(fh[h]) => data[cell[fh[h]].fd.ino] # "partial"

(* What an earlier mount left in the cache directory is never served: a    *)
(* cache file is truncated or replaced before a handle opens.              *)
NoStaleServed ==
    \A h \in Handle :
        pc[h] = "opened" /\ Live(fh[h]) => data[cell[fh[h]].fd.ino] # "stale"

(* No release sends an unfinished download or a left-over to the store.    *)
RemoteWhole == \A p \in Path : remote[p] \notin {"partial", "stale"}

(* The placeholder of a cell whose file is in the cache is not set back:   *)
(* the window of getattr_unset, between reading FILE_UNSET and writing     *)
(* FILE_REMOTE, never contains another handle's open.                      *)
LocalNotForgotten ==
    [][\A x \in Pe :
        cell[x].ondisk = "FILE_LOCAL" /\ cell'[x].state = "live"
            => cell'[x].ondisk = "FILE_LOCAL"]_vars

(* A file that matches the exclusion pattern and is not in the store does  *)
(* not get there, through any open, reopen or failed create of it.         *)
ExcludedStaysLocal ==
    [][\A p \in Excluded : remote[p] = NULL => remote'[p] = NULL]_vars

(* The descriptor of a handle opened for writing can be written to.        *)
WritersCanWrite ==
    \A h \in Handle :
        pc[h] = "opened" /\ Live(fh[h]) /\ call[h].acc # "O_RDONLY"
            => cell[fh[h]].fd.mode = "O_RDWR"

(* gc.c: a cell that is open, for reading or for writing, is not touched   *)
(* by the collector: no step frees the cell of an open handle.             *)
OpenCellsKept ==
    [][\A h \in Handle :
        pc[h] = "opened" /\ Live(fh[h]) => cell'[fh[h]].state = "live"]_vars

(* A cached file nobody uses is removed once it is old (README, garbage    *)
(* collection), whatever opens, failed or not, came before.                *)
OldFilesCollected ==
    \A p \in Path :
        []<>(\/ local[p] = NULL
             \/ data[local[p]] = "stale"
             \/ \E h \in Handle : call[h] # NULL /\ call[h].path = p)
=============================================================================
