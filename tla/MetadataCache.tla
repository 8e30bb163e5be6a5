---------------------------- MODULE MetadataCache ----------------------------
(***************************************************************************)
(* The attributes dropletfs keeps in the cells of its table: how lookups,  *)
(* stat, creat, opendir and unlink use and replace them (getattr.c,        *)
(* create.c, opendir.c, unlink.c, hash.c), while the updater visits the    *)
(* cells and a pool of threads refreshes the old ones (cachedir.c).        *)
(*                                                                         *)
(* These are the fields of struct pentry that Pentry leaves out; of the    *)
(* file cache only the placeholder is here.  Requests and pool threads are *)
(* Threads.  A thread that follows a pointer to released memory, or        *)
(* releases it again, has undefined behaviour: its pc becomes "undefined", *)
(* and the program has crashed.                                            *)
(***************************************************************************)
EXTENDS Naturals, Sequences, FiniteSets

CONSTANTS
    Path, Pe,
    Request,      \* FUSE worker threads
    Worker,       \* threads of the pool (50 in the code)
    Root,         \* "/"
    Dir,          \* the directories, which stay
    Parent,       \* path -> its directory
    MaxCells,     \* how many cells conf->cache_max_size allows
    MaxChanges,   \* bound: changes other clients make to the store
    MaxUnlinks,   \* bound: unlinks
    MaxQueue,     \* bound: the updater waits when the pool has so many tasks
    Freed,        \* a dictionary that has been released
    NULL

Kind == {"lookup", "stat", "creat", "opendir", "unlink", "map"}

ASSUME MetadataAssumption ==
    /\ Root \in Dir /\ Dir \subseteq Path
    /\ Parent \in [Path \ {Root} -> Dir]
    /\ {MaxCells, MaxChanges, MaxUnlinks, MaxQueue} \subseteq Nat
    /\ {NULL, Freed} \cap (Path \cup Pe \cup Request \cup Worker \cup Nat) = {}
    /\ NULL \notin [kind : Kind, path : Path] /\ NULL # Freed
    /\ Request \cap Worker = {}

VARIABLES
    hash,     \* path -> cell
    cell,     \* cell -> the fields of struct pentry
    attrs,    \* store: path -> version of its attributes, NULL: no object
    known,    \* names the kernel remembers
    pc,       \* thread -> where it is
    call,     \* thread -> what it serves, and its path argument; a pool
              \* thread: the entry it maps
    pe,       \* thread -> its pointer to a cell (pe)
    at,       \* pool thread -> the cell it refreshes, pe or pe_dirent
    meta,     \* thread -> metadata, what the store has answered
    todo,     \* pool thread -> entries list_map has not reached
    queue,    \* tasks of the pool
    changes, unlinks

table  == <<hash, cell>>
store  == <<attrs, known, changes, unlinks>>
thread == <<pc, call, pe, at, meta, todo>>
vars   == <<table, store, thread, queue>>

Thread  == Request \cup Worker
Version == 0..MaxChanges
PathOf(t) == call[t].path

Cell == [state    : {"live", "free"},
         ondisk   : {"FILE_UNSET", "FILE_LOCAL", "FILE_REMOTE"},
         filetype : {"FILE_REG", "FILE_DIR", "garbage"},
         metadata : Version \cup {NULL, Freed},
         md_mutex : Thread \cup {NULL},
         old      : BOOLEAN,      \* age >= conf->sc_age_threshold
         dirent   : SUBSET Path]

(* pentry_new leaves atime and filetype uninitialised (Age may come at     *)
(* once).                                                                  *)
pentry_new(type) ==
    [state |-> "live", ondisk |-> "FILE_UNSET", filetype |-> type,
     metadata |-> NULL, md_mutex |-> NULL, old |-> FALSE, dirent |-> {}]

pentry_free == [pentry_new("garbage") EXCEPT !.state = "free"]

Live(x)   == cell[x].state = "live"
FreePe(x) ==
    /\ ~Live(x) /\ \A t \in Thread : x \notin {pe[t], at[t]}
    /\ \A i \in 1..Len(queue) : queue[i] # x

Goto(t, s)      == pc' = [pc EXCEPT ![t] = s]
Set(x, field, v) == cell' = [cell EXCEPT ![x][field] = v]

(* The thread is done: its local variables are gone.                       *)
Leave(t) ==
    /\ Goto(t, "idle")
    /\ call' = [call EXCEPT ![t] = NULL] /\ pe' = [pe EXCEPT ![t] = NULL]
    /\ at' = [at EXCEPT ![t] = NULL] /\ meta' = [meta EXCEPT ![t] = NULL]
    /\ todo' = [todo EXCEPT ![t] = {}]

Init ==
    /\ hash = [p \in Path |-> NULL] /\ cell = [x \in Pe |-> pentry_free]
    /\ attrs \in {a \in [Path -> {0, NULL}] : \A d \in Dir : a[d] = 0}
    /\ known = {} /\ changes = 0 /\ unlinks = 0
    /\ pc   = [t \in Thread |-> "idle"]
    /\ call = [t \in Thread |-> NULL] /\ pe = call /\ at = call /\ meta = call
    /\ todo = [t \in Thread |-> {}]
    /\ queue = <<>>

-----------------------------------------------------------------------------
(* Other clients of the store change the attributes of a file, remove it   *)
(* or make it.                                                             *)
OtherClient(p) ==
    /\ p \notin Dir /\ changes < MaxChanges
    /\ changes' = changes + 1
    /\ \/ attrs' = [attrs EXCEPT ![p] = changes + 1]
       \/ attrs[p] # NULL /\ attrs' = [attrs EXCEPT ![p] = NULL]
    /\ UNCHANGED <<table, known, unlinks, thread, queue>>

(* The kernel runs one lookup, creation or removal of a name at a time; a  *)
(* name it knows needs no lookup, and its stat waits for nothing.  (It may *)
(* forget a name: the next lookup then does what a stat does.)             *)
NameHeld(p) ==
    \E r \in Request : call[r] # NULL /\ PathOf(r) = p
                      /\ call[r].kind \in {"lookup", "creat", "unlink"}

Begin(r, k, p, s) ==
    /\ pc[r] = "idle"
    /\ Goto(r, s) /\ call' = [call EXCEPT ![r] = [kind |-> k, path |-> p]]
    /\ UNCHANGED <<table, store, pe, at, meta, todo, queue>>

KernelLookup(r, p) ==
    /\ p \notin known \cup {Root} /\ ~NameHeld(p)
    /\ Parent[p] \in known \cup {Root}
    /\ \/ Begin(r, "lookup", p, "getattr")
       \/ p \notin Dir /\ Begin(r, "creat", p, "getattr")
KernelStat(r, p)    == p \in known /\ Begin(r, "stat", p, "getattr")
KernelOpendir(r, p) ==
    \* (one that finds a cell does nothing)
    /\ p \in Dir \cap (known \cup {Root}) /\ hash[p] = NULL
    /\ Begin(r, "opendir", p, "opendir")
KernelUnlink(r, p) ==
    /\ p \in known \ Dir /\ ~NameHeld(p) /\ unlinks < MaxUnlinks
    /\ Begin(r, "unlink", p, "unlink")

-----------------------------------------------------------------------------
(* dfs_getattr.  "/" needs no cell, and is not asked for.                  *)
(* Which free address malloc returns makes no difference.                  *)
Malloc == CHOOSE x \in Pe : FreePe(x)
CanInsert == \E x \in Pe : FreePe(x)
Insert(p, type) ==
    /\ CanInsert
    /\ hash' = [hash EXCEPT ![p] = Malloc]
    /\ cell' = [cell EXCEPT ![Malloc] = pentry_new(type)]

dfs_getattr(r) ==
    LET p == PathOf(r) IN
    /\ pc[r] = "getattr" /\ Goto(r, "dispatch")
    /\ IF hash[p] = NULL THEN Insert(p, "garbage") ELSE UNCHANGED table
    /\ pe' = [pe EXCEPT ![r] = hash'[p]]
    /\ UNCHANGED <<store, call, at, meta, todo, queue>>

(* The entry exists: the kernel remembers a name it has looked up.         *)
Found(r) ==
    known' = IF call[r].kind = "stat" THEN known ELSE known \cup {PathOf(r)}

(* The end of every request that got as far as a cell.                     *)
Return(r) == Leave(r) /\ Set(pe[r], "old", FALSE) /\ UNCHANGED hash

getattr_dispatch(r) ==
    /\ pc[r] = "dispatch" /\ Live(pe[r])
    /\ \/ /\ cell[pe[r]].ondisk = "FILE_LOCAL"
          /\ Return(r) /\ Found(r)
       \/ /\ cell[pe[r]].ondisk = "FILE_REMOTE" /\ Goto(r, "remote_lock")
          /\ UNCHANGED <<table, known, call, pe, at, meta, todo>>
       \/ /\ cell[pe[r]].ondisk = "FILE_UNSET"
          /\ Goto(r, "unset")
          /\ UNCHANGED <<table, known, call, pe, at, meta, todo>>
    /\ UNCHANGED <<attrs, changes, unlinks, queue>>

(* Mutant: the dictionary is read without waiting for the lock.            *)
getattr_remote_lock_mutated(r) ==
    /\ pc[r] = "remote_lock" /\ Live(pe[r])
    /\ Set(pe[r], "md_mutex", r)
    /\ Goto(r, "read")
    /\ UNCHANGED <<hash, store, call, pe, at, meta, todo, queue>>

(* From the lock to the unlock the handler reads the dictionary.           *)
getattr_remote_lock(r) ==
    /\ pc[r] = "remote_lock" /\ Live(pe[r])
    /\ cell[pe[r]].md_mutex = NULL /\ Set(pe[r], "md_mutex", r)
    /\ Goto(r, "read")
    /\ UNCHANGED <<hash, store, call, pe, at, meta, todo, queue>>

getattr_remote(r) ==
    LET x == pe[r] IN
    /\ pc[r] = "read" /\ Live(x)
    /\ IF cell[x].metadata = Freed
       THEN Goto(r, "undefined") /\ UNCHANGED <<table, known, call, pe, at, meta, todo>>
       ELSE /\ Leave(r) /\ Found(r)
            /\ cell' = [cell EXCEPT ![x].md_mutex = NULL, ![x].old = FALSE]
            /\ UNCHANGED hash
    /\ UNCHANGED <<attrs, changes, unlinks, queue>>

(* The store answers with the attributes, NULL for a directory.            *)
Answer(p) == IF p \in Dir THEN NULL ELSE attrs[p]

getattr_unset(r) ==
    LET p == PathOf(r) IN
    /\ pc[r] = "unset" /\ Live(pe[r])
    /\ \/ /\ attrs[p] # NULL
          /\ Goto(r, IF p \in Dir THEN "mark" ELSE "lock")
          /\ meta' = [meta EXCEPT ![r] = Answer(p)]
          /\ UNCHANGED <<table, call, pe, at, todo>>
       \/ attrs[p] = NULL /\ call[r].kind # "creat" /\ Return(r)
       \/ /\ attrs[p] = NULL /\ call[r].kind = "creat" /\ Goto(r, "create")
          /\ Set(pe[r], "old", FALSE)
          /\ UNCHANGED <<hash, call, pe, at, meta, todo>>
    /\ UNCHANGED <<store, queue>>

(* The first half of pentry_set_metadata releases the old dictionary ...   *)
ReleaseDict(t, x, owner, next) ==
    IF cell[x].metadata = Freed
    THEN Goto(t, "undefined") /\ UNCHANGED cell
    ELSE /\ Goto(t, next)
         /\ cell' = [cell EXCEPT ![x].metadata = IF @ = NULL THEN NULL ELSE Freed,
                                 ![x].md_mutex = owner]

(* Mutant: the handler does not wait for the lock.                         *)
getattr_unset_lock_mutated(r) ==
    /\ pc[r] = "lock" /\ Live(pe[r])
    /\ ReleaseDict(r, pe[r], r, "copy")
    /\ UNCHANGED <<hash, store, call, pe, at, meta, todo, queue>>

getattr_unset_lock(r) ==
    /\ pc[r] = "lock" /\ Live(pe[r])
    /\ cell[pe[r]].md_mutex = NULL
    /\ ReleaseDict(r, pe[r], r, "copy")
    /\ UNCHANGED <<hash, store, call, pe, at, meta, todo, queue>>

(* Mutant: the cell keeps the handler's dictionary, which the handler      *)
(* releases.                                                               *)
getattr_unset_set_mutated(r) ==
    /\ pc[r] = "copy" /\ Live(pe[r])
    /\ cell' = [cell EXCEPT ![pe[r]].metadata = Freed, ![pe[r]].md_mutex = NULL]
    /\ Goto(r, "mark")
    /\ UNCHANGED <<hash, store, call, pe, at, meta, todo, queue>>

(* ... and the second makes a copy of the new one; the mutex is unlocked.  *)
getattr_unset_set(r) ==
    /\ pc[r] = "copy" /\ Live(pe[r])
    /\ cell' = [cell EXCEPT ![pe[r]].metadata = meta[r], ![pe[r]].md_mutex = NULL]
    /\ Goto(r, "mark")
    /\ UNCHANGED <<hash, store, call, pe, at, meta, todo, queue>>

(* The placeholder; set_filetype_from_stat, which takes every entry for a  *)
(* regular file; hash_fill_dirent, when the directory has a cell.  An      *)
(* entry that is in the list twice is refreshed twice: a set here.         *)
getattr_mark(r) ==
    LET dir == hash[Parent[PathOf(r)]] IN
    /\ pc[r] = "mark" /\ Live(pe[r])
    /\ cell' = [x \in Pe |->
          IF x = pe[r]
          THEN [cell[x] EXCEPT !.ondisk   = IF meta[r] = NULL THEN @ ELSE "FILE_REMOTE",
                               !.filetype = "FILE_REG", !.old = FALSE]
          ELSE IF x = dir THEN [cell[x] EXCEPT !.dirent = @ \cup {PathOf(r)}]
          ELSE cell[x]]
    /\ Leave(r) /\ Found(r)
    /\ UNCHANGED <<hash, attrs, changes, unlinks, queue>>
-----------------------------------------------------------------------------
(* dfs_create, of its dfs_open only the placeholder: the lookup before has *)
(* made the cell.                                                          *)
(* meta = pentry_get_metadata(pe), or a dictionary of its own.  Nothing is *)
(* locked, and the cell's own one is released twice: by                    *)
(* pentry_set_metadata, which then copies it, and by dfs_create.           *)
dfs_create(r) ==
    LET x == hash[PathOf(r)] IN
    /\ pc[r] = "create"
    /\ pe' = [pe EXCEPT ![r] = x] /\ Set(x, "ondisk", "FILE_LOCAL")
    /\ IF cell[x].metadata = NULL
       THEN Goto(r, "create_set") /\ meta' = [meta EXCEPT ![r] = 0]
       ELSE Goto(r, "undefined") /\ UNCHANGED meta
    /\ UNCHANGED <<hash, store, call, at, todo, queue>>

create_set(r) ==
    /\ pc[r] \in {"create_set", "create_copy"} /\ Live(pe[r])
    /\ \/ /\ pc[r] = "create_set"
          /\ ReleaseDict(r, pe[r], cell[pe[r]].md_mutex, "create_copy")
       \/ pc[r] = "create_copy" /\ Set(pe[r], "metadata", meta[r]) /\ Goto(r, "mknod")
    /\ UNCHANGED <<hash, store, call, pe, at, meta, todo, queue>>

create_mknod(r) ==
    /\ pc[r] = "mknod" /\ Leave(r)
    /\ attrs' = [attrs EXCEPT ![PathOf(r)] = 0] /\ Found(r)
    /\ UNCHANGED <<table, changes, unlinks, queue>>

dfs_opendir(r) ==
    LET p == PathOf(r) IN
    /\ pc[r] = "opendir" /\ Leave(r)
    /\ IF hash[p] = NULL THEN Insert(p, "FILE_DIR") ELSE UNCHANGED table
    /\ UNCHANGED <<store, queue>>

(* dfs_unlink removes the object, then the cell, then the entry in the     *)
(* directory's list, if opendir made the directory's cell.                 *)
dfs_unlink(r) ==
    LET p == PathOf(r) IN
    /\ pc[r] = "unlink"
    /\ \/ attrs[p] = NULL /\ Leave(r) /\ UNCHANGED <<attrs, known, unlinks>>
       \/ /\ attrs[p] # NULL /\ attrs' = [attrs EXCEPT ![p] = NULL]
          /\ known' = known \ {p} /\ unlinks' = unlinks + 1
          /\ Goto(r, "remove") /\ UNCHANGED <<call, pe, at, meta, todo>>
    /\ UNCHANGED <<table, changes, queue>>

(* Mutant: the cell is freed and stays in the table.                       *)
unlink_remove_mutated(r) ==
    LET p == PathOf(r) IN
    /\ pc[r] = "remove" /\ Goto(r, "remove_dirent")
    /\ cell' = [x \in Pe |-> IF x = hash[p] THEN pentry_free ELSE cell[x]]
    /\ UNCHANGED <<hash, store, call, pe, at, meta, todo, queue>>

unlink_remove(r) ==
    LET p == PathOf(r) IN
    /\ pc[r] = "remove"
    /\ \/ hash[p] = NULL /\ Leave(r) /\ UNCHANGED table
       \/ /\ hash[p] # NULL
          /\ hash' = [hash EXCEPT ![p] = NULL]
          /\ cell' = [cell EXCEPT ![hash[p]] = pentry_free]
          /\ Goto(r, "remove_dirent") /\ UNCHANGED <<call, pe, at, meta, todo>>
    /\ UNCHANGED <<store, queue>>

(* list_remove releases the entry's path, which a pool thread may be       *)
(* using; one that is not there yet skips the entry.                       *)
pentry_remove_dirent(r) ==
    LET p   == PathOf(r)
        dir == hash[Parent[p]]
        using(w) == call[w] # NULL /\ PathOf(w) = p /\ pe[w] = dir
    IN /\ pc[r] = "remove_dirent"
       /\ call' = [call EXCEPT ![r] = NULL]
       /\ IF dir # NULL /\ cell[dir].filetype = "FILE_DIR"
          THEN /\ Set(dir, "dirent", cell[dir].dirent \ {p})
               /\ pc' = [t \in Thread |->
                           CASE t = r -> "idle"
                             [] t \in Worker /\ using(t) -> "undefined"
                             [] OTHER -> pc[t]]
               /\ todo' = [t \in Thread |->
                             IF t \in Worker /\ pe[t] = dir THEN todo[t] \ {p} ELSE todo[t]]
          ELSE Goto(r, "idle") /\ UNCHANGED <<cell, todo>>
       /\ UNCHANGED <<hash, store, pe, at, meta, queue>>

-----------------------------------------------------------------------------
(* The updater (thread_cachedir).                                          *)

Age(x) ==
    /\ Live(x) /\ ~cell[x].old /\ Set(x, "old", TRUE)
    /\ UNCHANGED <<hash, store, thread, queue>>

Fits == Cardinality({p \in Path : hash[p] # NULL}) <= MaxCells

(* Mutant: the age is compared the wrong way round.                        *)
cachedir_callback_mutated(p) ==
    /\ hash[p] # NULL /\ ~cell[hash[p]].old /\ Fits
    /\ Len(queue) < MaxQueue /\ queue' = Append(queue, hash[p])
    /\ UNCHANGED <<table, store, thread>>

(* g_hash_table_foreach comes by every cell in some order, again and       *)
(* again, and pushes the old ones, also when they are still in the queue.  *)
cachedir_callback(p) ==
    /\ hash[p] # NULL /\ cell[hash[p]].old /\ Fits
    /\ Len(queue) < MaxQueue /\ queue' = Append(queue, hash[p])
    /\ UNCHANGED <<table, store, thread>>

(* Which of the idle threads takes a task makes no difference.             *)
Takes(w) ==
    /\ queue # <<>> /\ pc[w] = "idle"
    /\ w = CHOOSE v \in Worker : pc[v] = "idle"

(* update_md, in a pool thread that is free: the store is asked for the    *)
(* path the cell of the task bears; the entries of a directory come first. *)
update_md(w) ==
    LET x == Head(queue)
        p == CHOOSE q \in Path : hash[q] = x
    IN /\ Takes(w) /\ Live(x)
       /\ queue' = Tail(queue)
       /\ \/ /\ attrs[p] # NULL
             /\ pe' = [pe EXCEPT ![w] = x] /\ at' = [at EXCEPT ![w] = x]
             /\ meta' = [meta EXCEPT ![w] = Answer(p)]
             /\ Goto(w, IF p \in Dir THEN "map" ELSE "trylock")
             /\ todo' = [todo EXCEPT ![w] = IF p \in Dir THEN cell[x].dirent ELSE {}]
          \/ attrs[p] = NULL /\ UNCHANGED <<pc, pe, at, meta, todo>>
       /\ UNCHANGED <<table, store, call>>

(* The store does not answer: the task is dropped.                         *)
update_md_fails(w) ==
    /\ Takes(w) /\ Live(Head(queue))
    /\ queue' = Tail(queue)
    /\ UNCHANGED <<table, store, thread>>

(* cb_map_dirents asks for the next entry of the list, and leaves it when  *)
(* it has no cell or the store does not answer.                            *)
cb_map_dirents(w) ==
    /\ pc[w] = "map" /\ Live(pe[w])
    /\ \E q \in todo[w] :
          /\ todo' = [todo EXCEPT ![w] = @ \ {q}]
          /\ \/ /\ hash[q] # NULL /\ attrs[q] # NULL
                /\ Goto(w, "trylock")
                /\ at' = [at EXCEPT ![w] = hash[q]]
                /\ meta' = [meta EXCEPT ![w] = Answer(q)]
                /\ call' = [call EXCEPT ![w] = [kind |-> "map", path |-> q]]
             \/ UNCHANGED <<pc, at, meta, call>>
    /\ UNCHANGED <<table, store, pe, queue>>

(* After the list, the directory itself.                                   *)
map_end(w) ==
    /\ pc[w] = "map" /\ todo[w] = {} /\ Goto(w, "trylock")
    /\ at' = [at EXCEPT ![w] = pe[w]] /\ meta' = [meta EXCEPT ![w] = NULL]
    /\ UNCHANGED <<table, store, call, pe, todo, queue>>

(* After the entry, the next one; after the cell, the next task.           *)
NextEntry(w) ==
    IF call[w] # NULL
    THEN /\ Goto(w, "map") /\ call' = [call EXCEPT ![w] = NULL]
         /\ UNCHANGED <<pe, at, meta, todo>>
    ELSE Leave(w)

(* pentry_md_trylock; a directory has no attributes to set.                *)
md_trylock(w) ==
    /\ pc[w] = "trylock" /\ Live(at[w])
    /\ \/ /\ cell[at[w]].md_mutex = NULL
          /\ \/ meta[w] # NULL /\ ReleaseDict(w, at[w], w, "copy")
             \/ meta[w] = NULL /\ Set(at[w], "md_mutex", w) /\ Goto(w, "copy")
          /\ UNCHANGED <<call, pe, at, meta, todo>>
       \/ cell[at[w]].md_mutex # NULL /\ NextEntry(w) /\ UNCHANGED cell
    /\ UNCHANGED <<hash, store, queue>>

(* Mutant: the mutex stays locked.                                         *)
update_set_mutated(w) ==
    /\ pc[w] = "copy" /\ Live(at[w])
    /\ cell' = [cell EXCEPT ![at[w]].metadata = IF meta[w] = NULL THEN @ ELSE meta[w],
                            ![at[w]].old = FALSE]
    /\ NextEntry(w)
    /\ UNCHANGED <<hash, store, queue>>

update_set(w) ==
    /\ pc[w] = "copy" /\ Live(at[w])
    /\ cell' = [cell EXCEPT ![at[w]].metadata = IF meta[w] = NULL THEN @ ELSE meta[w],
                            ![at[w]].old = FALSE, ![at[w]].md_mutex = NULL]
    /\ NextEntry(w)
    /\ UNCHANGED <<hash, store, queue>>

-----------------------------------------------------------------------------
(* A thread follows a pointer to a cell that was freed.                    *)
Dangling(t) ==
    IF t \in Request
    THEN /\ pc[t] \in {"dispatch", "remote_lock", "read", "unset", "lock", "copy", "mark",
                      "create_set", "create_copy"}
         /\ ~Live(pe[t])
    ELSE \/ Takes(t) /\ ~Live(Head(queue))
         \/ pc[t] \in {"trylock", "copy"} /\ ~Live(at[t])

UseAfterFree(t) ==
    /\ Dangling(t) /\ Goto(t, "undefined")
    /\ UNCHANGED <<table, store, call, pe, at, meta, todo, queue>>

Getattr(r) ==
    \/ dfs_getattr(r) \/ getattr_dispatch(r) \/ getattr_remote_lock(r)
    \/ getattr_remote(r) \/ getattr_unset(r) \/ getattr_unset_lock(r)
    \/ getattr_unset_set(r) \/ getattr_mark(r)

Serve(r) ==
    \/ Getattr(r)
    \/ dfs_create(r) \/ create_set(r) \/ create_mknod(r)
    \/ dfs_opendir(r)
    \/ dfs_unlink(r) \/ unlink_remove(r) \/ pentry_remove_dirent(r)

Refresh(w) ==
    \/ update_md(w) \/ update_md_fails(w) \/ cb_map_dirents(w) \/ map_end(w)
    \/ md_trylock(w) \/ update_set(w)

Kernel(r, p) ==
    \/ KernelLookup(r, p) \/ KernelStat(r, p) \/ KernelOpendir(r, p) \/ KernelUnlink(r, p)

(* A program that has crashed does nothing.                                *)
Crashed == \E t \in Thread : pc[t] = "undefined"

Next ==
    /\ ~Crashed
    /\ \/ \E p \in Path : OtherClient(p)
       \/ \E r \in Request, p \in Path : Kernel(r, p)
       \/ \E r \in Request : Serve(r)
       \/ \E w \in Worker : Refresh(w)
       \/ \E p \in Path : cachedir_callback(p)
       \/ \E x \in Pe : Age(x)
       \/ \E t \in Thread : UseAfterFree(t)

Spec == Init /\ [][Next]_vars

(* Time passes; the updater, the pool and the handlers do not stop.  The   *)
(* store does not refuse to answer for one path for ever; a walk over the  *)
(* table leaves no cell out (MaxQueue makes it wait); a mutex that is free *)
(* again and again is not withheld from one thread for ever.               *)
Running(A) == ~Crashed /\ A
Refreshes(p) ==
    \E w \in Worker : queue # <<>> /\ Head(queue) = hash[p] /\ update_md(w)

Fairness ==
    /\ \A p \in Path \ Dir : /\ SF_vars(Running(cachedir_callback(p)))
                             /\ SF_vars(Running(Refreshes(p)))
    /\ \A x \in Pe : WF_vars(Running(Age(x)))
    /\ \A r \in Request :
          /\ WF_vars(Running(Serve(r) \/ UseAfterFree(r)))
          /\ SF_vars(Running(getattr_remote_lock(r) \/ getattr_unset_lock(r)))
    /\ \A w \in Worker : WF_vars(Running(Refresh(w) \/ UseAfterFree(w)))

FairSpec == Spec /\ Fairness

-----------------------------------------------------------------------------
(* The types, and the table owns live cells, one for each path.            *)
TypeOK ==
    /\ hash \in [Path -> Pe \cup {NULL}] /\ cell \in [Pe -> Cell]
    /\ \A p, q \in Path : hash[p] # NULL => Live(hash[p]) /\ (hash[p] = hash[q] => p = q)
    /\ attrs \in [Path -> Version \cup {NULL}] /\ known \subseteq Path
    /\ call \in [Thread -> [kind : Kind, path : Path] \cup {NULL}]
    /\ pe \in [Thread -> Pe \cup {NULL}] /\ at \in [Thread -> Pe \cup {NULL}]
    /\ meta \in [Thread -> Version \cup {NULL}]
    /\ todo \in [Thread -> SUBSET Path]
    /\ queue \in Seq(Pe) /\ Len(queue) <= MaxQueue
    /\ changes \in 0..MaxChanges /\ unlinks \in Nat

(* The cell whose dictionary a thread is reading or replacing.             *)
DictOf(t) ==
    CASE pc[t] \in {"read", "create_set", "create_copy"} -> pe[t]
      [] pc[t] = "copy" /\ meta[t] # NULL -> IF t \in Request THEN pe[t] ELSE at[t]
      [] OTHER -> NULL

(* cachedir.c:67, getattr.c:104 and 198: two threads are never inside the  *)
(* dictionary of one cell, unless one of them is dfs_create, which does    *)
(* not lock.                                                               *)
DictAlone ==
    \A s, t \in Thread :
        s # t /\ DictOf(s) # NULL /\ DictOf(s) = DictOf(t) /\ Live(DictOf(s))
        => \E u \in {s, t} : pc[u] \in {"create_set", "create_copy"}

(* getattr.c:109: whoever finds a cell FILE_REMOTE and takes its lock      *)
(* finds attributes, although the placeholder is read before the lock: no  *)
(* answer without a mode, size and owner is given for a remote file, as    *)
(* long as nothing is unlinked or one thread serves the requests.          *)
RemoteHasAttributes ==
    \A r \in Request :
        pc[r] = "read" /\ Live(pe[r]) => cell[pe[r]].metadata \in Version

(* A crash needs somebody else: a file unlinked while a thread has its     *)
(* cell, or made by another client between the lookup and the create       *)
(* request of an application that creates it.                              *)
CrashNeedsCompany == Crashed => unlinks > 0 \/ changes > 0

(* cachedir.c: while nobody asks for a file, its cell does not stay behind *)
(* the store for ever, as long as the table is within cache_max_size.      *)
Behind(p) ==
    /\ hash[p] # NULL /\ attrs[p] # NULL /\ Fits /\ ~Crashed
    /\ cell[hash[p]].ondisk = "FILE_REMOTE" /\ cell[hash[p]].metadata # attrs[p]
    /\ \A r \in Request : call[r] # NULL => PathOf(r) # p

EventuallyRefreshed == \A p \in Path \ Dir : []<>~Behind(p)

(* Every request returns, whatever the updater does: no lock is left       *)
(* behind.                                                                 *)
RequestsReturn == \A r \in Request : []<>(pc[r] = "idle" \/ Crashed)
=============================================================================
