------------------------ MODULE MetadataCacheProofs ------------------------
(***************************************************************************)
(* Theorems about the cells' attributes: types, that no two threads are in *)
(* one dictionary, that a remote file has attributes, and that a crash     *)
(* needs an unlink or another client.  They hold for any number of paths,  *)
(* cells, request threads and pool threads.                                *)
(***************************************************************************)
EXTENDS MetadataCache, TLAPS

-----------------------------------------------------------------------------
(* The inductive invariants.                                               *)

Creating == {"create", "create_set", "create_copy", "mknod"}
Pointing == {"dispatch", "remote_lock", "read", "unset", "lock", "copy", "mark",
             "create_set", "create_copy"}
RequestPc == Pointing \cup Creating
             \cup {"idle", "getattr", "opendir", "unlink", "remove", "remove_dirent", "undefined"}
WorkerPc  == {"idle", "map", "trylock", "copy", "undefined"}

(* A request has a call, and what it does belongs to its kind; a live cell *)
(* is in the table.                                                        *)
ShapeInv ==
    /\ TypeOK
    /\ \A w \in Worker : pc[w] \in WorkerPc
    /\ \A r \in Request :
          /\ pc[r] \in RequestPc /\ (pc[r] # "idle" => call[r] # NULL)
          /\ pc[r] \in Pointing => pe[r] # NULL
          /\ pc[r] \in {"lock", "copy", "create_set", "create_copy"} => meta[r] # NULL
          /\ pc[r] \in Creating => call[r].kind = "creat" /\ PathOf(r) \notin Dir
          /\ pc[r] \in {"unlink", "remove", "remove_dirent"} => call[r].kind = "unlink"
          /\ pc[r] \in {"remove", "remove_dirent"} => unlinks > 0
          /\ pc[r] \in Pointing \cup {"getattr"} => call[r].kind \in {"lookup", "stat", "creat"}
          /\ call[r] # NULL /\ call[r].kind = "creat" => PathOf(r) \notin Dir
          /\ call[r] # NULL /\ call[r].kind = "unlink" => MaxUnlinks > 0
    /\ \A x \in Pe : Live(x) => \E p \in Path : hash[p] = x
    /\ unlinks > 0 => MaxUnlinks > 0

(* One request holds a name, and its cell stays in the table.              *)
Holds(r) == call[r] # NULL /\ call[r].kind \in {"lookup", "creat", "unlink"}
HeldInv ==
    \A r \in Request : Holds(r) =>
        /\ \A s \in Request : Holds(s) /\ PathOf(s) = PathOf(r) => s = r
        /\ pc[r] \in Pointing \cup Creating =>
              hash[PathOf(r)] # NULL /\ pe[r] = hash[PathOf(r)]

(* Who is in the dictionary of a cell has its mutex, but for dfs_create.   *)
At(t) == IF t \in Request THEN pe[t] ELSE at[t]
MutexInv ==
    \A t \in Thread :
        pc[t] \in {"read", "copy"} /\ At(t) # NULL /\ Live(At(t))
        => cell[At(t)].md_mutex = t

(* As long as nothing was unlinked a stat is about a name the kernel       *)
(* knows, a lookup and a creation about one it does not, and every request *)
(* points to the cell the table has for its path.                          *)
NamedInv ==
    unlinks = 0 => \A r \in Request : call[r] # NULL =>
        /\ call[r].kind \in {"lookup", "creat"} => PathOf(r) \notin known
        /\ call[r].kind = "stat" => PathOf(r) \in known
        /\ pc[r] \in Pointing => pe[r] = hash[PathOf(r)]

(* A remote file's dictionary is there or its mutex is held by the thread  *)
(* that has released it and will replace it; so it is when a request is    *)
(* about to set the placeholder.  What dfs_create fills stays local, and   *)
(* what a request has found remote stays remote.                           *)
Replacing(x) ==
    LET t == cell[x].md_mutex
    IN  t # NULL /\ pc[t] \in {"copy", "undefined"} /\ At(t) = x /\ meta[t] # NULL

RemoteInv ==
    /\ \A x \in Pe :
          /\ Live(x)
          /\ \/ cell[x].ondisk = "FILE_REMOTE"
             \/ \E r \in Request : pc[r] = "mark" /\ pe[r] = x /\ meta[r] # NULL
          => cell[x].metadata \in Version \/ Replacing(x)
    /\ \A r \in Request :
          pc[r] \in {"create_set", "create_copy"} /\ Live(pe[r])
          => cell[pe[r]].ondisk = "FILE_LOCAL"
    /\ \A r \in Request :
          pc[r] \in {"remote_lock", "read"} /\ Live(pe[r])
          => cell[pe[r]].ondisk = "FILE_REMOTE"

(* As long as nothing was unlinked and no other client has changed a thing *)
(* every pointer is to a live cell, a released dictionary will be          *)
(* replaced, attributes on their way to a cell are those of a file in the  *)
(* store, and the cell of a file that is not there has none, unless its    *)
(* creation is about to make it.                                           *)
PointersLive ==
    /\ \A i \in 1..Len(queue) : Live(queue[i])
    /\ \A w \in Worker :
          /\ pc[w] \in {"map", "trylock", "copy"} => pe[w] # NULL /\ Live(pe[w])
          /\ pc[w] \in {"trylock", "copy"} => at[w] # NULL /\ Live(at[w])
FreedReplaced == \A x \in Pe : Live(x) /\ cell[x].metadata = Freed => Replacing(x)
OnTheirWay ==
    \A t \in Thread, p \in Path :
        /\ pc[t] \in {"lock", "copy", "trylock"} /\ meta[t] # NULL
        /\ At(t) # NULL /\ At(t) = hash[p]
        => attrs[p] # NULL
NotThere ==
    /\ \A r \in Request : pc[r] \in Creating => attrs[PathOf(r)] = NULL
    /\ \A p \in Path : attrs[p] = NULL /\ hash[p] # NULL =>
          \/ cell[hash[p]].metadata = NULL
          \/ \E r \in Request : pc[r] = "mknod" /\ PathOf(r) = p

CalmInv ==
    unlinks = 0 /\ changes = 0 =>
        ~Crashed /\ PointersLive /\ FreedReplaced /\ OnTheirWay /\ NotThere

-----------------------------------------------------------------------------
(* What malloc returns is free, and no thread or task points to it.        *)
LEMMA Allocated ==
    ASSUME CanInsert
    PROVE  Malloc \in Pe /\ FreePe(Malloc)
BY DEF CanInsert, Malloc

(* The names of the states are told apart from the two special values.     *)
LEMMA Values ==
    /\ NULL \notin Pe /\ NULL \notin Thread /\ NULL \notin Version /\ Freed \notin Version
    /\ NULL # Freed /\ Request \cap Worker = {} /\ Thread = Request \cup Worker
    /\ NULL \notin [kind : Kind, path : Path]
    /\ 0 \in Version /\ MaxChanges \in Nat /\ MaxUnlinks \in Nat /\ MaxQueue \in Nat
    /\ Dir \subseteq Path /\ NULL \notin Path
BY MetadataAssumption DEF Thread, Version

-----------------------------------------------------------------------------
(* The types of what a thread has, and of the table.                       *)
ThreadTypes ==
    /\ call \in [Thread -> [kind : Kind, path : Path] \cup {NULL}]
    /\ pc \in [Thread -> RequestPc \cup WorkerPc]
    /\ pe \in [Thread -> Pe \cup {NULL}] /\ at \in [Thread -> Pe \cup {NULL}]
    /\ meta \in [Thread -> Version \cup {NULL}]
    /\ todo \in [Thread -> SUBSET Path]
TableTypes == hash \in [Path -> Pe \cup {NULL}] /\ cell \in [Pe -> Cell]
StoreTypes == attrs \in [Path -> Version \cup {NULL}]

Types == ThreadTypes /\ TableTypes /\ StoreTypes

Counts ==
    /\ known \subseteq Path
    /\ queue \in Seq(Pe) /\ Len(queue) <= MaxQueue
    /\ changes \in 0..MaxChanges /\ unlinks \in Nat /\ (unlinks > 0 => MaxUnlinks > 0)

(* The cells in the table are the live ones, one for each path.            *)
Owned ==
    /\ \A p, q \in Path : hash[p] # NULL => Live(hash[p]) /\ (hash[p] = hash[q] => p = q)
    /\ \A x \in Pe : Live(x) => \E p \in Path : hash[p] = x

(* What a request is doing belongs to its call.                            *)
Served(r) ==
    /\ pc[r] \in RequestPc /\ (pc[r] # "idle" => call[r] # NULL)
    /\ pc[r] \in Pointing => pe[r] # NULL
    /\ pc[r] \in {"lock", "copy", "create_set", "create_copy"} => meta[r] # NULL
    /\ pc[r] \in Creating => call[r].kind = "creat" /\ PathOf(r) \notin Dir
    /\ pc[r] \in {"unlink", "remove", "remove_dirent"} => call[r].kind = "unlink"
    /\ pc[r] \in {"remove", "remove_dirent"} => unlinks > 0
    /\ pc[r] \in Pointing \cup {"getattr"} => call[r].kind \in {"lookup", "stat", "creat"}
    /\ call[r] # NULL /\ call[r].kind = "creat" => PathOf(r) \notin Dir
    /\ call[r] # NULL /\ call[r].kind = "unlink" => MaxUnlinks > 0

Typed ==
    /\ Types /\ Counts /\ Owned
    /\ \A w \in Worker : pc[w] \in WorkerPc
    /\ \A r \in Request : Served(r)

(* The invariant in its parts (with it, pc is a function).                 *)
LEMMA TypedShape == Typed => ShapeInv
BY DEF Typed, Types, ThreadTypes, TableTypes, StoreTypes, Counts, Owned, Served, ShapeInv, TypeOK

(* The threads' steps, as they appear in Next.                             *)
LEMMA NextCases ==
    ASSUME Next
    PROVE  \/ \E p \in Path : OtherClient(p) \/ cachedir_callback(p)
           \/ \E r \in Request, p \in Path : Kernel(r, p)
           \/ \E r \in Request : Getattr(r)
           \/ \E r \in Request : dfs_create(r) \/ create_set(r) \/ create_mknod(r) \/ dfs_opendir(r)
           \/ \E r \in Request : dfs_unlink(r) \/ unlink_remove(r) \/ pentry_remove_dirent(r)
           \/ \E w \in Worker : update_md(w) \/ update_md_fails(w) \/ cb_map_dirents(w)
           \/ \E w \in Worker : map_end(w) \/ md_trylock(w) \/ update_set(w)
           \/ \E x \in Pe : Age(x)
           \/ \E t \in Thread : UseAfterFree(t)
BY DEF Next, Serve, Refresh

-----------------------------------------------------------------------------
(* A cell with a field of the right type replaced is a cell.               *)
LEMMA CellFields ==
    ASSUME NEW c \in Cell
    PROVE  /\ \A m \in Version \cup {NULL, Freed} : [c EXCEPT !.metadata = m] \in Cell
           /\ \A t \in Thread \cup {NULL} : [c EXCEPT !.md_mutex = t] \in Cell
           /\ \A o \in {"FILE_UNSET", "FILE_LOCAL", "FILE_REMOTE"} :
                 [c EXCEPT !.ondisk = o] \in Cell
           /\ [c EXCEPT !.old = FALSE] \in Cell /\ [c EXCEPT !.old = TRUE] \in Cell
           /\ \A d \in SUBSET Path : [c EXCEPT !.dirent = d] \in Cell
<1>1. ASSUME NEW m \in Version \cup {NULL, Freed} PROVE [c EXCEPT !.metadata = m] \in Cell
    BY DEF Cell
<1>2. ASSUME NEW t \in Thread \cup {NULL} PROVE [c EXCEPT !.md_mutex = t] \in Cell
    BY DEF Cell
<1>3. ASSUME NEW o \in {"FILE_UNSET", "FILE_LOCAL", "FILE_REMOTE"}
      PROVE  [c EXCEPT !.ondisk = o] \in Cell
    BY DEF Cell
<1>4. [c EXCEPT !.old = FALSE] \in Cell /\ [c EXCEPT !.old = TRUE] \in Cell
    BY DEF Cell
<1>5. ASSUME NEW d \in SUBSET Path PROVE [c EXCEPT !.dirent = d] \in Cell
    BY DEF Cell
<1> QED  BY <1>1, <1>2, <1>3, <1>4, <1>5

(* The same for the function of all cells.                                 *)
LEMMA Fields ==
    ASSUME cell \in [Pe -> Cell], NEW x
    PROVE  /\ \A m \in Version \cup {NULL, Freed} :
                 [cell EXCEPT ![x]["metadata"] = m] \in [Pe -> Cell]
           /\ \A t \in Thread \cup {NULL} : [cell EXCEPT ![x]["md_mutex"] = t] \in [Pe -> Cell]
           /\ \A o \in {"FILE_UNSET", "FILE_LOCAL", "FILE_REMOTE"} :
                 [cell EXCEPT ![x]["ondisk"] = o] \in [Pe -> Cell]
           /\ [cell EXCEPT ![x]["old"] = FALSE] \in [Pe -> Cell]
           /\ [cell EXCEPT ![x]["old"] = TRUE] \in [Pe -> Cell]
           /\ \A d \in SUBSET Path : [cell EXCEPT ![x]["dirent"] = d] \in [Pe -> Cell]
<1>1. ASSUME NEW m \in Version \cup {NULL, Freed} PROVE [cell EXCEPT ![x]["metadata"] = m] \in [Pe -> Cell]
    BY CellFields
<1>2. ASSUME NEW t \in Thread \cup {NULL} PROVE [cell EXCEPT ![x]["md_mutex"] = t] \in [Pe -> Cell]
    BY CellFields
<1>3. ASSUME NEW o \in {"FILE_UNSET", "FILE_LOCAL", "FILE_REMOTE"}
      PROVE  [cell EXCEPT ![x]["ondisk"] = o] \in [Pe -> Cell]
    BY CellFields
<1>4. /\ [cell EXCEPT ![x]["old"] = FALSE] \in [Pe -> Cell]
      /\ [cell EXCEPT ![x]["old"] = TRUE] \in [Pe -> Cell]
    BY CellFields
<1>5. ASSUME NEW d \in SUBSET Path PROVE [cell EXCEPT ![x]["dirent"] = d] \in [Pe -> Cell]
    BY CellFields
<1> QED  BY <1>1, <1>2, <1>3, <1>4, <1>5

(* A thread that goes somewhere, or leaves.                                *)
LEMMA Going ==
    ASSUME ThreadTypes, NEW t \in Thread, NEW s \in RequestPc \cup WorkerPc, Goto(t, s)
    PROVE  pc' \in [Thread -> RequestPc \cup WorkerPc]
BY DEF ThreadTypes, Goto

(* A handler or a worker that leaves drops its call, its pointer and its place
   (Return), and every variable keeps its range. *)
LEMMA Leaving ==
    ASSUME ThreadTypes, NEW t \in Thread, Leave(t)
    PROVE  ThreadTypes'
<1>1. Goto(t, "idle")
    BY DEF Leave
<1>2. pc' \in [Thread -> RequestPc \cup WorkerPc]
    BY <1>1, Going DEF RequestPc
<1> QED  BY <1>2 DEF ThreadTypes, Leave

(* The states, as one set.                                                 *)
LEMMA States ==
    /\ {"idle", "getattr", "opendir", "unlink", "remove", "remove_dirent", "undefined"}
            \subseteq RequestPc \cup WorkerPc
    /\ Pointing \cup Creating \cup {"map", "trylock"} \subseteq RequestPc \cup WorkerPc
BY DEF RequestPc, WorkerPc

(* The table with a new cell.                                              *)
LEMMA Inserting ==
    ASSUME TableTypes, NEW p \in Path, NEW type \in {"FILE_DIR", "garbage"}, Insert(p, type)
    PROVE  TableTypes'
<1>1. Malloc \in Pe
    BY Allocated DEF Insert
<1>2. pentry_new(type) \in Cell
    BY Values DEF pentry_new, Cell
<1> QED  BY <1>1, <1>2 DEF Insert, TableTypes

(* The first half of pentry_set_metadata.                                  *)
LEMMA Releasing ==
    ASSUME TableTypes, ThreadTypes, NEW t \in Thread, NEW x, NEW owner \in Thread \cup {NULL},
           NEW next \in Pointing, ReleaseDict(t, x, owner, next)
    PROVE  cell' \in [Pe -> Cell] /\ pc' \in [Thread -> RequestPc \cup WorkerPc]
<1>1. pc' \in [Thread -> RequestPc \cup WorkerPc]
    BY States, Going DEF ReleaseDict
<1>2. CASE UNCHANGED cell
    BY <1>1, <1>2 DEF TableTypes
<1>3. CASE cell' = [cell EXCEPT ![x].metadata = IF @ = NULL THEN NULL ELSE Freed,
                                ![x].md_mutex = owner]
    <2>1. ASSUME NEW y \in Pe PROVE cell'[y] \in Cell
        <3> DEFINE m == IF cell[y].metadata = NULL THEN NULL ELSE Freed
                   c == [cell[y] EXCEPT !.metadata = m]
        <3>1. c \in Cell
            BY CellFields DEF TableTypes
        <3>2. [c EXCEPT !.md_mutex = owner] \in Cell
            BY <3>1, CellFields
        <3>3. cell'[y] = [c EXCEPT !.md_mutex = owner] \/ cell'[y] = cell[y]
            BY <1>3 DEF TableTypes
        <3> QED  BY <3>2, <3>3 DEF TableTypes
    <2> QED  BY <1>1, <1>3, <2>1 DEF TableTypes
<1> QED  BY <1>2, <1>3 DEF ReleaseDict

(* The types, step by step.                                                *)
LEMMA TypesGetattr ==
    ASSUME Types, NEW r \in Request, Served(r), Getattr(r)
    PROVE  Types'
<1> USE DEF Types
<1>0. r \in Thread
    BY DEF Thread
<1>1. CASE dfs_getattr(r)
    <2>1. PathOf(r) \in Path
        BY <1>0, <1>1 DEF dfs_getattr, Served, ThreadTypes, PathOf
    <2>2. TableTypes'
        BY <1>1, <2>1, Inserting DEF dfs_getattr, TableTypes, table
    <2>3. pc' \in [Thread -> RequestPc \cup WorkerPc]
        BY <1>0, <1>1, States, Going DEF dfs_getattr, Pointing
    <2> QED  BY <1>0, <1>1, <2>1, <2>2, <2>3 DEF dfs_getattr, ThreadTypes, TableTypes, StoreTypes, store
<1>2. CASE getattr_dispatch(r)
    <2>1. cell' \in [Pe -> Cell]
        <3>1. cell' = cell \/ cell' = [cell EXCEPT ![pe[r]]["old"] = FALSE]
            BY <1>2 DEF getattr_dispatch, Set, Return, table
        <3>2. cell \in [Pe -> Cell]
            BY DEF TableTypes
        <3>3. [cell EXCEPT ![pe[r]]["old"] = FALSE] \in [Pe -> Cell]
            BY <3>2, Fields, Zenon
        <3> QED  BY <3>1, <3>2, <3>3, Zenon
    <2>2. ThreadTypes'
        BY <1>0, <1>2, States, Going, Leaving DEF getattr_dispatch, Pointing, Return, ThreadTypes
    <2> QED  BY <1>2, <2>1, <2>2 DEF getattr_dispatch, TableTypes, StoreTypes, Return, table
<1>3. CASE getattr_remote_lock(r)
    <2>1. cell' \in [Pe -> Cell]
        BY <1>0, <1>3, Fields DEF getattr_remote_lock, TableTypes, Set
    <2>2. pc' \in [Thread -> RequestPc \cup WorkerPc]
        BY <1>0, <1>3, States, Going DEF getattr_remote_lock, Pointing
    <2> QED
        BY <1>3, <2>1, <2>2 DEF getattr_remote_lock, ThreadTypes, TableTypes, StoreTypes, store
<1>4. CASE getattr_remote(r)
    <2>1. cell' \in [Pe -> Cell]
        <3>1. \/ cell' = cell
              \/ cell' = [cell EXCEPT ![pe[r]].md_mutex = NULL, ![pe[r]].old = FALSE]
            BY <1>4 DEF getattr_remote, table
        <3>2. ASSUME NEW c \in Cell PROVE [c EXCEPT !.md_mutex = NULL, !.old = FALSE] \in Cell
            BY DEF Cell
        <3>3. ASSUME NEW y \in Pe PROVE cell'[y] \in Cell
            BY <3>1, <3>2 DEF TableTypes
        <3> QED  BY <3>1, <3>3 DEF TableTypes
    <2>2. ThreadTypes'
        BY <1>0, <1>4, States, Going, Leaving DEF getattr_remote, ThreadTypes
    <2> QED  BY <1>4, <2>1, <2>2 DEF getattr_remote, TableTypes, StoreTypes, table
<1>5. CASE getattr_unset(r)
    <2>1. cell' \in [Pe -> Cell]
        <3>1. cell' = cell \/ cell' = [cell EXCEPT ![pe[r]]["old"] = FALSE]
            BY <1>5 DEF getattr_unset, Set, Return, table
        <3>2. cell \in [Pe -> Cell]
            BY DEF TableTypes
        <3>3. [cell EXCEPT ![pe[r]]["old"] = FALSE] \in [Pe -> Cell]
            BY <3>2, Fields, Zenon
        <3> QED  BY <3>1, <3>2, <3>3, Zenon
    <2>2. PathOf(r) \in Path /\ Answer(PathOf(r)) \in Version \cup {NULL}
        BY <1>0, <1>5, Values
        DEF getattr_unset, Served, ThreadTypes, PathOf, Answer, StoreTypes
    <2>3. ThreadTypes'
        <3>1. CASE Return(r)
            BY <1>0, <3>1, Leaving DEF Return
        <3>2. CASE ~Return(r)
            <4>1. pc' \in [Thread -> RequestPc \cup WorkerPc]
                BY <1>0, <1>5, <3>2, States, Going DEF getattr_unset, Pointing, Creating
            <4> QED  BY <1>0, <1>5, <2>2, <3>2, <4>1 DEF getattr_unset, ThreadTypes
        <3> QED  BY <3>1, <3>2
    <2> QED  BY <1>5, <2>1, <2>3 DEF getattr_unset, TableTypes, StoreTypes, Return, store, table
<1>6. CASE getattr_unset_lock(r)
    <2>1. ReleaseDict(r, pe[r], r, "copy") /\ "copy" \in Pointing
        BY <1>6 DEF getattr_unset_lock, Pointing
    <2>2. cell' \in [Pe -> Cell] /\ pc' \in [Thread -> RequestPc \cup WorkerPc]
        BY <1>0, <2>1, Releasing
    <2> QED
        BY <1>6, <2>2 DEF getattr_unset_lock, ThreadTypes, TableTypes, StoreTypes, store
<1>7. CASE getattr_unset_set(r)
    <2>1. cell' \in [Pe -> Cell]
        <3>1. cell' = [cell EXCEPT ![pe[r]] =
                         [[@ EXCEPT !.metadata = meta[r]] EXCEPT !.md_mutex = NULL]]
            BY <1>7 DEF getattr_unset_set, TableTypes, Cell
        <3>2. \A c \in Cell : [[c EXCEPT !.metadata = meta[r]] EXCEPT !.md_mutex = NULL] \in Cell
            BY <1>0, CellFields DEF ThreadTypes
        <3> QED  BY <3>1, <3>2 DEF TableTypes
    <2>2. pc' \in [Thread -> RequestPc \cup WorkerPc]
        BY <1>0, <1>7, States, Going DEF getattr_unset_set, Pointing
    <2> QED
        BY <1>7, <2>1, <2>2 DEF getattr_unset_set, ThreadTypes, TableTypes, StoreTypes, store
<1>8. CASE getattr_mark(r)
    <2>1. PathOf(r) \in Path
        BY <1>0, <1>8 DEF getattr_mark, Served, ThreadTypes, PathOf
    <2>2. ASSUME NEW c \in Cell
          PROVE  /\ [c EXCEPT !.ondisk = IF meta[r] = NULL THEN @ ELSE "FILE_REMOTE",
                              !.filetype = "FILE_REG", !.old = FALSE] \in Cell
                 /\ [c EXCEPT !.dirent = @ \cup {PathOf(r)}] \in Cell
        BY <2>1 DEF Cell
    <2>3. cell' \in [Pe -> Cell]
        BY <1>8, <2>2 DEF getattr_mark, TableTypes
    <2>4. ThreadTypes'
        BY <1>0, <1>8, Leaving DEF getattr_mark
    <2> QED  BY <1>8, <2>3, <2>4 DEF getattr_mark, TableTypes, StoreTypes
<1> QED  BY <1>1, <1>2, <1>3, <1>4, <1>5, <1>6, <1>7, <1>8 DEF Getattr

(* The same for creations, opendir and unlink.                             *)
LEMMA TypesCreate ==
    ASSUME Types, NEW r \in Request, Served(r),
           dfs_create(r) \/ create_set(r) \/ create_mknod(r) \/ dfs_opendir(r)
    PROVE  Types'
<1> USE DEF Types
<1>0. r \in Thread
    BY DEF Thread
<1>1. CASE dfs_create(r)
    <2>1. PathOf(r) \in Path
        BY <1>0, <1>1 DEF dfs_create, Served, ThreadTypes, PathOf, Creating
    <2>2. cell' \in [Pe -> Cell]
        BY <1>1, Fields DEF dfs_create, TableTypes, Set
    <2>3. pc' \in [Thread -> RequestPc \cup WorkerPc]
        BY <1>0, <1>1, States, Going DEF dfs_create, Creating
    <2> QED
        BY <1>0, <1>1, <2>1, <2>2, <2>3, Values
        DEF dfs_create, ThreadTypes, TableTypes, StoreTypes, store
<1>2. CASE create_set(r)
    <2>1. CASE pc[r] = "create_set" /\ ReleaseDict(r, pe[r], cell[pe[r]].md_mutex, "create_copy")
        <3>1. pe[r] \in Pe
            BY <1>0, <2>1 DEF Served, Pointing, ThreadTypes
        <3>2. cell[pe[r]].md_mutex \in Thread \cup {NULL} /\ "create_copy" \in Pointing
            BY <3>1 DEF TableTypes, Cell, Pointing
        <3>3. cell' \in [Pe -> Cell] /\ pc' \in [Thread -> RequestPc \cup WorkerPc]
            BY <1>0, <2>1, <3>2, Releasing
        <3> QED  BY <1>2, <3>3 DEF create_set, ThreadTypes, TableTypes, StoreTypes, store
    <2>2. CASE pc[r] = "create_copy"
        <3>0. /\ meta[r] \in Version \cup {NULL, Freed}
              /\ cell' = [cell EXCEPT ![pe[r]]["metadata"] = meta[r]]
            BY <1>0, <1>2, <2>2 DEF create_set, ThreadTypes, Set
        <3>1. cell' \in [Pe -> Cell]
            BY <3>0, Fields DEF TableTypes
        <3>2. pc' \in [Thread -> RequestPc \cup WorkerPc]
            BY <1>0, <1>2, <2>2, States, Going DEF create_set, Creating
        <3> QED  BY <1>2, <3>1, <3>2 DEF create_set, ThreadTypes, TableTypes, StoreTypes, store
    <2> QED  BY <1>2, <2>1, <2>2 DEF create_set
<1>3. CASE create_mknod(r)
    BY <1>0, <1>3, Leaving, Values DEF create_mknod, TableTypes, StoreTypes, table
<1>4. CASE dfs_opendir(r)
    <2>1. PathOf(r) \in Path
        BY <1>0, <1>4 DEF dfs_opendir, Served, ThreadTypes, PathOf
    <2>2. TableTypes'
        BY <1>4, <2>1, Inserting DEF dfs_opendir, TableTypes, table
    <2> QED  BY <1>0, <1>4, <2>2, Leaving DEF dfs_opendir, StoreTypes, store
<1> QED  BY <1>1, <1>2, <1>3, <1>4

(* The three steps of dfs_unlink keep the ranges. *)
LEMMA TypesUnlink ==
    ASSUME Types, NEW r \in Request, Served(r), \A w \in Worker : pc[w] \in WorkerPc,
           dfs_unlink(r) \/ unlink_remove(r) \/ pentry_remove_dirent(r)
    PROVE  Types'
<1> USE DEF Types
<1>0. r \in Thread
    BY DEF Thread
<1>1. CASE dfs_unlink(r)
    <2>1. ThreadTypes'
        <3>1. CASE Leave(r)
            BY <1>0, <3>1, Leaving
        <3>2. CASE ~Leave(r)
            BY <1>0, <1>1, <3>2, States, Going DEF dfs_unlink, ThreadTypes
        <3> QED  BY <3>1, <3>2
    <2> QED  BY <1>1, <2>1 DEF dfs_unlink, TableTypes, StoreTypes, table
<1>2. CASE unlink_remove(r)
    <2>1. ThreadTypes'
        <3>1. CASE Leave(r)
            BY <1>0, <3>1, Leaving
        <3>2. CASE ~Leave(r)
            BY <1>0, <1>2, <3>2, States, Going DEF unlink_remove, ThreadTypes
        <3> QED  BY <3>1, <3>2
    <2>2. pentry_free \in Cell
        BY Values DEF pentry_free, pentry_new, Cell
    <2>3. TableTypes'
        BY <1>2, <2>2 DEF unlink_remove, TableTypes, table
    <2> QED  BY <1>2, <2>1, <2>3 DEF unlink_remove, StoreTypes, store
<1>3. CASE pentry_remove_dirent(r)
    <2>1. cell' \in [Pe -> Cell]
        <3> DEFINE dir == hash[Parent[PathOf(r)]]
        <3>1. CASE cell' = cell
            BY <3>1 DEF TableTypes
        <3>2. CASE Set(dir, "dirent", cell[dir].dirent \ {PathOf(r)})
            <4>1. ASSUME NEW c \in Cell PROVE [c EXCEPT !.dirent = c.dirent \ {PathOf(r)}] \in Cell
                BY DEF Cell
            <4>2. ASSUME NEW y \in Pe PROVE cell'[y] \in Cell
                BY <3>2, <4>1 DEF Set, TableTypes
            <4> QED  BY <3>2, <4>2 DEF Set, TableTypes
        <3> QED  BY <1>3, <3>1, <3>2 DEF pentry_remove_dirent
    <2>2. pc' \in [Thread -> RequestPc \cup WorkerPc]
        <3>1. CASE Goto(r, "idle")
            BY <1>0, <3>1, States, Going
        <3>2. CASE ~Goto(r, "idle")
            BY <1>0, <1>3, <3>2, States DEF pentry_remove_dirent, ThreadTypes
        <3> QED  BY <3>1, <3>2
    <2>3. todo' \in [Thread -> SUBSET Path]
        BY <1>3 DEF pentry_remove_dirent, ThreadTypes
    <2> QED
        BY <1>0, <1>3, <2>1, <2>2, <2>3
        DEF pentry_remove_dirent, ThreadTypes, TableTypes, StoreTypes, store
<1> QED  BY <1>1, <1>2, <1>3

(* The same for the pool's threads.                                        *)
LEMMA TypesRefresh ==
    ASSUME Types, queue \in Seq(Pe), NEW w \in Worker, pc[w] \in WorkerPc, Refresh(w), Owned
    PROVE  Types'
<1> USE DEF Types
<1>0. w \in Thread
    BY DEF Thread
<1>1. CASE update_md(w)
    <2> DEFINE x == Head(queue)
               p == CHOOSE q \in Path : hash[q] = x
    <2>1. x \in Pe /\ p \in Path /\ hash[p] = x
        BY <1>1 DEF update_md, Takes, Owned
    <2> HIDE DEF x, p
    <2>2. Answer(p) \in Version \cup {NULL} /\ cell[x].dirent \subseteq Path
        BY <2>1, Values DEF Answer, StoreTypes, TableTypes, Cell
    <2>3. \/ UNCHANGED <<pc, pe, at, meta, todo>>
          \/ /\ pe' = [pe EXCEPT ![w] = x] /\ at' = [at EXCEPT ![w] = x]
             /\ meta' = [meta EXCEPT ![w] = Answer(p)]
             /\ Goto(w, IF p \in Dir THEN "map" ELSE "trylock")
             /\ todo' = [todo EXCEPT ![w] = IF p \in Dir THEN cell[x].dirent ELSE {}]
        BY <1>1 DEF update_md, x, p
    <2>4. UNCHANGED <<table, store, call>>
        BY <1>1 DEF update_md
    <2>5. pc' \in [Thread -> RequestPc \cup WorkerPc]
        <3>1. CASE pc' = pc
            BY <3>1 DEF ThreadTypes
        <3>2. CASE Goto(w, IF p \in Dir THEN "map" ELSE "trylock")
            BY <1>0, <3>2, States, Going
        <3> QED  BY <2>3, <3>1, <3>2
    <2>6. todo' \in [Thread -> SUBSET Path]
        BY <1>0, <2>2, <2>3 DEF ThreadTypes
    <2> QED
        BY <1>0, <2>1, <2>2, <2>3, <2>4, <2>5, <2>6
        DEF ThreadTypes, TableTypes, StoreTypes, table, store
<1>2. CASE update_md_fails(w)
    BY <1>2 DEF update_md_fails, table, store, thread, ThreadTypes, TableTypes, StoreTypes
<1>3. CASE cb_map_dirents(w)
    <2>1. PICK q \in todo[w] :
             /\ todo' = [todo EXCEPT ![w] = @ \ {q}]
             /\ \/ /\ hash[q] # NULL /\ attrs[q] # NULL
                   /\ Goto(w, "trylock")
                   /\ at' = [at EXCEPT ![w] = hash[q]]
                   /\ meta' = [meta EXCEPT ![w] = Answer(q)]
                   /\ call' = [call EXCEPT ![w] = [kind |-> "map", path |-> q]]
                \/ UNCHANGED <<pc, at, meta, call>>
        BY <1>3 DEF cb_map_dirents
    <2>2. q \in Path
        BY <1>0, <2>1 DEF ThreadTypes
    <2>3. Answer(q) \in Version \cup {NULL} /\ [kind |-> "map", path |-> q] \in [kind : Kind, path : Path]
        BY <2>2, Values DEF Answer, StoreTypes, Kind
    <2>4. pc' \in [Thread -> RequestPc \cup WorkerPc]
        BY <1>0, <2>1, States, Going DEF ThreadTypes
    <2>5. todo' \in [Thread -> SUBSET Path] /\ meta' \in [Thread -> Version \cup {NULL}]
        BY <1>0, <2>1, <2>3 DEF ThreadTypes
    <2>6. /\ at' \in [Thread -> Pe \cup {NULL}]
          /\ call' \in [Thread -> [kind : Kind, path : Path] \cup {NULL}]
        BY <1>0, <2>1, <2>2, <2>3 DEF ThreadTypes, TableTypes
    <2> QED
        BY <1>3, <2>4, <2>5, <2>6
        DEF cb_map_dirents, table, store, ThreadTypes, TableTypes, StoreTypes
<1>4. CASE map_end(w)
    <2>1. pc' \in [Thread -> RequestPc \cup WorkerPc]
        BY <1>0, <1>4, States, Going DEF map_end
    <2> QED
        BY <1>0, <1>4, <2>1 DEF map_end, table, store, ThreadTypes, TableTypes, StoreTypes
<1>5. ASSUME NextEntry(w) PROVE ThreadTypes'
    <2>1. CASE Leave(w)
        BY <1>0, <2>1, Leaving
    <2>2. CASE ~Leave(w)
        BY <1>0, <1>5, <2>2, States, Going DEF NextEntry, ThreadTypes
    <2> QED  BY <2>1, <2>2
<1>6. CASE md_trylock(w)
    <2>1. CASE meta[w] # NULL /\ ReleaseDict(w, at[w], w, "copy") /\ UNCHANGED <<call, pe, at, meta, todo>>
        <3>1. cell' \in [Pe -> Cell] /\ pc' \in [Thread -> RequestPc \cup WorkerPc]
            BY <1>0, <2>1, Releasing DEF Pointing
        <3> QED  BY <1>6, <2>1, <3>1 DEF md_trylock, store, ThreadTypes, TableTypes, StoreTypes
    <2>2. CASE Set(at[w], "md_mutex", w) /\ Goto(w, "copy") /\ UNCHANGED <<call, pe, at, meta, todo>>
        <3>1. cell' \in [Pe -> Cell]
            BY <1>0, <2>2, Fields DEF TableTypes, Set
        <3>2. pc' \in [Thread -> RequestPc \cup WorkerPc]
            BY <1>0, <2>2, States, Going DEF Pointing
        <3> QED  BY <1>6, <2>2, <3>1, <3>2 DEF md_trylock, store, ThreadTypes, TableTypes, StoreTypes
    <2>3. CASE NextEntry(w) /\ UNCHANGED cell
        BY <1>5, <1>6, <2>3 DEF md_trylock, store, TableTypes, StoreTypes
    <2> QED  BY <1>6, <2>1, <2>2, <2>3 DEF md_trylock
<1>7. CASE update_set(w)
    <2>1. ASSUME NEW c \in Cell
          PROVE  [c EXCEPT !.metadata = IF meta[w] = NULL THEN @ ELSE meta[w], !.old = FALSE,
                           !.md_mutex = NULL] \in Cell
        BY <1>0 DEF Cell, ThreadTypes
    <2>2. ASSUME NEW y \in Pe PROVE cell'[y] \in Cell
        BY <1>7, <2>1 DEF update_set, TableTypes
    <2>3. cell' \in [Pe -> Cell]
        BY <1>7, <2>2 DEF update_set, TableTypes
    <2> QED  BY <1>5, <1>7, <2>3 DEF update_set, store, TableTypes, StoreTypes
<1> QED  BY <1>1, <1>2, <1>3, <1>4, <1>6, <1>7 DEF Refresh

(* The same for the other clients, the kernel, the updater and time.       *)
LEMMA TypesOther ==
    ASSUME Types, changes \in 0..MaxChanges,
           \/ \E p \in Path : OtherClient(p) \/ cachedir_callback(p)
           \/ \E r \in Request, p \in Path : Kernel(r, p)
           \/ \E x \in Pe : Age(x)
           \/ \E t \in Thread : UseAfterFree(t)
    PROVE  Types'
<1> USE DEF Types
<1>1. ASSUME NEW p \in Path, OtherClient(p) PROVE Types'
    <2>1. changes + 1 \in Version
        BY <1>1, Values DEF OtherClient, Version
    <2> QED  BY <1>1, <2>1 DEF OtherClient, table, thread, ThreadTypes, TableTypes, StoreTypes
<1>2. ASSUME NEW p \in Path, cachedir_callback(p) PROVE Types'
    BY <1>2 DEF cachedir_callback, table, store, thread, ThreadTypes, TableTypes, StoreTypes
<1>3. ASSUME NEW r \in Request, NEW p \in Path, Kernel(r, p) PROVE Types'
    <2>0. r \in Thread
        BY DEF Thread
    <2>1. PICK k \in Kind, s \in {"getattr", "opendir", "unlink"} : Begin(r, k, p, s)
        BY <1>3 DEF Kernel, KernelLookup, KernelStat, KernelOpendir, KernelUnlink, Kind
    <2>2. pc' \in [Thread -> RequestPc \cup WorkerPc]
        BY <2>0, <2>1, States, Going DEF Begin
    <2> QED
        BY <2>0, <2>1, <2>2 DEF Begin, table, store, ThreadTypes, TableTypes, StoreTypes
<1>4. ASSUME NEW x \in Pe, Age(x) PROVE Types'
    <2>1. [cell EXCEPT ![x]["old"] = TRUE] \in [Pe -> Cell]
        <3>1. cell \in [Pe -> Cell]
            BY DEF TableTypes
        <3> QED  BY <3>1, Fields, Zenon
    <2>2. cell' \in [Pe -> Cell]
        BY <1>4, <2>1, Zenon DEF Age, Set
    <2> QED  BY <1>4, <2>2 DEF Age, store, thread, ThreadTypes, TableTypes, StoreTypes
<1>5. ASSUME NEW t \in Thread, UseAfterFree(t) PROVE Types'
    <2>1. pc' \in [Thread -> RequestPc \cup WorkerPc]
        BY <1>5, States, Going DEF UseAfterFree
    <2> QED
        BY <1>5, <2>1 DEF UseAfterFree, table, store, ThreadTypes, TableTypes, StoreTypes
<1> QED  BY <1>1, <1>2, <1>3, <1>4, <1>5

(* The two counters only grow.                                             *)
LEMMA Counters ==
    ASSUME Typed, Next
    PROVE  \/ UNCHANGED <<changes, unlinks>>
           \/ changes < MaxChanges /\ changes' = changes + 1 /\ unlinks' = unlinks
           \/ changes' = changes /\ unlinks' = unlinks + 1 /\ MaxUnlinks > 0
<1>1. ASSUME NEW r \in Request, Serve(r)
      PROVE  /\ changes' = changes
             /\ unlinks' = unlinks \/ (unlinks' = unlinks + 1 /\ MaxUnlinks > 0)
    BY <1>1
    DEF Typed, Served, Serve, Getattr, dfs_getattr, getattr_dispatch, getattr_remote_lock,
        getattr_remote, getattr_unset, getattr_unset_lock, getattr_unset_set,
        getattr_mark, dfs_create, create_set, create_mknod, dfs_opendir, dfs_unlink,
        unlink_remove, pentry_remove_dirent, store
<1>2. ASSUME NEW w \in Worker, Refresh(w) PROVE UNCHANGED <<changes, unlinks>>
    BY <1>2
    DEF Refresh, update_md, update_md_fails, cb_map_dirents, map_end, md_trylock,
        update_set, Takes, store
<1>3. \/ \E p \in Path : cachedir_callback(p)
      \/ \E r \in Request, p \in Path : Kernel(r, p)
      \/ \E x \in Pe : Age(x)
      \/ \E t \in Thread : UseAfterFree(t)
      => UNCHANGED <<changes, unlinks>>
    BY DEF cachedir_callback, Kernel, KernelLookup, KernelStat, KernelOpendir, KernelUnlink,
           Begin, Age, UseAfterFree, store
<1>4. ASSUME NEW p \in Path, OtherClient(p)
      PROVE  changes < MaxChanges /\ changes' = changes + 1 /\ unlinks' = unlinks
    BY <1>4 DEF OtherClient
<1> QED  BY <1>1, <1>2, <1>3, <1>4 DEF Next

(* The types of the counters, the queue and the kernel's names.            *)
LEMMA CountsStep ==
    ASSUME Typed, Next
    PROVE  Counts'
<1>1. known' \subseteq Path
    <2>1. ASSUME NEW r \in Request, Serve(r) PROVE known' \subseteq Path
        <3>0. r \in Thread
            BY DEF Thread
        <3>1. known' = known \/ PathOf(r) \in Path
            BY <2>1, <3>0
            DEF Typed, Served, Types, ThreadTypes, Serve, Getattr, PathOf, Pointing, Creating,
                dfs_getattr, getattr_dispatch, getattr_remote_lock, getattr_remote,
                getattr_unset, getattr_unset_lock, getattr_unset_set, getattr_mark,
                dfs_create, create_set, create_mknod, dfs_opendir, dfs_unlink,
                unlink_remove, pentry_remove_dirent, store
        <3>2. known' = known \/ known' = known \cup {PathOf(r)} \/ known' = known \ {PathOf(r)}
            BY <2>1
            DEF Serve, Getattr, Found, store,
                dfs_getattr, getattr_dispatch, getattr_remote_lock, getattr_remote,
                getattr_unset, getattr_unset_lock, getattr_unset_set, getattr_mark,
                dfs_create, create_set, create_mknod, dfs_opendir, dfs_unlink,
                unlink_remove, pentry_remove_dirent
        <3> QED  BY <3>1, <3>2 DEF Typed, Counts
    <2>2. CASE known' = known
        BY <2>2 DEF Typed, Counts
    <2>3. known' = known \/ \E r \in Request : Serve(r)
        BY DEF Next, OtherClient, Kernel, KernelLookup, KernelStat, KernelOpendir, KernelUnlink,
               Begin, Refresh, update_md, update_md_fails, cb_map_dirents, map_end, md_trylock,
               update_set, cachedir_callback, Age, UseAfterFree, store
    <2> QED  BY <2>1, <2>2, <2>3
<1>2. queue' \in Seq(Pe) /\ Len(queue') <= MaxQueue
    <2>1. ASSUME NEW p \in Path, cachedir_callback(p) PROVE queue' \in Seq(Pe) /\ Len(queue') <= MaxQueue
        <3>1. hash[p] \in Pe /\ queue' = Append(queue, hash[p]) /\ Len(queue) < MaxQueue
            BY <2>1, Values DEF cachedir_callback, Typed, Types, TableTypes
        <3> QED  BY <3>1, Values DEF Typed, Counts
    <2>2. CASE queue # << >> /\ queue' = Tail(queue)
        BY <2>2, Values DEF Typed, Counts
    <2>3. CASE queue' = queue
        BY <2>3 DEF Typed, Counts
    <2>4. \/ queue' = queue \/ (queue # << >> /\ queue' = Tail(queue))
          \/ \E p \in Path : cachedir_callback(p)
        <3>1. ASSUME NEW r \in Request, Serve(r) PROVE queue' = queue
            BY <3>1
            DEF Serve, Getattr, dfs_getattr, getattr_dispatch, getattr_remote_lock,
                getattr_remote, getattr_unset, getattr_unset_lock, getattr_unset_set,
                getattr_mark, dfs_create, create_set, create_mknod, dfs_opendir, dfs_unlink,
                unlink_remove, pentry_remove_dirent
        <3>2. ASSUME NEW w \in Worker, Refresh(w)
              PROVE  queue' = queue \/ (queue # << >> /\ queue' = Tail(queue))
            <4>1. CASE update_md(w)
                BY <4>1 DEF update_md, Takes
            <4>2. CASE update_md_fails(w)
                BY <4>2 DEF update_md_fails, Takes
            <4>3. CASE cb_map_dirents(w) \/ map_end(w)
                BY <4>3 DEF cb_map_dirents, map_end
            <4>4. CASE md_trylock(w) \/ update_set(w)
                BY <4>4 DEF md_trylock, update_set
            <4> QED  BY <3>2, <4>1, <4>2, <4>3, <4>4 DEF Refresh
        <3>3. ASSUME NEW p \in Path, OtherClient(p) PROVE queue' = queue
            BY <3>3 DEF OtherClient
        <3>4. ASSUME NEW r \in Request, NEW p \in Path, Kernel(r, p) PROVE queue' = queue
            BY <3>4 DEF Kernel, KernelLookup, KernelStat, KernelOpendir, KernelUnlink, Begin
        <3>5. ASSUME NEW x \in Pe, Age(x) PROVE queue' = queue
            BY <3>5 DEF Age
        <3>6. ASSUME NEW t \in Thread, UseAfterFree(t) PROVE queue' = queue
            BY <3>6 DEF UseAfterFree
        <3>7. CASE \E r \in Request : Serve(r) \/ \E p \in Path : Kernel(r, p)
            BY <3>1, <3>4, <3>7
        <3>8. CASE \E w \in Worker : Refresh(w)
            BY <3>2, <3>8
        <3>9. CASE ~(\E r \in Request : Serve(r) \/ \E p \in Path : Kernel(r, p))
                   /\ ~(\E w \in Worker : Refresh(w))
            BY <3>3, <3>5, <3>6, <3>9 DEF Next
        <3> QED  BY <3>7, <3>8, <3>9
    <2> QED  BY <2>1, <2>2, <2>3, <2>4
<1>3. /\ changes' \in 0..MaxChanges /\ unlinks' \in Nat
      /\ unlinks' > 0 => MaxUnlinks > 0
    BY Counters, Values DEF Typed, Counts
<1> QED  BY <1>1, <1>2, <1>3 DEF Counts, Typed

-----------------------------------------------------------------------------
(* What a step does to the table: nothing, a new cell, or one less.        *)
TableSame == hash' = hash /\ \A x \in Pe : cell'[x].state = cell[x].state
Inserted(r) ==
    \E type \in {"FILE_DIR", "garbage"} :
        /\ hash[PathOf(r)] = NULL /\ Insert(PathOf(r), type)
        /\ (dfs_getattr(r) /\ type = "garbage") \/ dfs_opendir(r)
Removed(r) == hash[PathOf(r)] # NULL /\ unlink_remove(r)

(* A step of a handler leaves the table alone, inserts the address malloc gave it, or
   removes the entry of its path (hash.c). *)
LEMMA TableServe ==
    ASSUME cell \in [Pe -> Cell], NEW r \in Request, Serve(r)
    PROVE  TableSame \/ Inserted(r) \/ Removed(r)
<1> USE DEF TableSame, table, Cell
<1>1. CASE dfs_getattr(r) \/ dfs_opendir(r)
    BY <1>1 DEF dfs_getattr, dfs_opendir, Inserted
<1>2. CASE getattr_dispatch(r) \/ getattr_remote_lock(r)
    BY <1>2 DEF getattr_dispatch, getattr_remote_lock, Return, Set
<1>3. CASE getattr_remote(r)
    BY <1>3 DEF getattr_remote
<1>4. CASE getattr_unset(r) \/ getattr_unset_set(r)
    BY <1>4 DEF getattr_unset, getattr_unset_set, Return, Set
<1>5. CASE getattr_unset_lock(r)
    BY <1>5 DEF getattr_unset_lock, ReleaseDict
<1>6. CASE getattr_mark(r)
    BY <1>6 DEF getattr_mark
<1>7. CASE dfs_create(r) \/ create_mknod(r)
    BY <1>7 DEF dfs_create, create_mknod, Set
<1>8. CASE create_set(r)
    BY <1>8 DEF create_set, Set, ReleaseDict
<1>9. CASE unlink_remove(r)
    BY <1>9 DEF unlink_remove, Removed
<1>10. CASE dfs_unlink(r) \/ pentry_remove_dirent(r)
    BY <1>10 DEF dfs_unlink, pentry_remove_dirent, Set
<1> QED
    BY <1>1, <1>2, <1>3, <1>4, <1>5, <1>6, <1>7, <1>8, <1>9, <1>10 DEF Serve, Getattr

(* No step of the updater or of its pool touches the table: cachedir.c only sets
   fields of cells. *)
LEMMA TableRefresh ==
    ASSUME cell \in [Pe -> Cell], NEW w \in Worker, Refresh(w)
    PROVE  TableSame
<1> USE DEF TableSame, table, Cell
<1>1. CASE update_md(w)
    BY <1>1 DEF update_md
<1>2. CASE update_md_fails(w) \/ cb_map_dirents(w)
    BY <1>2 DEF update_md_fails, cb_map_dirents
<1>3. CASE map_end(w) \/ md_trylock(w)
    BY <1>3 DEF map_end, md_trylock, Set, ReleaseDict
<1>4. CASE update_set(w)
    BY <1>4 DEF update_set
<1> QED  BY <1>1, <1>2, <1>3, <1>4 DEF Refresh

(* What a step of the system does to the table: nothing, or what a handler inserts or
   removes. *)
LEMMA TableEffect ==
    ASSUME Typed, Next
    PROVE  TableSame \/ \E r \in Request : Serve(r) /\ (Inserted(r) \/ Removed(r))
<1>0. cell \in [Pe -> Cell]
    BY DEF Typed, Types, TableTypes
<1>1. ASSUME NEW r \in Request, NEW p \in Path, Kernel(r, p) PROVE TableSame
    BY <1>1 DEF Kernel, KernelLookup, KernelStat, KernelOpendir, KernelUnlink, Begin,
                TableSame, table
<1>2. ASSUME NEW p \in Path, OtherClient(p) \/ cachedir_callback(p) PROVE TableSame
    BY <1>2 DEF OtherClient, cachedir_callback, TableSame, table
<1>3. ASSUME NEW x \in Pe, Age(x) PROVE TableSame
    BY <1>0, <1>3 DEF Age, TableSame, Set, Cell
<1>4. ASSUME NEW t \in Thread, UseAfterFree(t) PROVE TableSame
    BY <1>4 DEF UseAfterFree, TableSame, table
<1>5. ASSUME NEW r \in Request, Serve(r) PROVE TableSame \/ Inserted(r) \/ Removed(r)
    BY <1>0, <1>5, TableServe
<1>6. ASSUME NEW w \in Worker, Refresh(w) PROVE TableSame
    BY <1>0, <1>6, TableRefresh
<1> QED  BY <1>1, <1>2, <1>3, <1>4, <1>5, <1>6 DEF Next

(* The table goes on owning the live cells.                                *)
LEMMA OwnedStep ==
    ASSUME Typed, Next, Types'
    PROVE  Owned'
<1>1. CASE TableSame
    <2>1. \A p \in Path : hash'[p] = hash[p] /\ hash[p] \in Pe \cup {NULL}
        BY <1>1 DEF TableSame, Typed, Types, TableTypes
    <2> QED  BY <1>1, <2>1 DEF TableSame, Typed, Owned, Live
<1>2. ASSUME NEW r \in Request, Serve(r), Inserted(r) PROVE Owned'
    <2> DEFINE p == PathOf(r)
               x == Malloc
    <2>1. PICK type \in {"FILE_DIR", "garbage"} :
             /\ hash[p] = NULL /\ CanInsert
             /\ hash' = [hash EXCEPT ![p] = x]
             /\ cell' = [cell EXCEPT ![x] = pentry_new(type)]
        BY <1>2 DEF Inserted, Insert
    <2>2. x \in Pe /\ ~Live(x)
        BY <2>1, Allocated DEF FreePe
    <2>3. r \in Thread /\ pc[r] \in {"getattr", "opendir"}
        BY <1>2 DEF Inserted, dfs_getattr, dfs_opendir, Thread
    <2>4. p \in Path
        BY <2>3 DEF Typed, Served, Types, ThreadTypes, PathOf
    <2> HIDE DEF p, x
    <2>5. \A q \in Path : hash[q] # x
        BY <2>2, Values DEF Typed, Owned
    <2>6. /\ cell'[x].state = "live" /\ hash'[p] = x
          /\ \A y \in Pe : y # x => cell'[y].state = cell[y].state
          /\ \A q \in Path : q # p => hash'[q] = hash[q]
        BY <2>1, <2>2, <2>4 DEF Live, pentry_new, Typed, Types, TableTypes
    <2>7. ASSUME NEW a \in Path, NEW b \in Path, hash'[a] # NULL
          PROVE  cell'[hash'[a]].state = "live" /\ (hash'[a] = hash'[b] => a = b)
        <3>1. CASE a = p
            BY <2>5, <2>6, <3>1
        <3>2. CASE a # p
            <4>1. hash'[a] = hash[a] /\ hash[a] \in Pe /\ hash[a] # x /\ Live(hash[a])
                BY <2>5, <2>6, <2>7, <3>2 DEF Typed, Types, TableTypes, Owned
            <4>2. cell'[hash[a]].state = "live"
                BY <2>6, <4>1 DEF Live
            <4>3. hash[a] = hash[b] => a = b
                BY <4>1, Values DEF Typed, Owned
            <4>4. hash'[b] = IF b = p THEN x ELSE hash[b]
                BY <2>6
            <4>5. hash'[a] = hash'[b] => a = b
                BY <3>2, <4>1, <4>3, <4>4
            <4> QED  BY <4>1, <4>2, <4>5
        <3> QED  BY <3>1, <3>2
    <2>8. ASSUME NEW y \in Pe, cell'[y].state = "live" PROVE \E q \in Path : hash'[q] = y
        <3>1. CASE y = x
            BY <2>4, <2>6, <3>1
        <3>2. CASE y # x
            <4>1. PICK q \in Path : hash[q] = y
                BY <2>6, <2>8, <3>2 DEF Typed, Owned, Live
            <4>2. q # p
                BY <2>1, <4>1, Values DEF p
            <4> QED  BY <2>6, <4>1, <4>2
        <3> QED  BY <3>1, <3>2
    <2> QED  BY <2>7, <2>8 DEF Owned, Live
<1>3. ASSUME NEW r \in Request, Serve(r), Removed(r) PROVE Owned'
    <2> DEFINE p == PathOf(r)
               x == hash[p]
    <2>1. /\ hash[p] # NULL
          /\ hash' = [hash EXCEPT ![p] = NULL]
          /\ cell' = [cell EXCEPT ![x] = pentry_free]
        BY <1>3 DEF Removed, unlink_remove
    <2>2. r \in Thread /\ pc[r] = "remove"
        BY <1>3 DEF Removed, unlink_remove, Thread
    <2>3. p \in Path
        BY <2>2 DEF Typed, Served, Types, ThreadTypes, PathOf
    <2>4. x \in Pe /\ Live(x)
        BY <2>1, <2>3 DEF Typed, Types, TableTypes, Owned
    <2>5. \A q \in Path : q # p => hash[q] # x
        BY <2>1, <2>3 DEF Typed, Owned
    <2> HIDE DEF p, x
    <2>6. /\ cell'[x].state # "live" /\ hash'[p] = NULL
          /\ \A y \in Pe : y # x => cell'[y].state = cell[y].state
          /\ \A q \in Path : q # p => hash'[q] = hash[q]
        BY <2>1, <2>3, <2>4 DEF Live, pentry_free, pentry_new, Typed, Types, TableTypes
    <2>7. ASSUME NEW a \in Path, NEW b \in Path, hash'[a] # NULL
          PROVE  cell'[hash'[a]].state = "live" /\ (hash'[a] = hash'[b] => a = b)
        <3>1. a # p /\ hash'[a] = hash[a]
            BY <2>6, <2>7
        <3>2. hash[a] \in Pe /\ hash[a] # x /\ Live(hash[a])
            BY <2>5, <2>7, <3>1 DEF Typed, Types, TableTypes, Owned
        <3>3. cell'[hash[a]].state = "live"
            BY <2>6, <3>2 DEF Live
        <3>4. hash'[a] = hash'[b] => a = b
            BY <2>6, <2>7, <3>1, <3>2 DEF Typed, Owned
        <3> QED  BY <3>1, <3>3, <3>4
    <2>8. ASSUME NEW y \in Pe, cell'[y].state = "live" PROVE \E q \in Path : hash'[q] = y
        <3>1. y # x /\ Live(y)
            BY <2>6, <2>8 DEF Live
        <3>2. PICK q \in Path : hash[q] = y
            BY <3>1 DEF Typed, Owned
        <3>3. q # p
            BY <2>5, <3>1, <3>2 DEF x
        <3> QED  BY <2>6, <3>2, <3>3
    <2> QED  BY <2>7, <2>8 DEF Owned, Live
<1> QED  BY <1>1, <1>2, <1>3, TableEffect

-----------------------------------------------------------------------------
(* A step of one thread leaves what another has alone; only the removal of *)
(* a directory's entry can crash a pool thread.                            *)
Kept(t) == /\ call'[t] = call[t] /\ pe'[t] = pe[t]
           /\ at'[t] = at[t] /\ meta'[t] = meta[t]
Frame(t) == pc'[t] = pc[t] /\ Kept(t)

(* A handler that leaves changes nothing that is private to another thread. *)
LEMMA LeavingOthers ==
    ASSUME ThreadTypes, NEW r \in Thread, NEW t \in Thread, t # r, Leave(r)
    PROVE  Frame(t)
BY DEF ThreadTypes, Leave, Goto, Frame, Kept

(* A step of a handler leaves the private state of the other threads alone; a worker
   whose cell it frees may become undefined. *)
LEMMA OthersServe ==
    ASSUME ThreadTypes, NEW r \in Request, Serve(r), NEW t \in Thread, t # r
    PROVE  Kept(t) /\ (pc'[t] = pc[t] \/ (t \in Worker /\ pc'[t] = "undefined"))
<1> USE DEF ThreadTypes, Kept, Goto
<1>0. r \in Thread
    BY DEF Thread
<1>1. CASE Leave(r)
    BY <1>0, <1>1, LeavingOthers DEF Frame
<1>2. CASE ~Leave(r) /\ (dfs_getattr(r) \/ getattr_dispatch(r) \/ getattr_remote_lock(r))
    BY <1>2 DEF dfs_getattr, getattr_dispatch, getattr_remote_lock, Return
<1>3. CASE ~Leave(r) /\ (getattr_remote(r) \/ getattr_unset(r))
    BY <1>3 DEF getattr_remote, getattr_unset, Return
<1>4. CASE ~Leave(r) /\ (getattr_unset_lock(r) \/ getattr_unset_set(r) \/ getattr_mark(r))
    BY <1>4 DEF getattr_unset_lock, getattr_unset_set, getattr_mark, ReleaseDict
<1>5. CASE ~Leave(r) /\ (dfs_create(r) \/ create_set(r) \/ create_mknod(r))
    BY <1>5 DEF dfs_create, create_set, create_mknod, ReleaseDict
<1>6. CASE ~Leave(r) /\ (dfs_opendir(r) \/ dfs_unlink(r) \/ unlink_remove(r))
    BY <1>6 DEF dfs_opendir, dfs_unlink, unlink_remove
<1>7. CASE pentry_remove_dirent(r)
    BY <1>7 DEF pentry_remove_dirent
<1> QED  BY <1>1, <1>2, <1>3, <1>4, <1>5, <1>6, <1>7 DEF Serve, Getattr

(* A step of the updater or of a worker leaves the private state of the other threads
   alone. *)
LEMMA OthersRefresh ==
    ASSUME ThreadTypes, NEW w \in Worker, Refresh(w), NEW t \in Thread, t # w
    PROVE  Frame(t)
<1> USE DEF ThreadTypes, Kept, Goto, Frame
<1>0. w \in Thread
    BY DEF Thread
<1>1. CASE Leave(w)
    BY <1>0, <1>1, LeavingOthers
<1>2. CASE update_md(w)
    BY <1>2 DEF update_md
<1>3. CASE update_md_fails(w)
    BY <1>3 DEF update_md_fails, thread
<1>4. CASE cb_map_dirents(w)
    BY <1>4 DEF cb_map_dirents
<1>5. CASE map_end(w)
    BY <1>5 DEF map_end
<1>6. CASE ~Leave(w) /\ (md_trylock(w) \/ update_set(w))
    BY <1>6 DEF md_trylock, update_set, ReleaseDict, NextEntry
<1> QED  BY <1>1, <1>2, <1>3, <1>4, <1>5, <1>6 DEF Refresh

(* A request of the kernel leaves the private state of the other threads alone. *)
LEMMA OthersKernel ==
    ASSUME ThreadTypes, NEW r \in Request, NEW p \in Path, Kernel(r, p), NEW t \in Thread, t # r
    PROVE  Frame(t)
BY DEF ThreadTypes, Kernel, KernelLookup, KernelStat, KernelOpendir, KernelUnlink, Begin,
       Goto, Frame, Kept

(* The steps of nobody's handler.                                          *)
LEMMA OthersNone ==
    ASSUME ThreadTypes, NEW t \in Thread,
           \/ \E p \in Path : OtherClient(p) \/ cachedir_callback(p)
           \/ \E x \in Pe : Age(x)
    PROVE  Frame(t)
BY DEF OtherClient, cachedir_callback, Age, Frame, Kept, thread

(* What a request is doing belongs to its call, also after a step.         *)
LEMMA ServedOwn ==
    ASSUME Typed, HeldInv, NEW r \in Request, Serve(r)
    PROVE  Served(r)'
<1> USE DEF Served, PathOf, Goto
<1>0. r \in Thread /\ ThreadTypes /\ Served(r)
    BY DEF Thread, Typed, Types
<1>1. CASE Leave(r)
    BY <1>0, <1>1 DEF Leave, ThreadTypes, RequestPc, Pointing, Creating
<1> USE DEF RequestPc, Pointing, Creating, ThreadTypes
<1>2. CASE dfs_getattr(r)
    <2>1. pe'[r] # NULL
        <3>1. hash'[PathOf(r)] # NULL
            <4>1. CASE hash[PathOf(r)] # NULL
                BY <1>2, <4>1 DEF dfs_getattr, table
            <4>2. CASE hash[PathOf(r)] = NULL
                BY <1>0, <1>2, <4>2, Allocated, Values
                DEF dfs_getattr, Insert, Typed, Types, TableTypes
            <4> QED  BY <4>1, <4>2
        <3> QED  BY <1>0, <1>2, <3>1 DEF dfs_getattr
    <2> QED  BY <1>0, <1>2, <2>1 DEF dfs_getattr
<1>3. CASE ~Leave(r) /\ getattr_dispatch(r)
    BY <1>0, <1>3 DEF getattr_dispatch, Return
<1>4. CASE ~Leave(r) /\ (getattr_remote_lock(r) \/ getattr_remote(r))
    BY <1>0, <1>4 DEF getattr_remote_lock, getattr_remote
<1>5. CASE ~Leave(r) /\ getattr_unset(r)
    BY <1>0, <1>5 DEF getattr_unset, Return, Answer
<1>6. CASE getattr_unset_lock(r)
    BY <1>0, <1>6 DEF getattr_unset_lock, ReleaseDict
<1>7. CASE getattr_unset_set(r)
    BY <1>0, <1>7 DEF getattr_unset_set
<1>8. CASE dfs_create(r)
    <2>1. hash[PathOf(r)] # NULL
        BY <1>0, <1>8 DEF dfs_create, HeldInv, Holds
    <2> QED  BY <1>0, <1>8, <2>1, Values DEF dfs_create
<1>9. CASE create_set(r)
    BY <1>0, <1>9 DEF create_set, ReleaseDict
<1>10. CASE ~Leave(r) /\ dfs_unlink(r)
    <2>1. unlinks' > 0
        BY <1>10 DEF dfs_unlink, Typed, Counts
    <2> QED  BY <1>0, <1>10, <2>1 DEF dfs_unlink
<1>11. CASE ~Leave(r) /\ unlink_remove(r)
    BY <1>0, <1>11 DEF unlink_remove, store
<1>12. CASE pentry_remove_dirent(r)
    <2>1. call'[r] = NULL
        BY <1>0, <1>12 DEF pentry_remove_dirent
    <2>2. r \notin Worker
        BY Values
    <2>3. pc'[r] = "idle"
        <3>1. CASE Goto(r, "idle")
            BY <1>0, <3>1
        <3>2. CASE ~Goto(r, "idle")
            BY <1>0, <1>12, <2>2, <3>2 DEF pentry_remove_dirent
        <3> QED  BY <3>1, <3>2
    <2> QED  BY <2>1, <2>3
<1>13. CASE create_mknod(r) \/ dfs_opendir(r) \/ getattr_mark(r)
    BY <1>1, <1>13 DEF create_mknod, dfs_opendir, getattr_mark
<1> QED
    BY <1>1, <1>2, <1>3, <1>4, <1>5, <1>6, <1>7, <1>8, <1>9, <1>10, <1>11, <1>12, <1>13
    DEF Serve, Getattr

(* Where the kernel's requests start.                                      *)
LEMMA KernelStarts ==
    ASSUME ThreadTypes, NEW r \in Request, NEW p \in Path, Kernel(r, p)
    PROVE  /\ pc[r] = "idle" /\ pc'[r] \in {"getattr", "opendir", "unlink"}
           /\ \E k \in Kind : /\ call'[r] = [kind |-> k, path |-> p]
                              /\ k = "creat" => p \notin Dir
                              /\ k = "unlink" => unlinks < MaxUnlinks
                              /\ k \in {"lookup", "creat", "unlink"} => ~NameHeld(p)
                              /\ k \in {"lookup", "creat"} => p \notin known
                              /\ k = "stat" => p \in known
                              /\ pc'[r] = "getattr" => k \in {"lookup", "stat", "creat"}
                              /\ pc'[r] = "unlink" => k = "unlink"
           /\ UNCHANGED <<table, store, pe, at, meta, queue>>
<1> USE DEF Begin, Goto, ThreadTypes, Thread, Kind
<1>1. CASE KernelLookup(r, p) /\ Begin(r, "lookup", p, "getattr")
    BY <1>1 DEF KernelLookup
<1>2. CASE KernelLookup(r, p) /\ p \notin Dir /\ Begin(r, "creat", p, "getattr")
    BY <1>2 DEF KernelLookup
<1>3. CASE KernelStat(r, p)
    BY <1>3 DEF KernelStat
<1>4. CASE KernelOpendir(r, p)
    BY <1>4 DEF KernelOpendir
<1>5. CASE KernelUnlink(r, p)
    BY <1>5 DEF KernelUnlink
<1> QED  BY <1>1, <1>2, <1>3, <1>4, <1>5 DEF Kernel, KernelLookup

(* A crash at a dangling pointer changes one state only.                   *)
LEMMA Crashing ==
    ASSUME ThreadTypes, NEW t \in Thread, UseAfterFree(t)
    PROVE  /\ pc'[t] = "undefined" /\ \A s \in Thread : s # t => pc'[s] = pc[s]
           /\ UNCHANGED <<table, store, call, pe, at, meta, todo, queue>>
           /\ t \in Worker \/ pc[t] \in Pointing
BY DEF ThreadTypes, UseAfterFree, Goto, Dangling, Thread, Pointing

(* A handler in the middle of a request keeps its request, and the fields its place
   needs. *)
LEMMA ServedStep ==
    ASSUME Typed, HeldInv, Next, NEW r \in Request
    PROVE  Served(r)'
<1>0. r \in Thread /\ ThreadTypes /\ Served(r) /\ unlinks \in Nat
    BY DEF Thread, Typed, Types, Counts
<1>1. CASE Serve(r)
    BY <1>1, ServedOwn
<1>2. ASSUME Frame(r), unlinks' = unlinks \/ unlinks' = unlinks + 1 PROVE Served(r)'
    BY <1>0, <1>2 DEF Frame, Kept, Served, PathOf
<1>3. ASSUME NEW p \in Path, Kernel(r, p) PROVE Served(r)'
    <2>1. PICK k \in Kind : /\ call'[r] = [kind |-> k, path |-> p]
                            /\ k = "creat" => p \notin Dir
                            /\ k = "unlink" => unlinks < MaxUnlinks
                            /\ pc'[r] = "getattr" => k \in {"lookup", "stat", "creat"}
                            /\ pc'[r] = "unlink" => k = "unlink"
        BY <1>0, <1>3, KernelStarts
    <2>2. call'[r] # NULL /\ call'[r].kind = k /\ call'[r].path = p
        BY <2>1, Values
    <2>3. pc'[r] \in {"getattr", "opendir", "unlink"}
        BY <1>0, <1>3, KernelStarts
    <2> QED
        BY <1>0, <2>1, <2>2, <2>3, Values DEF Served, PathOf, RequestPc, Pointing, Creating
<1>4. CASE UseAfterFree(r)
    <2>1. pc'[r] = "undefined" /\ call'[r] = call[r] /\ call[r] # NULL /\ r \notin Worker
        BY <1>0, <1>4, Crashing, Values DEF Served, Pointing
    <2> QED  BY <1>0, <2>1 DEF Served, PathOf, RequestPc, Pointing, Creating
<1>5. ASSUME NEW s \in Request, s # r, Serve(s) PROVE Served(r)'
    <2>1. Frame(r)
        BY <1>0, <1>5, OthersServe, Values DEF Frame
    <2>2. unlinks' = unlinks \/ unlinks' = unlinks + 1
        BY <1>5
        DEF Serve, Getattr, dfs_getattr, getattr_dispatch, getattr_remote_lock,
            getattr_remote, getattr_unset, getattr_unset_lock, getattr_unset_set,
            getattr_mark, dfs_create, create_set, create_mknod, dfs_opendir, dfs_unlink,
            unlink_remove, pentry_remove_dirent, store
    <2> QED  BY <1>2, <2>1, <2>2
<1>6. ASSUME NEW s \in Request, s # r, NEW p \in Path, Kernel(s, p) PROVE Served(r)'
    <2>1. Frame(r) /\ unlinks' = unlinks
        BY <1>0, <1>6, OthersKernel, KernelStarts DEF store
    <2> QED  BY <1>2, <2>1
<1>7. ASSUME NEW w \in Worker, Refresh(w) PROVE Served(r)'
    <2>1. Frame(r)
        BY <1>0, <1>7, OthersRefresh, Values
    <2>2. unlinks' = unlinks
        BY <1>7 DEF Refresh, update_md, update_md_fails, cb_map_dirents, map_end, md_trylock,
                    update_set, store
    <2> QED  BY <1>2, <2>1, <2>2
<1>8. ASSUME NEW t \in Thread, t # r, UseAfterFree(t) PROVE Served(r)'
    <2>1. Frame(r) /\ unlinks' = unlinks
        BY <1>0, <1>8, Crashing DEF Frame, Kept, store
    <2> QED  BY <1>2, <2>1
<1>9. ASSUME \/ \E p \in Path : OtherClient(p) \/ cachedir_callback(p)
             \/ \E x \in Pe : Age(x)
      PROVE  Served(r)'
    <2>1. Frame(r)
        BY <1>0, <1>9, OthersNone
    <2>2. unlinks' = unlinks
        BY <1>9 DEF OtherClient, cachedir_callback, Age, store
    <2> QED  BY <1>2, <2>1, <2>2
<1> QED  BY <1>1, <1>3, <1>4, <1>5, <1>6, <1>7, <1>8, <1>9 DEF Next

(* A worker of the pool stays at the places of update_md and cb_map_dirents. *)
LEMMA WorkerStep ==
    ASSUME Typed, Next, NEW w \in Worker
    PROVE  pc'[w] \in WorkerPc
<1>0. w \in Thread /\ ThreadTypes /\ pc[w] \in WorkerPc /\ w \notin Request
    BY Values DEF Thread, Typed, Types
<1>1. CASE Refresh(w)
    <2> USE DEF Goto, Leave, ThreadTypes, WorkerPc
    <2>1. CASE update_md(w)
        BY <1>0, <2>1 DEF update_md
    <2>2. CASE update_md_fails(w) \/ map_end(w)
        BY <1>0, <2>2 DEF update_md_fails, map_end, thread
    <2>3. CASE cb_map_dirents(w)
        BY <1>0, <2>3 DEF cb_map_dirents
    <2>4. CASE md_trylock(w) \/ update_set(w)
        BY <1>0, <2>4 DEF md_trylock, update_set, NextEntry, ReleaseDict
    <2> QED  BY <1>1, <2>1, <2>2, <2>3, <2>4 DEF Refresh
<1>2. ASSUME NEW r \in Request, Serve(r) PROVE pc'[w] \in WorkerPc
    BY <1>0, <1>2, OthersServe DEF WorkerPc
<1>3. ASSUME NEW r \in Request, NEW p \in Path, Kernel(r, p) PROVE pc'[w] \in WorkerPc
    BY <1>0, <1>3, OthersKernel DEF Frame
<1>4. ASSUME NEW t \in Thread, UseAfterFree(t) PROVE pc'[w] \in WorkerPc
    BY <1>0, <1>4, Crashing DEF WorkerPc
<1>5. ASSUME NEW v \in Worker, v # w, Refresh(v) PROVE pc'[w] \in WorkerPc
    BY <1>0, <1>5, OthersRefresh DEF Frame
<1>6. ASSUME \/ \E p \in Path : OtherClient(p) \/ cachedir_callback(p)
             \/ \E x \in Pe : Age(x)
      PROVE  pc'[w] \in WorkerPc
    BY <1>0, <1>6, OthersNone DEF Frame
<1> QED  BY <1>1, <1>2, <1>3, <1>4, <1>5, <1>6 DEF Next

(* Every step keeps the ranges, the requests being served and the places of the
   workers. *)
LEMMA TypedStep ==
    ASSUME Typed, HeldInv, Next
    PROVE  Typed'
<1>1. /\ Types /\ queue \in Seq(Pe) /\ Owned /\ changes \in 0..MaxChanges
      /\ \A r \in Request : Served(r)
      /\ \A w \in Worker : pc[w] \in WorkerPc
    BY DEF Typed, Counts
<1>2. Types'
    <2>1. ASSUME NEW r \in Request, Serve(r) PROVE Types'
        BY <1>1, <2>1, TypesGetattr, TypesCreate, TypesUnlink DEF Serve
    <2>2. ASSUME NEW w \in Worker, Refresh(w) PROVE Types'
        <3>1. pc[w] \in WorkerPc /\ queue \in Seq(Pe) /\ Owned /\ Types
            BY <1>1
        <3> QED  BY <2>2, <3>1, TypesRefresh, Zenon
    <2>3. CASE \/ \E p \in Path : OtherClient(p) \/ cachedir_callback(p)
               \/ \E r \in Request, p \in Path : Kernel(r, p)
               \/ \E x \in Pe : Age(x)
               \/ \E t \in Thread : UseAfterFree(t)
        BY <1>1, <2>3, TypesOther
    <2> QED  BY <2>1, <2>2, <2>3 DEF Next
<1> QED  BY <1>2, OwnedStep, CountsStep, ServedStep, WorkerStep DEF Typed

-----------------------------------------------------------------------------
(* A request's own step within its handler: its call stays or it leaves.   *)
LEMMA OwnCall ==
    ASSUME ThreadTypes, NEW r \in Request, Serve(r)
    PROVE  /\ call'[r] = call[r] \/ (call'[r] = NULL /\ pc'[r] = "idle")
           /\ pc[r] # "idle"
<1> USE DEF ThreadTypes, Goto
<1>0. r \in Thread /\ r \notin Worker
    BY Values DEF Thread
<1>1. CASE Leave(r)
    <2>1. call'[r] = NULL /\ pc'[r] = "idle"
        BY <1>0, <1>1 DEF Leave
    <2>2. pc[r] # "idle"
        BY DEF Serve, Getattr, dfs_getattr, getattr_dispatch, getattr_remote_lock,
               getattr_remote, getattr_unset, getattr_unset_lock, getattr_unset_set,
               getattr_mark, dfs_create, create_set, create_mknod, dfs_opendir, dfs_unlink,
               unlink_remove, pentry_remove_dirent
    <2> QED  BY <2>1, <2>2
<1>2. CASE ~Leave(r) /\ (dfs_getattr(r) \/ getattr_dispatch(r) \/ getattr_remote_lock(r))
    BY <1>2 DEF dfs_getattr, getattr_dispatch, getattr_remote_lock, Return
<1>3. CASE ~Leave(r) /\ (getattr_remote(r) \/ getattr_unset(r))
    BY <1>3 DEF getattr_remote, getattr_unset, Return
<1>4. CASE ~Leave(r) /\ (getattr_unset_lock(r) \/ getattr_unset_set(r) \/ getattr_mark(r))
    BY <1>4 DEF getattr_unset_lock, getattr_unset_set, getattr_mark
<1>5. CASE ~Leave(r) /\ (dfs_create(r) \/ create_set(r) \/ create_mknod(r))
    BY <1>5 DEF dfs_create, create_set, create_mknod
<1>6. CASE ~Leave(r) /\ (dfs_opendir(r) \/ dfs_unlink(r) \/ unlink_remove(r))
    BY <1>6 DEF dfs_opendir, dfs_unlink, unlink_remove
<1>7. CASE pentry_remove_dirent(r)
    <2>1. call'[r] = NULL /\ pc[r] # "idle"
        BY <1>0, <1>7 DEF pentry_remove_dirent
    <2>2. pc'[r] = "idle"
        <3>1. CASE Goto(r, "idle")
            BY <1>0, <3>1
        <3>2. CASE ~Goto(r, "idle")
            BY <1>0, <1>7, <3>2 DEF pentry_remove_dirent
        <3> QED  BY <3>1, <3>2
    <2> QED  BY <2>1, <2>2
<1> QED  BY <1>1, <1>2, <1>3, <1>4, <1>5, <1>6, <1>7 DEF Serve, Getattr

(* A request that goes on with a cell had it before, or has just looked it *)
(* up.                                                                     *)
LEMMA OwnPointer ==
    ASSUME ThreadTypes, NEW r \in Request, Serve(r), ~dfs_getattr(r),
           pc'[r] \in Pointing \cup Creating
    PROVE  /\ pc[r] \in Pointing \cup Creating /\ hash' = hash
           /\ pe'[r] = pe[r] \/ pe'[r] = hash[PathOf(r)]
           /\ pc'[r] \in Pointing => pc[r] \in Pointing \/ pe'[r] = hash[PathOf(r)]
<1> USE DEF ThreadTypes, Goto, Pointing, Creating
<1>0. r \in Thread /\ r \notin Worker /\ pc'[r] # "idle"
    BY Values DEF Thread
<1>1. ~Leave(r) /\ ~pentry_remove_dirent(r)
    BY <1>0, OwnCall DEF Leave, pentry_remove_dirent
<1>2. CASE getattr_dispatch(r) \/ getattr_remote_lock(r)
    BY <1>0, <1>1, <1>2 DEF getattr_dispatch, getattr_remote_lock, Return, table
<1>3. CASE getattr_remote(r) \/ getattr_unset(r)
    BY <1>0, <1>1, <1>3 DEF getattr_remote, getattr_unset, Return, table
<1>4. CASE getattr_unset_lock(r) \/ getattr_unset_set(r) \/ getattr_mark(r)
    BY <1>0, <1>1, <1>4 DEF getattr_unset_lock, getattr_unset_set, getattr_mark
<1>5. CASE dfs_create(r) \/ create_set(r) \/ create_mknod(r)
    BY <1>0, <1>1, <1>5 DEF dfs_create, create_set, create_mknod
<1>6. CASE dfs_opendir(r) \/ dfs_unlink(r) \/ unlink_remove(r)
    BY <1>0, <1>1, <1>6 DEF dfs_opendir, dfs_unlink, unlink_remove
<1> QED  BY <1>1, <1>2, <1>3, <1>4, <1>5, <1>6 DEF Serve, Getattr

(* Which call a request has after a step.                                  *)
LEMMA CallEffect ==
    ASSUME ThreadTypes, Next, NEW r \in Request
    PROVE  \/ call'[r] = call[r]
           \/ Serve(r) /\ call'[r] = NULL
           \/ \E p \in Path : Kernel(r, p)
<1>0. r \in Thread /\ r \notin Worker
    BY Values DEF Thread
<1>1. ASSUME NEW s \in Request, Serve(s) PROVE call'[r] = call[r] \/ (Serve(r) /\ call'[r] = NULL)
    BY <1>0, <1>1, OwnCall, OthersServe DEF Kept
<1>2. ASSUME NEW s \in Request, NEW p \in Path, Kernel(s, p)
      PROVE  call'[r] = call[r] \/ Kernel(r, p)
    BY <1>0, <1>2, OthersKernel DEF Frame, Kept
<1>3. ASSUME NEW w \in Worker, Refresh(w) PROVE call'[r] = call[r]
    BY <1>0, <1>3, OthersRefresh DEF Frame, Kept
<1>4. ASSUME NEW t \in Thread, UseAfterFree(t) PROVE call'[r] = call[r]
    BY <1>4 DEF UseAfterFree
<1>5. ASSUME \/ \E p \in Path : OtherClient(p) \/ cachedir_callback(p)
             \/ \E x \in Pe : Age(x)
      PROVE  call'[r] = call[r]
    BY <1>0, <1>5, OthersNone DEF Frame, Kept
<1> QED  BY <1>1, <1>2, <1>3, <1>4, <1>5 DEF Next

(* A request that has no step of its own has its state and its pointer     *)
(* still.                                                                  *)
LEMMA Resting ==
    ASSUME ThreadTypes, Next, NEW r \in Request
    PROVE  \/ Frame(r)
           \/ Serve(r) \/ UseAfterFree(r)
           \/ \E p \in Path : Kernel(r, p)
<1>0. r \in Thread /\ r \notin Worker
    BY Values DEF Thread
<1>1. ASSUME NEW s \in Request, s # r, Serve(s) PROVE Frame(r)
    BY <1>0, <1>1, OthersServe DEF Frame
<1>2. ASSUME NEW s \in Request, s # r, NEW p \in Path, Kernel(s, p) PROVE Frame(r)
    BY <1>0, <1>2, OthersKernel
<1>3. ASSUME NEW w \in Worker, Refresh(w) PROVE Frame(r)
    BY <1>0, <1>3, OthersRefresh
<1>4. ASSUME NEW t \in Thread, t # r, UseAfterFree(t) PROVE Frame(r)
    BY <1>0, <1>4, Crashing DEF Frame, Kept
<1>5. ASSUME \/ \E p \in Path : OtherClient(p) \/ cachedir_callback(p)
             \/ \E x \in Pe : Age(x)
      PROVE  Frame(r)
    BY <1>0, <1>5, OthersNone
<1> QED  BY <1>1, <1>2, <1>3, <1>4, <1>5 DEF Next

(* The cell of a held name stays in the table: the one request that could  *)
(* remove it would hold the name too.                                      *)
LEMMA HeldCell ==
    ASSUME Typed, HeldInv, Next, NEW r \in Request, Holds(r), hash[PathOf(r)] # NULL, ~Serve(r)
    PROVE  hash'[PathOf(r)] = hash[PathOf(r)]
<1>1. CASE hash' = hash
    BY <1>1
<1>2. ASSUME NEW s \in Request, Serve(s), Inserted(s) PROVE hash'[PathOf(r)] = hash[PathOf(r)]
    BY <1>2 DEF Inserted, Insert, Typed, Types, TableTypes
<1>3. ASSUME NEW s \in Request, Serve(s), Removed(s) PROVE hash'[PathOf(r)] = hash[PathOf(r)]
    <2>1. s # r /\ pc[s] = "remove" /\ hash' = [hash EXCEPT ![PathOf(s)] = NULL]
        BY <1>3 DEF Removed, unlink_remove
    <2>2. Holds(s)
        BY <2>1 DEF Typed, Served, Holds
    <2>3. PathOf(s) # PathOf(r)
        BY <2>1, <2>2 DEF HeldInv
    <2> QED  BY <2>1, <2>3 DEF Typed, Types, TableTypes
<1> QED  BY <1>1, <1>2, <1>3, TableEffect DEF TableSame

(* Every step keeps HeldInv: a name the kernel holds for a handler is held for that
   one alone. *)
LEMMA HeldStep ==
    ASSUME Typed, HeldInv, Next
    PROVE  HeldInv'
<1>0. ThreadTypes /\ TableTypes
    BY DEF Typed, Types
<1>1. ASSUME NEW r \in Request, NEW s \in Request,
             Holds(r)', Holds(s)', PathOf(r)' = PathOf(s)', r # s
      PROVE  FALSE
    <2>1. ASSUME NEW a \in Request, NEW b \in Request, NEW p \in Path, Kernel(a, p),
                 Holds(a)', Holds(b)', PathOf(a)' = PathOf(b)', a # b
          PROVE  FALSE
        <3>1. a \in Thread /\ b \in Thread
            BY DEF Thread
        <3>2. PICK k \in Kind : /\ call'[a] = [kind |-> k, path |-> p]
                                /\ k \in {"lookup", "creat", "unlink"} => ~NameHeld(p)
            BY <1>0, <2>1, KernelStarts
        <3>3. ~NameHeld(p) /\ call'[a].path = p
            BY <2>1, <3>2 DEF Holds
        <3>4. call'[b] = call[b]
            BY <1>0, <2>1, <3>1, OthersKernel DEF Frame, Kept
        <3> QED  BY <2>1, <3>3, <3>4 DEF NameHeld, Holds, PathOf
    <2>2. CASE call'[r] = call[r] /\ call'[s] = call[s]
        BY <1>1, <2>2 DEF HeldInv, Holds, PathOf
    <2>3. call'[r] # NULL /\ call'[s] # NULL
        BY <1>1 DEF Holds
    <2>4. call'[r] = call[r] \/ \E p \in Path : Kernel(r, p)
        BY <1>0, <2>3, CallEffect
    <2>5. call'[s] = call[s] \/ \E p \in Path : Kernel(s, p)
        BY <1>0, <2>3, CallEffect
    <2> QED  BY <1>1, <2>1, <2>2, <2>4, <2>5
<1>2. ASSUME NEW r \in Request, Holds(r)', pc'[r] \in Pointing \cup Creating
      PROVE  hash'[PathOf(r)'] # NULL /\ pe'[r] = hash'[PathOf(r)']
    <2>0. r \in Thread /\ pc'[r] # "idle" /\ call'[r] # NULL
          /\ pc'[r] \notin {"getattr", "opendir", "unlink", "undefined"}
        BY <1>2 DEF Thread, Pointing, Creating, Holds
    <2>1. call'[r] = call[r] /\ PathOf(r)' = PathOf(r)
        BY <1>0, <2>0, CallEffect, KernelStarts DEF PathOf
    <2>2. Holds(r)
        BY <1>2, <2>1 DEF Holds
    <2>3. CASE Frame(r) /\ ~Serve(r)
        <3>1. hash[PathOf(r)] # NULL /\ pe[r] = hash[PathOf(r)]
            BY <1>2, <2>2, <2>3 DEF HeldInv, Frame
        <3> QED  BY <2>1, <2>2, <2>3, <3>1, HeldCell DEF Frame, Kept
    <2>4. CASE Serve(r) /\ ~dfs_getattr(r)
        <3>1. /\ pc[r] \in Pointing \cup Creating /\ hash' = hash
              /\ pe'[r] = pe[r] \/ pe'[r] = hash[PathOf(r)]
            BY <1>0, <1>2, <2>4, OwnPointer
        <3> QED  BY <2>1, <2>2, <3>1 DEF HeldInv
    <2>5. CASE dfs_getattr(r)
        <3>1. PathOf(r) \in Path
            BY <2>0, <2>5 DEF dfs_getattr, Typed, Served, Types, ThreadTypes, PathOf
        <3>2. hash'[PathOf(r)] # NULL
            <4>1. CASE hash[PathOf(r)] # NULL
                BY <2>5, <4>1 DEF dfs_getattr, table
            <4>2. CASE hash[PathOf(r)] = NULL
                BY <1>0, <2>5, <3>1, <4>2, Allocated, Values DEF dfs_getattr, Insert, TableTypes
            <4> QED  BY <4>1, <4>2
        <3>3. pe'[r] = hash'[PathOf(r)]
            BY <1>0, <2>0, <2>5 DEF dfs_getattr, ThreadTypes
        <3> QED  BY <2>1, <3>2, <3>3
    <2>6. ~UseAfterFree(r) /\ ~\E p \in Path : Kernel(r, p)
        BY <1>0, <2>0, Crashing, KernelStarts
    <2> QED  BY <1>0, <2>3, <2>4, <2>5, <2>6, Resting
<1>3. \A r, s \in Request :
         Holds(r)' /\ Holds(s)' /\ PathOf(s)' = PathOf(r)' => s = r
    BY <1>1
<1>4. \A r \in Request : Holds(r)' /\ pc'[r] \in Pointing \cup Creating =>
         hash'[PathOf(r)'] # NULL /\ pe'[r] = hash'[PathOf(r)']
    BY <1>2
<1> QED  BY <1>3, <1>4 DEF HeldInv

(* The invariant of types and names, and the types.                        *)
LEMMA BaseInit == Init => Typed /\ HeldInv
<1> SUFFICES ASSUME Init PROVE Typed /\ HeldInv
    OBVIOUS
<1>1. pentry_free \in Cell /\ pentry_free.state = "free"
    BY Values DEF pentry_free, pentry_new, Cell
<1>2. /\ ThreadTypes
      /\ \A r \in Request : pc[r] = "idle" /\ call[r] = NULL
      /\ \A w \in Worker : pc[w] \in WorkerPc
    BY DEF Init, ThreadTypes, RequestPc, WorkerPc, Thread
<1>3. TableTypes /\ StoreTypes /\ Owned
    BY <1>1, Values DEF Init, TableTypes, StoreTypes, Owned, Live
<1>4. Counts
    BY Values DEF Init, Counts
<1>5. \A r \in Request : Served(r)
    BY <1>2 DEF Served, RequestPc, Pointing, Creating
<1>6. HeldInv
    BY <1>2 DEF HeldInv, Holds
<1> QED  BY <1>2, <1>3, <1>4, <1>5, <1>6 DEF Typed, Types

(* The types and the names held, from every initial state on: what all later
   invariants start from. *)
LEMMA Base == Spec => [](Typed /\ HeldInv)
<1>1. Typed /\ HeldInv /\ [Next]_vars => (Typed /\ HeldInv)'
    <2>1. CASE Next
        BY <2>1, TypedStep, HeldStep
    <2>2. CASE UNCHANGED vars
        BY <2>2
        DEF vars, table, store, thread, Typed, Types, ThreadTypes, TableTypes, StoreTypes,
            Counts, Owned, Served, Live, PathOf, HeldInv, Holds
    <2> QED  BY <2>1, <2>2
<1> QED  BY <1>1, BaseInit, PTL DEF Spec

(* TypeOK: cells, pointers, calls, the queue of the pool; and the table    *)
(* owns the live cells, one for each path, whatever threads remove and     *)
(* insert at the same time (hash.c, getattr.c, opendir.c, unlink.c).       *)
THEOREM TypeCorrect == Spec => []TypeOK
<1>1. Typed => TypeOK
    BY TypedShape DEF ShapeInv
<1> QED  BY <1>1, Base, PTL

-----------------------------------------------------------------------------
(* What a step does to the mutex of a cell: nothing, or its thread takes   *)
(* it while it is free, or leaves the dictionary and unlocks it.           *)
Takes1(t, x)  == At(t) = x /\ cell[x].md_mutex = NULL /\ cell'[x].md_mutex = t
Unlocks(t, x) ==
    /\ At(t) = x /\ pc[t] \in {"read", "copy"} /\ pc'[t] \notin {"read", "copy"}
    /\ cell'[x].md_mutex = NULL

(* A handler changes the metadata mutex of a live cell only by creating the cell,
   taking the mutex or releasing it. *)
LEMMA MutexServe ==
    ASSUME Types, NEW r \in Request, Serve(r), NEW x \in Pe, cell'[x].state = "live"
    PROVE  \/ cell'[x].md_mutex = cell[x].md_mutex
           \/ Inserted(r) /\ x = Malloc
           \/ Takes1(r, x) \/ Unlocks(r, x)
<1>0. r \in Thread /\ ThreadTypes /\ cell \in [Pe -> Cell] /\ At(r) = pe[r]
    BY DEF Thread, Types, TableTypes, At
<1> USE DEF ThreadTypes, Cell, Goto, table
<1>1. CASE dfs_getattr(r)
    BY <1>0, <1>1 DEF dfs_getattr, Inserted, Insert
<1>2. CASE dfs_opendir(r)
    BY <1>0, <1>2 DEF dfs_opendir, Inserted, Insert
<1>3. CASE getattr_dispatch(r) \/ getattr_unset(r)
    BY <1>0, <1>3 DEF getattr_dispatch, getattr_unset, Return, Set
<1>4. CASE getattr_remote_lock(r)
    BY <1>0, <1>4 DEF getattr_remote_lock, Set, Takes1
<1>5. CASE getattr_remote(r)
    BY <1>0, <1>5 DEF getattr_remote, Unlocks, Leave
<1>6. CASE getattr_unset_lock(r)
    BY <1>0, <1>6 DEF getattr_unset_lock, ReleaseDict, Takes1
<1>7. CASE getattr_unset_set(r)
    BY <1>0, <1>7 DEF getattr_unset_set, Unlocks
<1>8. CASE getattr_mark(r)
    BY <1>0, <1>8 DEF getattr_mark
<1>9. CASE dfs_create(r) \/ create_mknod(r)
    BY <1>0, <1>9 DEF dfs_create, create_mknod, Set
<1>10. CASE create_set(r)
    BY <1>0, <1>10 DEF create_set, Set, ReleaseDict
<1>11. CASE unlink_remove(r)
    BY <1>0, <1>11 DEF unlink_remove, pentry_free, pentry_new
<1>12. CASE dfs_unlink(r) \/ pentry_remove_dirent(r)
    BY <1>0, <1>12 DEF dfs_unlink, pentry_remove_dirent, Set
<1> QED
    BY <1>1, <1>2, <1>3, <1>4, <1>5, <1>6, <1>7, <1>8, <1>9, <1>10, <1>11, <1>12
    DEF Serve, Getattr

(* A worker changes the metadata mutex of a cell only by taking it or releasing it. *)
LEMMA MutexRefresh ==
    ASSUME Types, NEW w \in Worker, Refresh(w), NEW x \in Pe
    PROVE  \/ cell'[x].md_mutex = cell[x].md_mutex
           \/ Takes1(w, x) \/ Unlocks(w, x)
<1>0. w \in Thread /\ ThreadTypes /\ cell \in [Pe -> Cell] /\ At(w) = at[w]
    BY Values DEF Thread, Types, TableTypes, At
<1> USE DEF ThreadTypes, Cell, Goto, table
<1>1. CASE update_md(w) \/ update_md_fails(w)
    BY <1>1 DEF update_md, update_md_fails
<1>2. CASE cb_map_dirents(w) \/ map_end(w)
    BY <1>2 DEF cb_map_dirents, map_end
<1>3. CASE md_trylock(w)
    BY <1>0, <1>3 DEF md_trylock, Set, ReleaseDict, Takes1
<1>4. CASE update_set(w)
    <2>1. pc[w] = "copy" /\ pc'[w] \in {"map", "idle"}
        BY <1>0, <1>4 DEF update_set, NextEntry, Leave
    <2> QED  BY <1>0, <1>4, <2>1 DEF update_set, Unlocks
<1> QED  BY <1>1, <1>2, <1>3, <1>4 DEF Refresh

(* The same for a step of the system, with the cells that a handler frees. *)
LEMMA MutexEffect ==
    ASSUME Typed, Next, NEW x \in Pe, cell'[x].state = "live"
    PROVE  \/ Live(x) /\ cell'[x].md_mutex = cell[x].md_mutex
           \/ Live(x) /\ \E t \in Thread : Takes1(t, x) \/ Unlocks(t, x)
           \/ FreePe(x)
<1>0. Types /\ cell \in [Pe -> Cell] /\ TableTypes
    BY DEF Typed, Types, TableTypes
<1>1. ASSUME NEW r \in Request, Serve(r), Inserted(r) PROVE x = Malloc \/ cell'[x] = cell[x]
    BY <1>0, <1>1 DEF Inserted, Insert
<1>2. ASSUME NEW r \in Request, Serve(r), Removed(r) PROVE cell'[x] = cell[x]
    BY <1>0, <1>2 DEF Removed, unlink_remove, pentry_free, pentry_new
<1>3. CASE \E r \in Request : Serve(r) /\ (Inserted(r) \/ Removed(r))
    <2>1. (x = Malloc /\ CanInsert) \/ cell'[x] = cell[x]
        BY <1>1, <1>2, <1>3 DEF Inserted, Insert
    <2> QED  BY <2>1, Allocated DEF Live
<1>4. CASE TableSame
    <2>1. Live(x)
        BY <1>4 DEF TableSame, Live
    <2>2. ASSUME NEW r \in Request, Serve(r), Inserted(r) PROVE FALSE
        BY <1>0, <1>4, <2>2, Allocated, Values DEF TableSame, Inserted, Insert, FreePe, Live, pentry_new
    <2>3. ASSUME NEW r \in Request, Serve(r)
          PROVE  cell'[x].md_mutex = cell[x].md_mutex \/ Takes1(r, x) \/ Unlocks(r, x)
        BY <1>0, <2>2, <2>3, MutexServe
    <2>4. ASSUME NEW w \in Worker, Refresh(w)
          PROVE  cell'[x].md_mutex = cell[x].md_mutex \/ Takes1(w, x) \/ Unlocks(w, x)
        BY <1>0, <2>4, MutexRefresh
    <2>5. ASSUME NEW r \in Request, NEW p \in Path, Kernel(r, p) PROVE cell' = cell
        BY <1>0, <2>5, KernelStarts DEF Types, table
    <2>6. ASSUME NEW p \in Path, OtherClient(p) \/ cachedir_callback(p) PROVE cell' = cell
        BY <2>6 DEF OtherClient, cachedir_callback, table
    <2>7. ASSUME NEW y \in Pe, Age(y) PROVE cell'[x].md_mutex = cell[x].md_mutex
        BY <1>0, <2>7 DEF Age, Set, Cell
    <2>8. ASSUME NEW t \in Thread, UseAfterFree(t) PROVE cell' = cell
        BY <2>8 DEF UseAfterFree, table
    <2> QED  BY <2>1, <2>3, <2>4, <2>5, <2>6, <2>7, <2>8 DEF Next, Thread
<1> QED  BY <1>3, <1>4, TableEffect

(* A thread that comes into a dictionary has just locked it.               *)
LEMMA MutexOwnServe ==
    ASSUME Types, NEW r \in Request, Serve(r), pc'[r] \in {"read", "copy"}, pe'[r] \in Pe
    PROVE  cell'[pe'[r]].md_mutex = r
<1>0. r \in Thread /\ r \notin Worker /\ ThreadTypes /\ cell \in [Pe -> Cell]
    BY Values DEF Thread, Types, TableTypes
<1> USE DEF ThreadTypes, Cell, Goto
<1>1. pc'[r] # "idle"
    OBVIOUS
<1>2. call'[r] = call[r] /\ ~Leave(r)
    BY <1>0, <1>1, OwnCall DEF Leave
<1>3. CASE getattr_remote_lock(r)
    <2>1. pe' = pe /\ cell' = [cell EXCEPT ![pe[r]]["md_mutex"] = r]
        BY <1>3 DEF getattr_remote_lock, Set
    <2>2. cell[pe[r]] \in Cell /\ pe[r] \in Pe
        BY <1>0, <2>1
    <2>3. cell'[pe[r]] = [cell[pe[r]] EXCEPT !["md_mutex"] = r]
        BY <1>0, <2>1, <2>2
    <2> QED  BY <2>1, <2>2, <2>3
<1>4. CASE getattr_unset_lock(r)
    <2>1. /\ pe' = pe /\ pe[r] \in Pe
          /\ cell' = [cell EXCEPT ![pe[r]].metadata = IF @ = NULL THEN NULL ELSE Freed,
                                  ![pe[r]].md_mutex = r]
        BY <1>0, <1>4 DEF getattr_unset_lock, ReleaseDict
    <2> QED  BY <1>0, <2>1
<1>5. CASE dfs_getattr(r) \/ getattr_dispatch(r) \/ getattr_remote(r) \/ getattr_unset(r)
    BY <1>0, <1>2, <1>5 DEF dfs_getattr, getattr_dispatch, getattr_remote, getattr_unset, Return
<1>6. CASE getattr_unset_set(r) \/ getattr_mark(r) \/ dfs_create(r)
    BY <1>0, <1>2, <1>6 DEF getattr_unset_set, getattr_mark, dfs_create
<1>7. CASE create_set(r) \/ create_mknod(r) \/ dfs_opendir(r)
    BY <1>0, <1>2, <1>7 DEF create_set, ReleaseDict, create_mknod, dfs_opendir
<1>8. CASE dfs_unlink(r) \/ unlink_remove(r)
    BY <1>0, <1>2, <1>8 DEF dfs_unlink, unlink_remove
<1>9. CASE pentry_remove_dirent(r)
    <2>1. call'[r] = NULL /\ call[r] = NULL
        BY <1>0, <1>2, <1>9 DEF pentry_remove_dirent
    <2>2. CASE Goto(r, "idle")
        BY <1>0, <1>1, <2>2
    <2>3. CASE ~Goto(r, "idle")
        BY <1>0, <1>1, <1>9, <2>3 DEF pentry_remove_dirent
    <2> QED  BY <2>2, <2>3
<1> QED
    BY <1>3, <1>4, <1>5, <1>6, <1>7, <1>8, <1>9 DEF Serve, Getattr

(* A worker that reads or copies a dictionary owns the mutex of its cell: md_trylock
   gave it. *)
LEMMA MutexOwnRefresh ==
    ASSUME Types, NEW w \in Worker, Refresh(w), pc'[w] \in {"read", "copy"}, at'[w] \in Pe
    PROVE  cell'[at'[w]].md_mutex = w
<1>0. w \in Thread /\ ThreadTypes /\ cell \in [Pe -> Cell]
    BY DEF Thread, Types, TableTypes
<1> USE DEF ThreadTypes, Cell, Goto
<1>1. CASE md_trylock(w)
    BY <1>0, <1>1 DEF md_trylock, Set, ReleaseDict, NextEntry, Leave
<1>2. CASE update_md(w)
    BY <1>0, <1>2 DEF update_md, Takes
<1>3. CASE update_md_fails(w) \/ map_end(w)
    BY <1>0, <1>3 DEF update_md_fails, map_end, thread, Takes
<1>4. CASE cb_map_dirents(w)
    BY <1>0, <1>4 DEF cb_map_dirents
<1>5. CASE update_set(w)
    BY <1>0, <1>5 DEF update_set, NextEntry, Leave
<1> QED  BY <1>1, <1>2, <1>3, <1>4, <1>5 DEF Refresh

(* Its mutex belongs to who is in a dictionary, also after a step.         *)
LEMMA MutexStep ==
    ASSUME Typed, Typed', MutexInv, Next
    PROVE  MutexInv'
<1>0. Types /\ ThreadTypes /\ ThreadTypes'
    BY DEF Typed, Types
<1> SUFFICES ASSUME NEW t \in Thread, pc'[t] \in {"read", "copy"},
                    At(t)' # NULL, cell'[At(t)'].state = "live"
             PROVE  cell'[At(t)'].md_mutex = t
    BY DEF MutexInv, Live
<1>1. At(t)' \in Pe
    BY <1>0 DEF ThreadTypes, At
<1>2. CASE Frame(t)
    <2> DEFINE x == At(t)
    <2>1. At(t)' = x /\ pc'[t] = pc[t]
        BY <1>2 DEF Frame, Kept, At
    <2>2. x \in Pe /\ x # NULL
        BY <1>1, <2>1, Values
    <2>3. ~FreePe(x)
        BY DEF FreePe, At
    <2>4. Live(x) => cell[x].md_mutex = t
        BY <2>1, <2>2 DEF MutexInv
    <2> HIDE DEF x
    <2>5. cell'[x].state = "live"
        BY <2>1
    <2>6. /\ Live(x)
          /\ \/ cell'[x].md_mutex = cell[x].md_mutex
             \/ \E u \in Thread : Takes1(u, x) \/ Unlocks(u, x)
        BY <2>2, <2>3, <2>5, MutexEffect
    <2>7. ASSUME NEW u \in Thread, Takes1(u, x) PROVE FALSE
        BY <2>4, <2>6, <2>7, Values DEF Takes1
    <2>8. ASSUME NEW u \in Thread, Unlocks(u, x) PROVE FALSE
        <3>1. cell[x].md_mutex = u
            BY <2>2, <2>6, <2>8 DEF Unlocks, MutexInv
        <3>2. u = t
            BY <2>4, <2>6, <3>1
        <3> QED  BY <2>8, <3>2 DEF Unlocks
    <2> QED  BY <2>1, <2>4, <2>6, <2>7, <2>8
<1>3. CASE ~Frame(t) /\ t \in Request
    <2>1. Serve(t)
        BY <1>0, <1>3, Resting, Crashing, KernelStarts
    <2>2. At(t)' = pe'[t]
        BY <1>3 DEF At
    <2> QED  BY <1>0, <1>1, <1>3, <2>1, <2>2, MutexOwnServe
<1>4. CASE ~Frame(t) /\ t \in Worker
    <2>0. t \notin Request
        BY <1>4, Values
    <2>1. At(t)' = at'[t]
        BY <2>0 DEF At
    <2>2. ASSUME NEW r \in Request, Serve(r) PROVE FALSE
        BY <1>0, <1>4, <2>0, <2>2, OthersServe DEF Frame
    <2>3. ASSUME NEW r \in Request, NEW p \in Path, Kernel(r, p) PROVE FALSE
        BY <1>0, <1>4, <2>0, <2>3, OthersKernel
    <2>4. ASSUME NEW w \in Worker, w # t, Refresh(w) PROVE FALSE
        BY <1>0, <1>4, <2>4, OthersRefresh
    <2>5. ASSUME NEW u \in Thread, UseAfterFree(u) PROVE FALSE
        BY <1>0, <1>4, <2>5, Crashing DEF Frame, Kept
    <2>6. ASSUME \/ \E p \in Path : OtherClient(p) \/ cachedir_callback(p)
                 \/ \E x \in Pe : Age(x)
          PROVE  FALSE
        BY <1>0, <1>4, <2>6, OthersNone
    <2>7. Refresh(t)
        BY <2>2, <2>3, <2>4, <2>5, <2>6 DEF Next
    <2> QED  BY <1>0, <1>1, <1>4, <2>1, <2>7, MutexOwnRefresh
<1> QED  BY <1>2, <1>3, <1>4 DEF Thread

(* MutexInv holds.                                                         *)
LEMMA Mutexes == Spec => []MutexInv
<1>1. Init => MutexInv
    BY DEF Init, MutexInv
<1>2. Typed /\ HeldInv /\ MutexInv /\ [Next]_vars => MutexInv'
    <2>1. ASSUME Typed, HeldInv, MutexInv, Next PROVE MutexInv'
        BY <2>1, TypedStep, MutexStep
    <2>2. ASSUME MutexInv, UNCHANGED vars PROVE MutexInv'
        BY <2>2 DEF MutexInv, vars, table, thread, At, Live
    <2> QED  BY <2>1, <2>2
<1> QED  BY <1>1, <1>2, Base, PTL DEF Spec

(* DictAlone: two threads are never inside the dictionary of one cell,     *)
(* unless one of them is dfs_create, which does not lock: the requests     *)
(* lock the mutex and the pool threads try it (getattr.c, cachedir.c).     *)
THEOREM OneInDict == Spec => []DictAlone
<1>1. Typed /\ MutexInv => DictAlone
    <2> SUFFICES ASSUME Typed, MutexInv, NEW s \in Thread, NEW t \in Thread, s # t,
                        DictOf(s) # NULL, DictOf(s) = DictOf(t), Live(DictOf(s)),
                        pc[s] \notin {"create_set", "create_copy"},
                        pc[t] \notin {"create_set", "create_copy"}
                 PROVE  FALSE
        BY DEF DictAlone
    <2>1. ASSUME NEW u \in Thread, DictOf(u) # NULL, pc[u] \notin {"create_set", "create_copy"}
          PROVE  pc[u] \in {"read", "copy"} /\ DictOf(u) = At(u)
        <3>1. CASE u \in Request
            BY <2>1, <3>1 DEF DictOf, At
        <3>2. CASE u \in Worker
            <4>1. pc[u] # "read" /\ u \notin Request
                BY <3>2, Values DEF Typed, WorkerPc
            <4> QED  BY <2>1, <4>1 DEF DictOf, At
        <3> QED  BY <3>1, <3>2 DEF Thread
    <2>2. cell[DictOf(s)].md_mutex = s
        BY <2>1 DEF MutexInv
    <2>3. cell[DictOf(t)].md_mutex = t
        BY <2>1 DEF MutexInv
    <2> QED  BY <2>2, <2>3
<1> QED  BY <1>1, Base, Mutexes, PTL

-----------------------------------------------------------------------------
(* What a step does to the kernel's names.                                 *)
LEMMA KnownServe ==
    ASSUME Typed, NEW r \in Request, Serve(r)
    PROVE  \/ known' = known
           \/ /\ known' = known \cup {PathOf(r)} /\ call'[r] = NULL
              /\ call[r].kind \in {"lookup", "creat"}
           \/ unlinks' = unlinks + 1
<1>0. r \in Thread /\ ThreadTypes /\ Served(r)
    BY DEF Thread, Typed, Types
<1> USE DEF Served, Leave, ThreadTypes, Found, store, Pointing, Creating
<1>1. CASE dfs_getattr(r) \/ getattr_remote_lock(r) \/ getattr_unset(r)
    BY <1>1 DEF dfs_getattr, getattr_remote_lock, getattr_unset
<1>2. CASE getattr_dispatch(r)
    BY <1>0, <1>2 DEF getattr_dispatch, Return
<1>3. CASE getattr_remote(r)
    BY <1>0, <1>3 DEF getattr_remote
<1>4. CASE getattr_unset_lock(r) \/ getattr_unset_set(r) \/ dfs_create(r) \/ create_set(r)
    BY <1>4 DEF getattr_unset_lock, getattr_unset_set, dfs_create, create_set
<1>5. CASE getattr_mark(r)
    BY <1>0, <1>5 DEF getattr_mark
<1>6. CASE create_mknod(r)
    BY <1>0, <1>6 DEF create_mknod
<1>7. CASE dfs_opendir(r) \/ unlink_remove(r) \/ pentry_remove_dirent(r)
    BY <1>7 DEF dfs_opendir, unlink_remove, pentry_remove_dirent
<1>8. CASE dfs_unlink(r)
    BY <1>8 DEF dfs_unlink
<1> QED  BY <1>1, <1>2, <1>3, <1>4, <1>5, <1>6, <1>7, <1>8 DEF Serve, Getattr

(* The kernel learns a name only from a lookup or a creation that is answered, and
   forgets one only by an unlink. *)
LEMMA KnownEffect ==
    ASSUME Typed, Next
    PROVE  \/ known' = known
           \/ \E s \in Request : /\ known' = known \cup {PathOf(s)} /\ call'[s] = NULL
                                 /\ Serve(s) /\ call[s].kind \in {"lookup", "creat"}
           \/ unlinks' = unlinks + 1
<1>0. ThreadTypes
    BY DEF Typed, Types
<1>1. ASSUME NEW r \in Request, NEW p \in Path, Kernel(r, p) PROVE known' = known
    BY <1>0, <1>1, KernelStarts DEF store
<1>2. ASSUME NEW w \in Worker, Refresh(w) PROVE known' = known
    BY <1>2 DEF Refresh, update_md, update_md_fails, cb_map_dirents, map_end, md_trylock,
                update_set, store
<1>3. ASSUME NEW p \in Path, OtherClient(p) \/ cachedir_callback(p) PROVE known' = known
    BY <1>3 DEF OtherClient, cachedir_callback, store
<1>4. ASSUME NEW x \in Pe, Age(x) PROVE known' = known
    BY <1>4 DEF Age, store
<1>5. ASSUME NEW t \in Thread, UseAfterFree(t) PROVE known' = known
    BY <1>5 DEF UseAfterFree, store
<1> QED  BY <1>1, <1>2, <1>3, <1>4, <1>5, KnownServe DEF Next

(* As long as nothing was unlinked the table only grows.                   *)
LEMMA Growing ==
    ASSUME Typed, Next, unlinks = 0, NEW p \in Path, hash[p] # NULL
    PROVE  hash'[p] = hash[p]
<1>1. ASSUME NEW s \in Request, Inserted(s) PROVE hash'[p] = hash[p]
    BY <1>1 DEF Inserted, Insert, Typed, Types, TableTypes
<1>2. ASSUME NEW s \in Request, Removed(s) PROVE FALSE
    BY <1>2 DEF Removed, unlink_remove, Typed, Served
<1> QED  BY <1>1, <1>2, TableEffect DEF TableSame

(* Every step keeps NamedInv: a handler at work on a cell holds its name, and what
   the kernel knows has a cell. *)
LEMMA NamedStep ==
    ASSUME Typed, Typed', HeldInv, NamedInv, Next
    PROVE  NamedInv'
<1>0. ThreadTypes /\ unlinks \in Nat
    BY DEF Typed, Types, Counts
<1> SUFFICES ASSUME unlinks' = 0, NEW r \in Request, call'[r] # NULL
             PROVE  /\ call'[r].kind \in {"lookup", "creat"} => call'[r].path \notin known'
                    /\ call'[r].kind = "stat" => call'[r].path \in known'
                    /\ pc'[r] \in Pointing => pe'[r] = hash'[call'[r].path]
    BY DEF NamedInv, PathOf
<1>1. unlinks = 0
    BY <1>0, Counters
<1>2. \/ known' = known
      \/ \E s \in Request : /\ known' = known \cup {PathOf(s)} /\ call'[s] = NULL
                            /\ Serve(s) /\ call[s].kind \in {"lookup", "creat"}
    BY <1>1, KnownEffect
<1>3. CASE \E p \in Path : Kernel(r, p)
    <2>1. PICK p \in Path : Kernel(r, p)
        BY <1>3
    <2>2. PICK k \in Kind : /\ call'[r] = [kind |-> k, path |-> p]
                            /\ k \in {"lookup", "creat"} => p \notin known
                            /\ k = "stat" => p \in known
        BY <1>0, <2>1, KernelStarts
    <2>3. known' = known /\ pc'[r] \notin Pointing
        BY <1>0, <2>1, KernelStarts DEF store, Pointing
    <2> QED  BY <2>2, <2>3
<1>4. CASE call'[r] = call[r] /\ ~\E p \in Path : Kernel(r, p)
    <2>0. r \in Thread /\ PathOf(r) \in Path
        BY <1>0, <1>4 DEF Thread, ThreadTypes, PathOf
    <2>1. ASSUME call[r].kind \in {"lookup", "creat"} PROVE PathOf(r) \notin known'
        <3>1. PathOf(r) \notin known
            BY <1>1, <1>4, <2>1 DEF NamedInv
        <3>2. ASSUME NEW s \in Request, call'[s] = NULL, Serve(s),
                     call[s].kind \in {"lookup", "creat"}
              PROVE  PathOf(s) # PathOf(r)
            <4>1. call[s] # NULL
                BY <1>0, <3>2, OwnCall DEF Typed, Served
            <4>2. s # r
                BY <1>4, <3>2
            <4>3. Holds(s) /\ Holds(r)
                BY <1>4, <2>1, <3>2, <4>1 DEF Holds
            <4> QED  BY <4>2, <4>3 DEF HeldInv
        <3> QED  BY <1>2, <3>1, <3>2
    <2>2. call[r].kind = "stat" => PathOf(r) \in known'
        BY <1>1, <1>2, <1>4 DEF NamedInv
    <2>3. ASSUME pc'[r] \in Pointing PROVE pe'[r] = hash'[PathOf(r)]
        <3>1. CASE Frame(r)
            <4>1. pe[r] = hash[PathOf(r)] /\ pe[r] # NULL
                BY <1>1, <1>4, <2>3, <3>1 DEF Frame, NamedInv, Typed, Served
            <4> QED  BY <1>1, <2>0, <3>1, <4>1, Growing DEF Frame, Kept
        <3>2. CASE dfs_getattr(r)
            BY <1>0, <2>0, <3>2 DEF dfs_getattr, ThreadTypes
        <3>3. CASE Serve(r) /\ ~dfs_getattr(r)
            <4>1. /\ hash' = hash
                  /\ pe'[r] = pe[r] \/ pe'[r] = hash[PathOf(r)]
                  /\ pc[r] \in Pointing \/ pe'[r] = hash[PathOf(r)]
                BY <1>0, <2>3, <3>3, OwnPointer
            <4> QED  BY <1>1, <1>4, <4>1 DEF NamedInv
        <3>4. ~UseAfterFree(r)
            BY <1>0, <2>0, <2>3, Crashing DEF Pointing
        <3> QED  BY <1>0, <1>4, <3>1, <3>2, <3>3, <3>4, Resting
    <2> QED  BY <1>4, <2>1, <2>2, <2>3 DEF PathOf
<1> QED  BY <1>0, <1>3, <1>4, CallEffect

(* NamedInv holds in every reachable state. *)
LEMMA Names == Spec => []NamedInv
<1>1. Init => NamedInv
    BY DEF Init, NamedInv, Thread
<1>2. Typed /\ HeldInv /\ NamedInv /\ [Next]_vars => NamedInv'
    <2>1. ASSUME Typed, HeldInv, NamedInv, Next PROVE NamedInv'
        BY <2>1, TypedStep, NamedStep
    <2>2. ASSUME NamedInv, UNCHANGED vars PROVE NamedInv'
        BY <2>2 DEF NamedInv, vars, table, thread, store, PathOf
    <2> QED  BY <2>1, <2>2
<1> QED  BY <1>1, <1>2, Base, PTL DEF Spec

-----------------------------------------------------------------------------
(* What a step does to the dictionary of a cell: it stays, a thread that   *)
(* has locked it releases it and will replace it, dfs_create releases it,  *)
(* or it has a new version.                                                *)
Releases(t, x) ==
    /\ At(t) = x /\ At(t)' = x /\ pc'[t] = "copy"
    /\ meta[t] # NULL /\ meta'[t] = meta[t] /\ cell'[x].md_mutex = t
    /\ cell[x].md_mutex = NULL
CreatesIn(t, x) ==
    pc[t] = "create_set" /\ pc'[t] = "create_copy" /\ pe[t] = x /\ pe'[t] = x
    /\ cell'[x].ondisk = cell[x].ondisk
    /\ (cell[x].metadata = NULL => cell'[x].metadata = NULL)
Renews(t, x) ==
    /\ At(t) = x /\ pc[t] \in {"copy", "create_copy"} /\ meta[t] # NULL
    /\ cell'[x].metadata = meta[t] /\ pc'[t] # pc[t]
    /\ pc[t] = "create_copy" => pc'[t] = "mknod" /\ call'[t] = call[t]

(* A handler changes the dictionary of a live cell only by inserting the cell,
   releasing, creating or renewing its dictionary. *)
LEMMA DictServe ==
    ASSUME Typed, NEW r \in Request, Serve(r), NEW x \in Pe, cell'[x].state = "live"
    PROVE  \/ cell'[x].metadata = cell[x].metadata
           \/ Inserted(r) /\ x = Malloc
           \/ Releases(r, x) \/ CreatesIn(r, x) \/ Renews(r, x)
<1>0. r \in Thread /\ ThreadTypes /\ cell \in [Pe -> Cell] /\ At(r) = pe[r] /\ At(r)' = pe'[r]
    BY DEF Thread, Types, TableTypes, At, Typed
<1> USE DEF ThreadTypes, Cell, Goto, table
<1>1. CASE dfs_getattr(r)
    BY <1>0, <1>1 DEF dfs_getattr, Inserted, Insert
<1>2. CASE dfs_opendir(r)
    BY <1>0, <1>2 DEF dfs_opendir, Inserted, Insert
<1>3. CASE getattr_dispatch(r) \/ getattr_unset(r)
    BY <1>0, <1>3 DEF getattr_dispatch, getattr_unset, Return, Set
<1>4. CASE getattr_remote_lock(r)
    BY <1>0, <1>4 DEF getattr_remote_lock, Set
<1>5. CASE getattr_remote(r)
    BY <1>0, <1>5 DEF getattr_remote
<1>6. CASE getattr_unset_lock(r)
    <2>1. meta[r] # NULL
        BY <1>6 DEF getattr_unset_lock, Typed, Served
    <2> QED  BY <1>0, <1>6, <2>1 DEF getattr_unset_lock, ReleaseDict, Releases
<1>7. CASE getattr_unset_set(r)
    <2>1. meta[r] # NULL
        BY <1>7 DEF getattr_unset_set, Typed, Served
    <2> QED  BY <1>0, <1>7, <2>1 DEF getattr_unset_set, Renews
<1>8. CASE getattr_mark(r)
    BY <1>0, <1>8 DEF getattr_mark
<1>9. CASE dfs_create(r) \/ create_mknod(r)
    BY <1>0, <1>9 DEF dfs_create, create_mknod, Set
<1>10. CASE create_set(r) /\ pc[r] = "create_set"
    BY <1>0, <1>10 DEF create_set, ReleaseDict, CreatesIn
<1>11. CASE create_set(r) /\ pc[r] = "create_copy"
    <2>1. meta[r] # NULL
        BY <1>11 DEF Typed, Served
    <2> QED  BY <1>0, <1>11, <2>1 DEF create_set, Set, Renews
<1>12. CASE unlink_remove(r)
    BY <1>0, <1>12 DEF unlink_remove, pentry_free, pentry_new
<1>13. CASE dfs_unlink(r) \/ pentry_remove_dirent(r)
    BY <1>0, <1>13 DEF dfs_unlink, pentry_remove_dirent, Set
<1> QED
    BY <1>1, <1>2, <1>3, <1>4, <1>5, <1>6, <1>7, <1>8, <1>9, <1>10, <1>11, <1>12, <1>13
    DEF Serve, Getattr, create_set

(* A worker changes the dictionary of a cell only by releasing or renewing it, and
   never its status. *)
LEMMA DictRefresh ==
    ASSUME Typed, NEW w \in Worker, Refresh(w), NEW x \in Pe
    PROVE  /\ \/ cell'[x].metadata = cell[x].metadata
              \/ Releases(w, x) \/ Renews(w, x)
           /\ cell'[x].ondisk = cell[x].ondisk
<1>0. /\ w \in Thread /\ ThreadTypes /\ cell \in [Pe -> Cell]
      /\ At(w) = at[w] /\ At(w)' = at'[w]
    BY Values DEF Thread, Types, TableTypes, At, Typed
<1> USE DEF ThreadTypes, Cell, Goto, table
<1>1. CASE update_md(w) \/ update_md_fails(w)
    BY <1>1 DEF update_md, update_md_fails
<1>2. CASE cb_map_dirents(w) \/ map_end(w)
    BY <1>2 DEF cb_map_dirents, map_end
<1>3. CASE md_trylock(w)
    <2>1. cell'[x].ondisk = cell[x].ondisk
        BY <1>0, <1>3 DEF md_trylock, Set, ReleaseDict
    <2> QED  BY <1>0, <1>3, <2>1 DEF md_trylock, Set, ReleaseDict, Releases
<1>4. CASE update_set(w)
    <2>1. pc[w] = "copy" /\ pc'[w] \in {"map", "idle"}
        BY <1>0, <1>4 DEF update_set, NextEntry, Leave
    <2> QED  BY <1>0, <1>4, <2>1 DEF update_set, Renews
<1> QED  BY <1>1, <1>2, <1>3, <1>4 DEF Refresh

(* What it does to the placeholder.                                        *)
Marks(r, x) == getattr_mark(r) /\ pe[r] = x /\ meta[r] # NULL
Makes(r, x) == dfs_create(r) /\ x = hash[PathOf(r)] /\ cell'[x].ondisk = "FILE_LOCAL"

(* A handler changes the status of a live cell only by inserting the cell, marking it
   FILE_REMOTE or marking what it created. *)
LEMMA OndiskServe ==
    ASSUME Typed, NEW r \in Request, Serve(r), NEW x \in Pe, cell'[x].state = "live"
    PROVE  \/ cell'[x].ondisk = cell[x].ondisk
           \/ Inserted(r) /\ x = Malloc
           \/ Marks(r, x) \/ Makes(r, x)
<1>0. ThreadTypes /\ cell \in [Pe -> Cell]
    BY DEF Types, TableTypes, Typed
<1> USE DEF Cell, table
<1>1. CASE dfs_getattr(r)
    BY <1>0, <1>1 DEF dfs_getattr, Inserted, Insert
<1>2. CASE dfs_opendir(r)
    BY <1>0, <1>2 DEF dfs_opendir, Inserted, Insert
<1>3. CASE getattr_dispatch(r) \/ getattr_unset(r)
    BY <1>0, <1>3 DEF getattr_dispatch, getattr_unset, Return, Set
<1>4. CASE getattr_remote_lock(r) \/ getattr_remote(r)
    BY <1>0, <1>4 DEF getattr_remote_lock, Set, getattr_remote
<1>5. CASE getattr_unset_lock(r) \/ getattr_unset_set(r)
    BY <1>0, <1>5 DEF getattr_unset_lock, ReleaseDict, getattr_unset_set
<1>6. CASE getattr_mark(r)
    BY <1>0, <1>6 DEF getattr_mark, Marks
<1>7. CASE dfs_create(r) \/ create_mknod(r)
    BY <1>0, <1>7 DEF dfs_create, create_mknod, Set, Makes
<1>8. CASE create_set(r)
    BY <1>0, <1>8 DEF create_set, ReleaseDict, Set
<1>9. CASE unlink_remove(r)
    BY <1>0, <1>9 DEF unlink_remove, pentry_free, pentry_new
<1>10. CASE dfs_unlink(r) \/ pentry_remove_dirent(r)
    BY <1>0, <1>10 DEF dfs_unlink, pentry_remove_dirent, Set
<1> QED
    BY <1>1, <1>2, <1>3, <1>4, <1>5, <1>6, <1>7, <1>8, <1>9, <1>10 DEF Serve, Getattr

(* Both, for any step and a cell that is live after it.                    *)
LEMMA DictEffect ==
    ASSUME Typed, Next, NEW x \in Pe, cell'[x].state = "live"
    PROVE  \/ /\ Live(x)
              /\ \/ cell'[x].metadata = cell[x].metadata
                 \/ \E t \in Thread : Releases(t, x) \/ CreatesIn(t, x) \/ Renews(t, x)
              /\ \/ cell'[x].ondisk = cell[x].ondisk
                 \/ \E r \in Request : Marks(r, x) \/ Makes(r, x)
           \/ /\ FreePe(x) /\ cell'[x].ondisk = "FILE_UNSET" /\ cell'[x].metadata = NULL
              /\ \E r \in Request : Inserted(r)
<1>0. ThreadTypes /\ TableTypes /\ cell \in [Pe -> Cell]
    BY DEF Typed, Types, TableTypes
<1>1. ASSUME NEW r \in Request, Inserted(r)
      PROVE  /\ CanInsert /\ FreePe(Malloc) /\ Malloc \in Pe
             /\ cell'[Malloc].ondisk = "FILE_UNSET" /\ cell'[Malloc].metadata = NULL
             /\ cell'[Malloc].state = "live"
             /\ x # Malloc => cell'[x] = cell[x]
    BY <1>0, <1>1, Allocated DEF Inserted, Insert, pentry_new
<1>2. ASSUME NEW r \in Request, Removed(r) PROVE cell'[x] = cell[x]
    BY <1>0, <1>2 DEF Removed, unlink_remove, pentry_free, pentry_new
<1>3. CASE \E r \in Request : Serve(r) /\ Inserted(r)
    BY <1>1, <1>3 DEF Live
<1>4. CASE \E r \in Request : Serve(r) /\ Removed(r)
    BY <1>2, <1>4 DEF Live
<1>5. CASE TableSame
    <2>1. Live(x)
        BY <1>5 DEF TableSame, Live
    <2>2. ASSUME NEW r \in Request, Serve(r), Inserted(r) PROVE FALSE
        BY <1>1, <1>5, <2>2 DEF TableSame, FreePe, Live
    <2>3. CASE cell'[x].metadata = cell[x].metadata /\ cell'[x].ondisk = cell[x].ondisk
        BY <2>1, <2>3
    <2>4. ASSUME NEW r \in Request, Serve(r)
          PROVE  /\ \/ cell'[x].metadata = cell[x].metadata
                    \/ Releases(r, x) \/ CreatesIn(r, x) \/ Renews(r, x)
                 /\ \/ cell'[x].ondisk = cell[x].ondisk
                    \/ Marks(r, x) \/ Makes(r, x)
        BY <2>2, <2>4, DictServe, OndiskServe
    <2>5. ASSUME NEW w \in Worker, Refresh(w)
          PROVE  /\ \/ cell'[x].metadata = cell[x].metadata
                    \/ Releases(w, x) \/ Renews(w, x)
                 /\ cell'[x].ondisk = cell[x].ondisk
        BY <2>5, DictRefresh
    <2>6. ASSUME NEW r \in Request, NEW p \in Path, Kernel(r, p) PROVE cell' = cell
        BY <1>0, <2>6, KernelStarts DEF table
    <2>7. ASSUME NEW p \in Path, OtherClient(p) \/ cachedir_callback(p) PROVE cell' = cell
        BY <2>7 DEF OtherClient, cachedir_callback, table
    <2>8. ASSUME NEW y \in Pe, Age(y)
          PROVE  cell'[x].metadata = cell[x].metadata /\ cell'[x].ondisk = cell[x].ondisk
        BY <1>0, <2>8 DEF Age, Set, Cell
    <2>9. ASSUME NEW t \in Thread, UseAfterFree(t) PROVE cell' = cell
        BY <2>9 DEF UseAfterFree, table
    <2>10. CASE \E r \in Request : Serve(r)
        BY <2>1, <2>4, <2>10 DEF Thread
    <2>11. CASE \E w \in Worker : Refresh(w)
        BY <2>1, <2>5, <2>11 DEF Thread
    <2>12. CASE /\ ~\E r \in Request : Serve(r)
                /\ ~\E w \in Worker : Refresh(w)
        BY <2>3, <2>6, <2>7, <2>8, <2>9, <2>12 DEF Next
    <2> QED  BY <2>10, <2>11, <2>12
<1> QED  BY <1>3, <1>4, <1>5, TableEffect

(* With one request thread, or while nothing is unlinked, dfs_create is    *)
(* alone among the requests in the cell it fills.                          *)
LEMMA Company ==
    ASSUME MaxUnlinks = 0 \/ \A r, s \in Request : r = s,
           Typed, HeldInv, NamedInv, NEW r \in Request, NEW s \in Request,
           pc[r] \in Creating, pc[s] \in Pointing, pe[s] = pe[r]
    PROVE  s = r
<1> SUFFICES ASSUME MaxUnlinks = 0 PROVE s = r
    OBVIOUS
<1>0. Served(r) /\ Served(s) /\ r \in Thread /\ s \in Thread /\ ThreadTypes
    BY DEF Typed, Types, Thread
<1>1. unlinks = 0
    BY DEF Typed, Counts
<1>2. /\ call[r] # NULL /\ call[r].kind = "creat" /\ pe[s] # NULL
      /\ call[s] # NULL /\ call[s].kind \in {"lookup", "stat", "creat"}
    BY <1>0 DEF Served, RequestPc, Pointing, Creating
<1>3. pe[r] = hash[PathOf(r)] /\ pe[s] = hash[PathOf(s)]
    BY <1>1, <1>2 DEF NamedInv, HeldInv, Holds
<1>4. PathOf(r) \in Path /\ PathOf(s) \in Path
    BY <1>0, <1>2 DEF ThreadTypes, PathOf
<1>5. PathOf(r) = PathOf(s)
    BY <1>2, <1>3, <1>4 DEF Typed, Owned
<1>6. PathOf(r) \notin known
    BY <1>1, <1>2 DEF NamedInv
<1>7. call[s].kind # "stat"
    BY <1>1, <1>2, <1>5, <1>6 DEF NamedInv
<1>8. Holds(r) /\ Holds(s)
    BY <1>2, <1>7 DEF Holds
<1> QED  BY <1>5, <1>8 DEF HeldInv

(* How a request comes to set the placeholder of a remote file.            *)
LEMMA Marking ==
    ASSUME Typed, Next, NEW r \in Request, pc'[r] = "mark", meta'[r] # NULL
    PROVE  /\ pe'[r] = pe[r] /\ meta'[r] = meta[r] /\ pc[r] \in {"mark", "copy"}
           /\ Frame(r) \/ getattr_unset_set(r)
<1>0. r \in Thread /\ ThreadTypes
    BY DEF Typed, Types, Thread
<1> USE DEF Goto, ThreadTypes
<1>1. CASE Frame(r)
    BY <1>1 DEF Frame, Kept
<1>2. CASE Serve(r)
    <2>1. pc'[r] # "idle" /\ ~Leave(r)
        BY <1>0 DEF Leave
    <2>2. CASE getattr_unset_set(r)
        BY <1>0, <2>2 DEF getattr_unset_set
    <2>3. CASE getattr_unset(r)
        BY <1>0, <2>1, <2>3 DEF getattr_unset, Return, Answer
    <2>4. CASE dfs_getattr(r) \/ getattr_dispatch(r) \/ getattr_remote_lock(r) \/ getattr_remote(r)
        BY <1>0, <2>1, <2>4 DEF dfs_getattr, getattr_dispatch, getattr_remote_lock,
                                getattr_remote, Return
    <2>5. CASE getattr_unset_lock(r) \/ getattr_mark(r) \/ dfs_create(r) \/ create_set(r)
        BY <1>0, <2>1, <2>5 DEF getattr_unset_lock, getattr_mark, dfs_create, create_set, ReleaseDict
    <2>6. CASE create_mknod(r) \/ dfs_opendir(r) \/ dfs_unlink(r) \/ unlink_remove(r)
        BY <1>0, <2>1, <2>6 DEF create_mknod, dfs_opendir, dfs_unlink, unlink_remove
    <2>7. ~pentry_remove_dirent(r)
        BY <1>0, OwnCall, Values, <1>2, <2>1 DEF pentry_remove_dirent, Typed, Served
    <2> QED  BY <1>2, <2>2, <2>3, <2>4, <2>5, <2>6, <2>7 DEF Serve, Getattr
<1>3. ~UseAfterFree(r) /\ ~\E p \in Path : Kernel(r, p)
    BY <1>0, Crashing, KernelStarts
<1> QED  BY <1>0, <1>1, <1>2, <1>3, Resting

(* How a request comes into dfs_create's dictionary.                       *)
LEMMA Filling ==
    ASSUME Typed, Next, NEW r \in Request, pc'[r] \in {"create_set", "create_copy"}
    PROVE  \/ Frame(r)
           \/ /\ dfs_create(r) /\ pe'[r] = hash[PathOf(r)]
              /\ cell' = [cell EXCEPT ![pe'[r]]["ondisk"] = "FILE_LOCAL"]
           \/ pc[r] = "create_set" /\ pe'[r] = pe[r]
<1>0. r \in Thread /\ ThreadTypes
    BY DEF Typed, Types, Thread
<1> USE DEF Goto, ThreadTypes
<1>1. CASE Serve(r)
    <2>1. pc'[r] # "idle" /\ ~Leave(r)
        BY <1>0 DEF Leave
    <2>2. CASE dfs_create(r)
        BY <1>0, <2>2 DEF dfs_create, Set
    <2>3. CASE create_set(r)
        BY <1>0, <2>3 DEF create_set
    <2>4. CASE dfs_getattr(r) \/ getattr_dispatch(r) \/ getattr_remote_lock(r) \/ getattr_remote(r)
        BY <1>0, <2>1, <2>4 DEF dfs_getattr, getattr_dispatch, getattr_remote_lock,
                                getattr_remote, Return
    <2>5. CASE getattr_unset(r) \/ getattr_unset_lock(r) \/ getattr_unset_set(r) \/ getattr_mark(r)
        BY <1>0, <2>1, <2>5 DEF getattr_unset, Return, getattr_unset_lock, getattr_unset_set,
                                getattr_mark, ReleaseDict
    <2>6. CASE create_mknod(r) \/ dfs_opendir(r) \/ dfs_unlink(r) \/ unlink_remove(r)
        BY <1>0, <2>1, <2>6 DEF create_mknod, dfs_opendir, dfs_unlink, unlink_remove
    <2>7. ~pentry_remove_dirent(r)
        BY <1>0, OwnCall, Values, <1>1, <2>1 DEF pentry_remove_dirent, Typed, Served
    <2> QED  BY <1>1, <2>2, <2>3, <2>4, <2>5, <2>6, <2>7 DEF Serve, Getattr
<1>2. ~UseAfterFree(r) /\ ~\E p \in Path : Kernel(r, p)
    BY <1>0, Crashing, KernelStarts
<1> QED  BY <1>0, <1>1, <1>2, Resting

(* How a request comes to read the dictionary of a remote file.            *)
LEMMA Reading ==
    ASSUME Typed, Next, NEW r \in Request, pc'[r] \in {"remote_lock", "read"}
    PROVE  /\ pc[r] \in Pointing /\ pe'[r] = pe[r]
           /\ \/ pc[r] \in {"remote_lock", "read"}
              \/ cell' = cell /\ cell[pe[r]].ondisk = "FILE_REMOTE"
<1>0. r \in Thread /\ ThreadTypes
    BY DEF Typed, Types, Thread
<1> USE DEF Goto, ThreadTypes, Pointing
<1>1. CASE Serve(r)
    <2>1. pc'[r] # "idle" /\ ~Leave(r)
        BY <1>0 DEF Leave
    <2>2. CASE getattr_dispatch(r)
        BY <1>0, <2>1, <2>2 DEF getattr_dispatch, Return, table
    <2>3. CASE getattr_remote_lock(r)
        BY <1>0, <2>3 DEF getattr_remote_lock
    <2>4. CASE dfs_getattr(r) \/ getattr_remote(r) \/ dfs_create(r) \/ create_set(r)
        BY <1>0, <2>1, <2>4 DEF dfs_getattr, getattr_remote, dfs_create, create_set, ReleaseDict
    <2>5. CASE getattr_unset(r) \/ getattr_unset_lock(r) \/ getattr_unset_set(r) \/ getattr_mark(r)
        BY <1>0, <2>1, <2>5 DEF getattr_unset, Return, getattr_unset_lock, getattr_unset_set,
                                getattr_mark, ReleaseDict
    <2>6. CASE create_mknod(r) \/ dfs_opendir(r) \/ dfs_unlink(r) \/ unlink_remove(r)
        BY <1>0, <2>1, <2>6 DEF create_mknod, dfs_opendir, dfs_unlink, unlink_remove
    <2>7. ~pentry_remove_dirent(r)
        BY <1>0, OwnCall, Values, <1>1, <2>1 DEF pentry_remove_dirent, Typed, Served
    <2> QED  BY <1>1, <2>2, <2>3, <2>4, <2>5, <2>6, <2>7 DEF Serve, Getattr
<1>2. CASE Frame(r)
    BY <1>2 DEF Frame, Kept
<1>3. ~UseAfterFree(r) /\ ~\E p \in Path : Kernel(r, p)
    BY <1>0, Crashing, KernelStarts
<1> QED  BY <1>0, <1>1, <1>2, <1>3, Resting

(* Who has released a dictionary stays where it is, crashes, or replaces   *)
(* the dictionary.                                                         *)
LEMMA Copying ==
    ASSUME Typed, Next, NEW t \in Thread, pc[t] = "copy", meta[t] # NULL,
           NEW x \in Pe, At(t) = x
    PROVE  \/ Frame(t)
           \/ Kept(t) /\ pc'[t] = "undefined" /\ cell'[x].md_mutex = cell[x].md_mutex
           \/ cell'[x].metadata \in Version
<1>0. ThreadTypes /\ cell \in [Pe -> Cell] /\ meta[t] \in Version
    BY DEF Typed, Types, TableTypes, ThreadTypes
<1>1. CASE UseAfterFree(t)
    BY <1>0, <1>1, Crashing DEF table, Kept
<1>2. CASE t \in Request
    <2>1. ASSUME Serve(t) PROVE cell'[x].metadata \in Version
        <3>1. getattr_unset_set(t)
            BY <2>1 DEF Serve, Getattr, dfs_getattr, getattr_dispatch, getattr_remote_lock,
               getattr_remote, getattr_unset, getattr_unset_lock,
               getattr_mark, dfs_create, create_set, create_mknod, dfs_opendir, dfs_unlink,
               unlink_remove, pentry_remove_dirent
        <3> QED  BY <1>0, <1>2, <3>1 DEF getattr_unset_set, At
    <2>2. ~\E p \in Path : Kernel(t, p)
        BY <1>0, <1>2, KernelStarts
    <2> QED  BY <1>0, <1>1, <1>2, <2>1, <2>2, Resting
<1>3. CASE t \in Worker
    <2>0. t \notin Request /\ At(t) = at[t]
        BY <1>3, Values DEF At
    <2>1. CASE Refresh(t)
        <3>1. update_set(t)
            BY <2>1 DEF Refresh, update_md, update_md_fails, cb_map_dirents, map_end, md_trylock,
                        Takes
        <3> QED  BY <1>0, <2>0, <3>1 DEF update_set
    <2>2. ASSUME NEW s \in Request, Serve(s)
          PROVE  \/ Frame(t)
                 \/ Kept(t) /\ pc'[t] = "undefined" /\ cell'[x].md_mutex = cell[x].md_mutex
        <3>1. CASE pentry_remove_dirent(s)
            <4>1. cell'[x].md_mutex = cell[x].md_mutex
                BY <1>0, <3>1 DEF pentry_remove_dirent, Set, Cell
            <4> QED  BY <1>0, <2>0, <2>2, <4>1, OthersServe DEF Frame
        <3>2. CASE pc'[t] = pc[t]
            BY <1>0, <2>0, <2>2, <3>2, OthersServe DEF Frame
        <3>3. CASE ~pentry_remove_dirent(s) /\ pc'[t] # pc[t]
            <4>1. s # t /\ pc'[t] = "undefined" /\ s \in Thread
                BY <1>0, <2>0, <2>2, <3>3, OthersServe DEF Thread
            <4>2. ~Leave(s) /\ \A l : ~Goto(s, l)
                BY <1>0, <3>3, <4>1 DEF Leave, Goto, ThreadTypes
            <4> QED
                BY <2>2, <3>3, <4>2
                DEF Serve, Getattr, dfs_getattr, getattr_dispatch, Return, getattr_remote_lock,
                    getattr_remote, getattr_unset, getattr_unset_lock, getattr_unset_set,
                    getattr_mark, dfs_create, create_set, ReleaseDict, create_mknod, dfs_opendir,
                    dfs_unlink, unlink_remove
        <3> QED  BY <3>1, <3>2, <3>3
    <2>3. ASSUME NEW r \in Request, NEW p \in Path, Kernel(r, p) PROVE Frame(t)
        BY <1>0, <2>0, <2>3, OthersKernel
    <2>4. ASSUME NEW w \in Worker, w # t, Refresh(w) PROVE Frame(t)
        BY <1>0, <2>4, OthersRefresh
    <2>5. ASSUME NEW u \in Thread, u # t, UseAfterFree(u) PROVE Frame(t)
        BY <1>0, <2>5, Crashing DEF Frame, Kept
    <2>6. ASSUME \/ \E p \in Path : OtherClient(p) \/ cachedir_callback(p)
                 \/ \E y \in Pe : Age(y)
          PROVE  Frame(t)
        BY <1>0, <2>6, OthersNone
    <2> QED  BY <1>1, <2>1, <2>2, <2>3, <2>4, <2>5, <2>6 DEF Next
<1> QED  BY <1>2, <1>3 DEF Thread

(* A dictionary that is there or about to be replaced is so after a step   *)
(* that does not touch it.                                                 *)
LEMMA Remains ==
    ASSUME Typed, MutexInv, Next, NEW x \in Pe, Live(x), cell'[x].state = "live",
           cell[x].metadata \in Version \/ Replacing(x), cell'[x].metadata = cell[x].metadata
    PROVE  cell'[x].metadata \in Version \/ Replacing(x)'
<1> SUFFICES ASSUME Replacing(x), cell'[x].metadata \notin Version PROVE Replacing(x)'
    OBVIOUS
<1>0. PICK t \in Thread : t = cell[x].md_mutex /\ t # NULL
    BY DEF Replacing, Typed, Types, TableTypes, Cell
<1>1. pc[t] = "copy" /\ At(t) = x /\ meta[t] # NULL
    BY <1>0 DEF Replacing, Next, Crashed
<1>2. Kept(t) /\ (Frame(t) \/ (pc'[t] = "undefined" /\ cell'[x].md_mutex = t))
    BY <1>0, <1>1, Copying DEF Frame
<1>3. At(t)' = x /\ meta'[t] # NULL
    BY <1>1, <1>2 DEF Kept, At
<1>4. CASE cell'[x].md_mutex = t
    <2>1. pc'[t] \in {"copy", "undefined"}
        BY <1>1, <1>2 DEF Frame
    <2> QED  BY <1>0, <1>3, <1>4, <2>1 DEF Replacing
<1>5. CASE Frame(t) /\ cell'[x].md_mutex # t
    <2>1. ~FreePe(x)
        BY DEF FreePe
    <2>2. PICK u \in Thread : Takes1(u, x) \/ Unlocks(u, x)
        BY <1>0, <1>5, <2>1, MutexEffect
    <2>3. Unlocks(u, x)
        BY <1>0, <2>2 DEF Takes1
    <2>4. u = t
        BY <1>0, <2>3, Values DEF Unlocks, MutexInv
    <2> QED  BY <1>1, <1>5, <2>3, <2>4 DEF Unlocks, Frame
<1> QED  BY <1>2, <1>4, <1>5

(* With one request thread, or when nothing is unlinked, every step keeps RemoteInv:
   a cell marked FILE_REMOTE has its attributes or a worker is replacing them under
   the mutex. *)
LEMMA RemoteStep ==
    ASSUME MaxUnlinks = 0 \/ \A r, s \in Request : r = s,
           Typed, Typed', HeldInv, MutexInv, NamedInv, RemoteInv, Next
    PROVE  RemoteInv'
<1>0. ThreadTypes /\ ThreadTypes' /\ cell \in [Pe -> Cell]
    BY DEF Typed, Types, TableTypes
<1>1. ASSUME NEW x \in Pe, cell'[x].state = "live",
             \/ cell'[x].ondisk = "FILE_REMOTE"
             \/ \E r \in Request : pc'[r] = "mark" /\ pe'[r] = x /\ meta'[r] # NULL
      PROVE  cell'[x].metadata \in Version \/ Replacing(x)'
    <2>1. ASSUME NEW r \in Request, pc'[r] = "mark", pe'[r] = x, meta'[r] # NULL
          PROVE  /\ pe[r] = x /\ r \in Thread
                 /\ \/ pc[r] = "mark" /\ meta[r] # NULL
                    \/ pc[r] = "copy" /\ cell'[x].metadata \in Version
        <3>1. pe[r] = x /\ meta[r] # NULL /\ r \in Thread
            BY <2>1, Marking DEF Thread
        <3>2. CASE Frame(r)
            BY <2>1, <3>1, <3>2 DEF Frame
        <3>3. CASE getattr_unset_set(r)
            BY <1>0, <3>1, <3>3 DEF getattr_unset_set, ThreadTypes
        <3> QED  BY <2>1, <3>1, <3>2, <3>3, Marking
    <2>2. CASE FreePe(x) /\ cell'[x].ondisk = "FILE_UNSET"
        BY <1>1, <2>1, <2>2 DEF FreePe
    <2>3. ASSUME NEW t \in Thread, Releases(t, x) PROVE Replacing(x)'
        <3>1. At(t)' = x /\ pc'[t] = "copy" /\ meta'[t] # NULL /\ cell'[x].md_mutex = t
            BY <2>3 DEF Releases
        <3> QED  BY <3>1, Values DEF Replacing
    <2>4. ASSUME NEW t \in Thread, Renews(t, x) PROVE cell'[x].metadata \in Version
        BY <1>0, <2>4 DEF Renews, ThreadTypes
    <2>5. ASSUME NEW t \in Thread, CreatesIn(t, x), Live(x)
          PROVE  cell'[x].metadata \in Version
        <3>1. t \in Request /\ pc[t] = "create_set" /\ pe[t] = x
            BY <2>5, Values DEF CreatesIn, Typed, WorkerPc
        <3>2. cell'[x].ondisk = "FILE_LOCAL"
            BY <2>5, <3>1 DEF CreatesIn, RemoteInv
        <3>3. PICK r \in Request : pc'[r] = "mark" /\ pe'[r] = x /\ meta'[r] # NULL
            BY <1>1, <3>2
        <3>4. CASE pc[r] \in {"mark", "copy"}
            <4>1. pc[r] \in Pointing /\ pe[r] = pe[t]
                BY <2>1, <3>1, <3>3, <3>4 DEF Pointing
            <4>2. r = t
                BY <3>1, <4>1, Company DEF Creating
            <4> QED  BY <3>1, <3>4, <4>2
        <3> QED  BY <2>1, <3>3, <3>4
    <2>6. CASE Live(x) /\ cell'[x].metadata = cell[x].metadata
        <3>1. CASE cell[x].ondisk = "FILE_REMOTE"
            BY <1>1, <2>6, <3>1, Remains DEF RemoteInv
        <3>2. CASE \E r \in Request : pc[r] = "mark" /\ pe[r] = x /\ meta[r] # NULL
            BY <1>1, <2>6, <3>2, Remains DEF RemoteInv
        <3>3. ASSUME NEW r \in Request, Marks(r, x)
              PROVE  pc[r] = "mark" /\ pe[r] = x /\ meta[r] # NULL
            BY <3>3 DEF Marks, getattr_mark
        <3>4. CASE cell'[x].ondisk = "FILE_REMOTE" /\ ~\E r \in Request : Marks(r, x)
            <4>1. ~FreePe(x)
                BY <2>6 DEF FreePe
            <4>2. cell[x].ondisk = "FILE_REMOTE"
                BY <1>1, <3>4, <4>1, DictEffect DEF Makes
            <4> QED  BY <3>1, <4>2
        <3> QED  BY <1>1, <2>1, <3>1, <3>2, <3>3, <3>4
    <2> QED  BY <1>1, <2>2, <2>3, <2>4, <2>5, <2>6, DictEffect
<1>2. ASSUME NEW r \in Request, pc'[r] \in {"create_set", "create_copy"},
             NEW x, x = pe'[r], cell'[x].state = "live"
      PROVE  cell'[x].ondisk = "FILE_LOCAL"
    <2>0. r \in Thread /\ x \in Pe
        BY <1>0, <1>2 DEF Thread, ThreadTypes, Typed, Served, Pointing
    <2>1. CASE /\ dfs_create(r)
               /\ cell' = [cell EXCEPT ![pe'[r]]["ondisk"] = "FILE_LOCAL"]
        BY <1>0, <1>2, <2>0, <2>1 DEF Cell
    <2>2. CASE pc[r] \in {"create_set", "create_copy"} /\ pe[r] = x
        <3>1. ~FreePe(x)
            BY <2>0, <2>2 DEF FreePe
        <3>2. Live(x) /\ cell[x].ondisk = "FILE_LOCAL"
            BY <1>2, <2>0, <2>2, <3>1, DictEffect DEF RemoteInv
        <3>3. ASSUME NEW s \in Request, Marks(s, x) PROVE FALSE
            <4>1. pc[s] = "mark" /\ pe[s] = pe[r]
                BY <2>2, <3>3 DEF Marks, getattr_mark
            <4>2. s = r
                BY <2>2, <4>1, Company DEF Pointing, Creating
            <4> QED  BY <2>2, <4>1, <4>2
        <3> QED  BY <1>2, <2>0, <3>1, <3>2, <3>3, DictEffect DEF Makes
    <2>3. Frame(r) => pc[r] = pc'[r] /\ pe[r] = pe'[r]
        BY DEF Frame, Kept
    <2> QED  BY <1>2, <2>1, <2>2, <2>3, Filling
<1>3. \A x \in Pe :
         /\ cell'[x].state = "live"
         /\ \/ cell'[x].ondisk = "FILE_REMOTE"
            \/ \E r \in Request : pc'[r] = "mark" /\ pe'[r] = x /\ meta'[r] # NULL
         => cell'[x].metadata \in Version \/ Replacing(x)'
    BY <1>1
<1>4. \A r \in Request :
         pc'[r] \in {"create_set", "create_copy"} /\ cell'[pe'[r]].state = "live"
         => cell'[pe'[r]].ondisk = "FILE_LOCAL"
    BY <1>2
<1>5. ASSUME NEW r \in Request, pc'[r] \in {"remote_lock", "read"},
             NEW x, x = pe'[r], cell'[x].state = "live"
      PROVE  cell'[x].ondisk = "FILE_REMOTE"
    <2>0. r \in Thread /\ x \in Pe
        BY <1>0, <1>5 DEF Thread, ThreadTypes, Typed, Served, Pointing
    <2>1. /\ pc[r] \in Pointing /\ pe[r] = x
          /\ \/ pc[r] \in {"remote_lock", "read"}
             \/ /\ cell' = cell /\ cell[x].ondisk = "FILE_REMOTE"
        BY <1>5, Reading
    <2>2. ~FreePe(x)
        BY <2>0, <2>1 DEF FreePe
    <2>3. Live(x)
        BY <1>5, <2>0, <2>2, DictEffect
    <2>4. CASE cell[x].ondisk = "FILE_REMOTE"
        <3>1. ASSUME NEW s \in Request, Makes(s, x) PROVE FALSE
            <4>1. pc[s] = "create" /\ x = hash[PathOf(s)]
                BY <3>1 DEF Makes, dfs_create
            <4>2. pe[s] = x
                BY <4>1 DEF Typed, Served, Creating, HeldInv, Holds, RequestPc, Pointing
            <4>3. r = s
                BY <2>1, <4>1, <4>2, Company DEF Creating
            <4> QED  BY <2>1, <4>1, <4>3 DEF Pointing
        <3>2. ASSUME NEW s \in Request, Marks(s, x) PROVE cell'[x].ondisk = "FILE_REMOTE"
            BY <1>0, <2>0, <3>2 DEF Marks, getattr_mark, Cell
        <3> QED  BY <1>5, <2>0, <2>2, <2>4, <3>1, <3>2, DictEffect
    <2> QED  BY <2>1, <2>3, <2>4 DEF RemoteInv
<1>6. \A r \in Request :
         pc'[r] \in {"remote_lock", "read"} /\ cell'[pe'[r]].state = "live"
         => cell'[pe'[r]].ondisk = "FILE_REMOTE"
    BY <1>5
<1> QED  BY <1>3, <1>4, <1>6 DEF RemoteInv, Live

(* RemoteHasAttributes: a request that finds a cell FILE_REMOTE and has    *)
(* its lock finds attributes (getattr.c:109), for any number of threads    *)
(* as long as nothing is unlinked, or with one request thread.             *)
THEOREM RemoteComplete ==
    ASSUME MaxUnlinks = 0 \/ \A r, s \in Request : r = s
    PROVE  Spec => []RemoteHasAttributes
<1>1. Init => RemoteInv
    BY DEF Init, RemoteInv, Live, pentry_free, pentry_new, Thread
<1>2. Typed /\ HeldInv /\ MutexInv /\ NamedInv /\ RemoteInv /\ [Next]_vars => RemoteInv'
    <2>1. ASSUME Typed, HeldInv, MutexInv, NamedInv, RemoteInv, Next PROVE RemoteInv'
        BY <2>1, TypedStep, RemoteStep
    <2>2. ASSUME RemoteInv, UNCHANGED vars PROVE RemoteInv'
        BY <2>2 DEF RemoteInv, vars, table, thread, Replacing, At, Live
    <2> QED  BY <2>1, <2>2
<1>3. Typed /\ MutexInv /\ RemoteInv => RemoteHasAttributes
    <2> SUFFICES ASSUME Typed, MutexInv, RemoteInv, NEW r \in Request, pc[r] = "read", Live(pe[r])
                 PROVE  cell[pe[r]].metadata \in Version
        BY DEF RemoteHasAttributes
    <2>1. At(r) = pe[r] /\ pe[r] # NULL /\ r \in Thread /\ pe[r] \in Pe
        BY DEF At, Typed, Served, Pointing, Thread, Types, ThreadTypes
    <2>2. cell[pe[r]].md_mutex = r
        BY <2>1 DEF MutexInv
    <2>3. ~Replacing(pe[r])
        BY <2>2 DEF Replacing
    <2> QED  BY <2>1, <2>3 DEF RemoteInv
<1> QED  BY <1>1, <1>2, <1>3, Base, Mutexes, Names, PTL DEF Spec

-----------------------------------------------------------------------------
(* As long as nothing is unlinked a live cell stays live, and a request's  *)
(* cell is live.                                                           *)
LEMMA LiveStays ==
    ASSUME Typed, Typed', Next, unlinks = 0, NEW x \in Pe, Live(x)
    PROVE  cell'[x].state = "live"
<1>1. PICK p \in Path : hash[p] = x
    BY DEF Typed, Owned
<1>2. x # NULL
    BY Values
<1>3. hash'[p] = x
    BY <1>1, <1>2, Growing
<1> QED  BY <1>2, <1>3 DEF Typed, Owned, Live

(* While nothing was unlinked, a handler that follows a pointer follows the one in
   the table, to a live cell. *)
LEMMA RequestCell ==
    ASSUME Typed, NamedInv, unlinks = 0, NEW r \in Request, pc[r] \in Pointing
    PROVE  /\ pe[r] = hash[PathOf(r)] /\ pe[r] \in Pe /\ pe[r] # NULL /\ Live(pe[r])
           /\ PathOf(r) \in Path
<1>1. call[r] # NULL /\ pe[r] # NULL /\ r \in Thread
    BY DEF Typed, Served, Pointing, Thread
<1>2. pe[r] = hash[PathOf(r)] /\ PathOf(r) \in Path /\ pe[r] \in Pe
    BY <1>1 DEF NamedInv, Typed, Types, ThreadTypes, PathOf
<1> QED  BY <1>1, <1>2 DEF Typed, Owned

(* A file that is about to be created has no dictionary yet.               *)
LEMMA NoDict ==
    ASSUME Typed, HeldInv, NotThere, NEW r \in Request, pc[r] \in {"create", "create_set"}
    PROVE  /\ cell[hash[PathOf(r)]].metadata = NULL /\ hash[PathOf(r)] # NULL
           /\ pe[r] = hash[PathOf(r)]
<1>1. /\ call[r] # NULL /\ Holds(r) /\ r \in Thread /\ PathOf(r) \in Path
      /\ attrs[PathOf(r)] = NULL
    BY DEF Typed, Served, Creating, Pointing, RequestPc, Holds, Thread, Types, ThreadTypes,
           PathOf, NotThere
<1>2. pe[r] = hash[PathOf(r)] /\ hash[PathOf(r)] # NULL
    BY <1>1 DEF HeldInv, Creating
<1>3. ASSUME NEW s \in Request, pc[s] = "mknod", PathOf(s) = PathOf(r) PROVE FALSE
    <2>1. Holds(s)
        BY <1>3 DEF Typed, Served, Creating, RequestPc, Holds
    <2> QED  BY <1>1, <1>3, <2>1 DEF HeldInv
<1> QED  BY <1>1, <1>2, <1>3 DEF NotThere

(* Whoever finds a mutex free, or has it to read, finds a dictionary that  *)
(* is not released.                                                        *)
LEMMA NotReleased ==
    ASSUME Typed, MutexInv, FreedReplaced, NEW t \in Thread, NEW x \in Pe, Live(x),
           \/ cell[x].md_mutex = NULL
           \/ pc[t] = "read" /\ At(t) = x
    PROVE  cell[x].metadata # Freed
<1> SUFFICES ASSUME Replacing(x) PROVE FALSE
    BY DEF FreedReplaced
<1>1. cell[x].md_mutex # NULL
    BY DEF Replacing
<1>2. cell[x].md_mutex = t
    BY <1>1, Values DEF MutexInv
<1> QED  BY <1>1, <1>2 DEF Replacing

(* So no step of a calm system follows a pointer to what was released.     *)
LEMMA NoCrash ==
    ASSUME Typed, HeldInv, MutexInv, NamedInv, Next, unlinks = 0,
           PointersLive, FreedReplaced, NotThere
    PROVE  ~Crashed'
<1>0. ThreadTypes /\ TableTypes /\ \A t \in Thread : pc[t] # "undefined"
    BY DEF Typed, Types, Next, Crashed
<1>1. ASSUME NEW r \in Request, Serve(r) PROVE pc'[r] # "undefined"
    <2>0. r \in Thread /\ At(r) = pe[r] /\ Served(r)
        BY DEF Thread, At, Typed
    <2> USE DEF Goto, ThreadTypes
    <2>1. CASE Leave(r)
        BY <1>0, <2>0, <2>1 DEF Leave
    <2>2. CASE getattr_remote(r)
        <3>1. pe[r] \in Pe /\ cell[pe[r]].metadata # Freed
            <4>1. pc[r] \in Pointing /\ pc[r] = "read"
                BY <2>2 DEF getattr_remote, Pointing
            <4> QED  BY <2>0, <4>1, RequestCell, NotReleased
        <3> QED  BY <1>0, <2>0, <2>1, <2>2, <3>1 DEF getattr_remote
    <2>3. CASE getattr_unset_lock(r)
        <3>1. pe[r] \in Pe /\ cell[pe[r]].metadata # Freed
            <4>1. pc[r] \in Pointing /\ cell[pe[r]].md_mutex = NULL
                BY <2>3 DEF getattr_unset_lock, Pointing
            <4> QED  BY <2>0, <4>1, RequestCell, NotReleased
        <3> QED  BY <1>0, <2>0, <2>3, <3>1 DEF getattr_unset_lock, ReleaseDict
    <2>4. CASE dfs_create(r)
        <3>1. cell[hash[PathOf(r)]].metadata = NULL
            BY <2>4, NoDict DEF dfs_create
        <3> QED  BY <1>0, <2>0, <2>4, <3>1 DEF dfs_create
    <2>5. CASE create_set(r)
        <3>1. pc[r] = "create_set" => cell[pe[r]].metadata = NULL
            BY NoDict
        <3> QED  BY <1>0, <2>0, <2>5, <3>1, Values DEF create_set, ReleaseDict
    <2>6. CASE dfs_getattr(r) \/ getattr_dispatch(r) \/ getattr_remote_lock(r) \/ getattr_unset(r)
        BY <1>0, <2>0, <2>1, <2>6 DEF dfs_getattr, getattr_dispatch, getattr_remote_lock,
                                      getattr_unset, Return
    <2>7. CASE getattr_unset_set(r) \/ getattr_mark(r) \/ create_mknod(r) \/ dfs_opendir(r)
        BY <1>0, <2>0, <2>1, <2>7 DEF getattr_unset_set, getattr_mark, create_mknod, dfs_opendir
    <2>8. CASE dfs_unlink(r) \/ unlink_remove(r)
        BY <1>0, <2>0, <2>1, <2>8 DEF dfs_unlink, unlink_remove
    <2>9. ~pentry_remove_dirent(r)
        BY <2>0 DEF pentry_remove_dirent, Served
    <2> QED  BY <1>1, <2>2, <2>3, <2>4, <2>5, <2>6, <2>7, <2>8, <2>9 DEF Serve, Getattr
<1>2. ASSUME NEW r \in Request, Serve(r), NEW t \in Thread, t # r PROVE pc'[t] # "undefined"
    <2>1. r \in Thread /\ Served(r)
        BY DEF Thread, Typed
    <2>2. ~pentry_remove_dirent(r)
        BY <2>1 DEF pentry_remove_dirent, Served
    <2>3. Leave(r) \/ \E l : Goto(r, l)
        BY <1>2, <2>2
        DEF Serve, Getattr, dfs_getattr, getattr_dispatch, Return, getattr_remote_lock,
            getattr_remote, getattr_unset, getattr_unset_lock, getattr_unset_set,
            getattr_mark, dfs_create, create_set, ReleaseDict, create_mknod, dfs_opendir,
            dfs_unlink, unlink_remove
    <2> QED  BY <1>0, <1>2, <2>1, <2>3 DEF Leave, Goto, ThreadTypes
<1>3. ASSUME NEW w \in Worker, Refresh(w) PROVE pc'[w] # "undefined"
    <2>0. w \in Thread /\ At(w) = at[w]
        BY Values DEF Thread, At
    <2> USE DEF Goto, ThreadTypes
    <2>1. CASE md_trylock(w)
        <3>1. at[w] \in Pe
            BY <1>0, <2>0, <2>1 DEF md_trylock, PointersLive
        <3>2. cell[at[w]].md_mutex = NULL => cell[at[w]].metadata # Freed
            BY <2>0, <2>1, <3>1, NotReleased DEF md_trylock
        <3> QED  BY <1>0, <2>0, <2>1, <3>2 DEF md_trylock, ReleaseDict, NextEntry, Leave
    <2>2. CASE update_md(w)
        BY <1>0, <2>0, <2>2 DEF update_md
    <2>3. CASE update_md_fails(w) \/ cb_map_dirents(w)
        BY <1>0, <2>0, <2>3 DEF update_md_fails, cb_map_dirents, thread
    <2>4. CASE map_end(w) \/ update_set(w)
        BY <1>0, <2>0, <2>4 DEF map_end, update_set, NextEntry, Leave
    <2> QED  BY <1>3, <2>1, <2>2, <2>3, <2>4 DEF Refresh
<1>4. ASSUME NEW w \in Worker, Refresh(w), NEW t \in Thread, t # w PROVE pc'[t] # "undefined"
    BY <1>0, <1>4, OthersRefresh DEF Frame
<1>5. ASSUME NEW t \in Thread, UseAfterFree(t) PROVE FALSE
    <2>1. CASE t \in Request
        BY <1>5, <2>1, RequestCell DEF UseAfterFree, Dangling, Pointing
    <2>2. CASE t \in Worker
        <3>0. t \notin Request
            BY <2>2, Values
        <3>1. Takes(t) => Live(Head(queue))
            <4>1. queue \in Seq(Pe)
                BY DEF Typed, Counts
            <4>2. queue # <<>> => Head(queue) = queue[1] /\ 1 \in 1..Len(queue)
                BY <4>1
            <4> QED  BY <4>2 DEF PointersLive, Takes
        <3> QED  BY <1>5, <2>2, <3>0, <3>1 DEF UseAfterFree, Dangling, PointersLive
    <2> QED  BY <2>1, <2>2 DEF Thread
<1>6. ASSUME NEW r \in Request, NEW p \in Path, Kernel(r, p), NEW t \in Thread
      PROVE  pc'[t] # "undefined"
    <2>1. CASE t = r
        BY <1>0, <1>6, <2>1, KernelStarts
    <2>2. CASE t # r
        BY <1>0, <1>6, <2>2, OthersKernel DEF Frame
    <2> QED  BY <2>1, <2>2
<1>7. ASSUME NEW t \in Thread,
             \/ \E p \in Path : OtherClient(p) \/ cachedir_callback(p)
             \/ \E x \in Pe : Age(x)
      PROVE  pc'[t] # "undefined"
    BY <1>0, <1>7, OthersNone DEF Frame
<1>8. ASSUME NEW t \in Thread PROVE pc'[t] # "undefined"
    BY <1>1, <1>2, <1>3, <1>4, <1>5, <1>6, <1>7 DEF Next
<1> QED  BY <1>8 DEF Crashed

(* What a pool thread and the queue point to stays live.                   *)
LEMMA PointersStep ==
    ASSUME Typed, Typed', Next, unlinks = 0, PointersLive, ~Crashed'
    PROVE  PointersLive'
<1>0. /\ ThreadTypes /\ ThreadTypes' /\ TableTypes /\ queue \in Seq(Pe) /\ queue' \in Seq(Pe)
      /\ \A x \in Pe : Live(x) => cell'[x].state = "live"
      /\ \A p \in Path : hash[p] # NULL => hash[p] \in Pe /\ Live(hash[p])
    BY LiveStays DEF Typed, Types, Counts, Owned, TableTypes
<1>1. ASSUME NEW i \in 1..Len(queue') PROVE cell'[queue'[i]].state = "live"
    <2>0. \A j \in 1..Len(queue) : queue[j] \in Pe /\ cell'[queue[j]].state = "live"
        BY <1>0 DEF PointersLive
    <2>1. CASE queue' = queue
        BY <1>1, <2>0, <2>1
    <2>2. ASSUME NEW p \in Path, cachedir_callback(p) PROVE cell'[queue'[i]].state = "live"
        BY <1>0, <1>1, <2>0, <2>2 DEF cachedir_callback, table
    <2>3. ASSUME NEW w \in Worker, queue # <<>>, queue' = Tail(queue)
          PROVE  cell'[queue'[i]].state = "live"
        <3>1. i + 1 \in 1..Len(queue) /\ queue'[i] = queue[i + 1]
            BY <1>0, <1>1, <2>3
        <3> QED  BY <2>0, <3>1
    <2>4. ASSUME NEW w \in Worker, Refresh(w) PROVE queue' = queue \/ (queue # <<>> /\ queue' = Tail(queue))
        BY <2>4 DEF Refresh, update_md, update_md_fails, Takes, cb_map_dirents, map_end, md_trylock,
                    update_set
    <2>5. ASSUME NEW r \in Request, Serve(r) PROVE queue' = queue
        BY <2>5 DEF Serve, Getattr, dfs_getattr, getattr_dispatch, getattr_remote_lock,
            getattr_remote, getattr_unset, getattr_unset_lock, getattr_unset_set,
            getattr_mark, dfs_create, create_set, create_mknod, dfs_opendir, dfs_unlink,
            unlink_remove, pentry_remove_dirent
    <2>6. ASSUME NEW r \in Request, NEW p \in Path, Kernel(r, p) PROVE queue' = queue
        BY <1>0, <2>6, KernelStarts
    <2>7. ASSUME \/ \E p \in Path : OtherClient(p)
                 \/ \E x \in Pe : Age(x)
                 \/ \E t \in Thread : UseAfterFree(t)
          PROVE  queue' = queue
        BY <2>7 DEF OtherClient, Age, UseAfterFree
    <2> QED  BY <2>1, <2>2, <2>3, <2>4, <2>5, <2>6, <2>7 DEF Next
<1>2. ASSUME NEW w \in Worker
      PROVE  /\ pc'[w] \in {"map", "trylock", "copy"} =>
                   pe'[w] # NULL /\ pe'[w] \in Pe /\ cell'[pe'[w]].state = "live"
             /\ pc'[w] \in {"trylock", "copy"} =>
                   at'[w] # NULL /\ at'[w] \in Pe /\ cell'[at'[w]].state = "live"
    <2>0. /\ w \in Thread /\ w \notin Request
          /\ pc[w] \in {"map", "trylock", "copy"} => pe[w] \in Pe /\ Live(pe[w])
          /\ pc[w] \in {"trylock", "copy"} => at[w] \in Pe /\ Live(at[w])
        BY <1>0, Values DEF Thread, PointersLive, ThreadTypes
    <2>1. CASE Frame(w)
        BY <1>0, <2>0, <2>1, Values DEF Frame, Kept
    <2>2. CASE Refresh(w)
        <3> USE DEF ThreadTypes, Goto
        <3>1. CASE update_md(w)
            <4>1. Head(queue) \in Pe /\ Live(Head(queue))
                BY <1>0, <3>1 DEF update_md, Takes
            <4> QED  BY <1>0, <2>0, <3>1, <4>1, Values DEF update_md, Takes
        <3>2. CASE update_md_fails(w)
            BY <1>0, <2>0, <3>2, Values DEF update_md_fails, thread, Takes
        <3>3. CASE cb_map_dirents(w)
            BY <1>0, <2>0, <3>3, Values DEF cb_map_dirents
        <3>4. CASE map_end(w)
            BY <1>0, <2>0, <3>4, Values DEF map_end
        <3>5. CASE md_trylock(w)
            BY <1>0, <2>0, <3>5, Values DEF md_trylock, NextEntry, Leave, ReleaseDict
        <3>6. CASE update_set(w)
            <4>1. pc[w] = "copy" /\ NextEntry(w)
                BY <3>6 DEF update_set
            <4>2. pc'[w] = "idle" \/ (pc'[w] = "map" /\ pe'[w] = pe[w])
                BY <1>0, <2>0, <4>1 DEF NextEntry, Leave
            <4> QED  BY <1>0, <2>0, <4>1, <4>2, Values
        <3> QED  BY <2>2, <3>1, <3>2, <3>3, <3>4, <3>5, <3>6 DEF Refresh
    <2>3. ASSUME NEW r \in Request, Serve(r) PROVE Frame(w)
        BY <1>0, <2>0, <2>3, OthersServe DEF Frame, Crashed
    <2>4. ASSUME NEW r \in Request, NEW p \in Path, Kernel(r, p) PROVE Frame(w)
        BY <1>0, <2>0, <2>4, OthersKernel
    <2>5. ASSUME NEW v \in Worker, v # w, Refresh(v) PROVE Frame(w)
        BY <1>0, <2>0, <2>5, OthersRefresh
    <2>6. ASSUME NEW u \in Thread, UseAfterFree(u) PROVE FALSE
        BY <1>0, <2>6, Crashing DEF Crashed
    <2>7. ASSUME \/ \E p \in Path : OtherClient(p) \/ cachedir_callback(p)
                 \/ \E x \in Pe : Age(x)
          PROVE  Frame(w)
        BY <1>0, <2>0, <2>7, OthersNone
    <2> QED  BY <2>1, <2>2, <2>3, <2>4, <2>5, <2>6, <2>7 DEF Next
<1> QED  BY <1>1, <1>2 DEF PointersLive, Live

(* A released dictionary is about to be replaced: dfs_create releases none *)
(* as the file it creates has none.                                        *)
LEMMA FreedStep ==
    ASSUME Typed, HeldInv, MutexInv, Next, FreedReplaced, NotThere
    PROVE  FreedReplaced'
<1> SUFFICES ASSUME NEW x \in Pe, cell'[x].state = "live", cell'[x].metadata = Freed
             PROVE  Replacing(x)'
    BY DEF FreedReplaced, Live
<1>0. cell \in [Pe -> Cell] /\ ThreadTypes /\ Freed \notin Version /\ Freed # NULL
    BY Values DEF Typed, Types, TableTypes
<1>1. CASE Live(x) /\ cell'[x].metadata = cell[x].metadata
    BY <1>0, <1>1, Remains DEF FreedReplaced
<1>2. ASSUME NEW t \in Thread, Releases(t, x) PROVE Replacing(x)'
    <2>1. At(t)' = x /\ pc'[t] = "copy" /\ meta'[t] # NULL /\ cell'[x].md_mutex = t
        BY <1>2 DEF Releases
    <2> QED  BY <2>1, Values DEF Replacing
<1>3. ASSUME NEW t \in Thread, CreatesIn(t, x) PROVE FALSE
    <2>1. t \in Request
        BY <1>3, Values DEF CreatesIn, Typed, WorkerPc
    <2>2. cell[x].metadata = NULL
        BY <1>3, <2>1, NoDict DEF CreatesIn
    <2> QED  BY <1>0, <1>3, <2>2 DEF CreatesIn
<1>4. ASSUME NEW t \in Thread, Renews(t, x) PROVE FALSE
    BY <1>0, <1>4 DEF Renews, ThreadTypes
<1> QED  BY <1>0, <1>1, <1>2, <1>3, <1>4, DictEffect

(* What the store has is not taken from it, while nobody else is there.    *)
LEMMA StoreGrows ==
    ASSUME Typed, Next, unlinks' = unlinks, changes' = changes, NEW p \in Path
    PROVE  /\ attrs[p] # NULL => attrs'[p] # NULL
           /\ \/ attrs'[p] = attrs[p]
              \/ \E r \in Request : create_mknod(r) /\ PathOf(r) = p /\ attrs'[p] # NULL
<1>0. unlinks \in Nat /\ changes \in Nat /\ attrs \in [Path -> Version \cup {NULL}]
    BY Values DEF Typed, Counts, Types, StoreTypes
<1>1. ASSUME NEW r \in Request, Serve(r), ~create_mknod(r) PROVE attrs' = attrs
    <2>1. CASE dfs_unlink(r)
        BY <1>0, <2>1 DEF dfs_unlink
    <2>2. CASE Getattr(r)
        BY <2>2
        DEF Getattr, dfs_getattr, getattr_dispatch, getattr_remote_lock, getattr_remote,
            getattr_unset, getattr_unset_lock, getattr_unset_set, getattr_mark, store
    <2>3. CASE dfs_create(r) \/ create_set(r) \/ dfs_opendir(r)
        BY <2>3 DEF dfs_create, create_set, dfs_opendir, store
    <2>4. CASE unlink_remove(r) \/ pentry_remove_dirent(r)
        BY <2>4 DEF unlink_remove, pentry_remove_dirent, store
    <2> QED  BY <1>1, <2>1, <2>2, <2>3, <2>4 DEF Serve
<1>2. ASSUME NEW r \in Request, create_mknod(r)
      PROVE  attrs'[p] = attrs[p] \/ (PathOf(r) = p /\ attrs'[p] # NULL)
    BY <1>0, <1>2, Values DEF create_mknod
<1>3. ASSUME NEW w \in Worker, Refresh(w) PROVE attrs' = attrs
    BY <1>3 DEF Refresh, update_md, update_md_fails, cb_map_dirents, map_end, md_trylock,
                update_set, store
<1>4. ASSUME NEW r \in Request, NEW q \in Path, Kernel(r, q) PROVE attrs' = attrs
    BY <1>4, KernelStarts DEF store, Typed, Types
<1>5. ASSUME NEW q \in Path PROVE ~OtherClient(q)
    BY <1>0 DEF OtherClient
<1>6. ASSUME \/ \E q \in Path : cachedir_callback(q)
             \/ \E x \in Pe : Age(x)
             \/ \E t \in Thread : UseAfterFree(t)
      PROVE  attrs' = attrs
    BY <1>6 DEF cachedir_callback, Age, UseAfterFree, store
<1>7. \/ attrs' = attrs
      \/ \E r \in Request : create_mknod(r)
    BY <1>1, <1>3, <1>4, <1>5, <1>6 DEF Next
<1> QED  BY <1>2, <1>7

(* Attributes a request brings are those of a file in the store.           *)
LEMMA BringsServe ==
    ASSUME Typed, NamedInv, OnTheirWay, unlinks = 0, NEW r \in Request, Serve(r),
           pc'[r] \in {"lock", "copy"}, meta'[r] # NULL,
           NEW p \in Path, pe'[r] # NULL, pe'[r] = hash'[p]
    PROVE  attrs[p] # NULL
<1>0. r \in Thread /\ ThreadTypes /\ At(r) = pe[r]
    BY DEF Typed, Types, Thread, At
<1> USE DEF Goto, ThreadTypes
<1>1. pc'[r] # "idle" /\ ~Leave(r)
    BY <1>0 DEF Leave
<1>2. CASE getattr_unset(r)
    <2>1. /\ meta'[r] = Answer(PathOf(r)) /\ attrs[PathOf(r)] # NULL /\ pc[r] = "unset"
          /\ hash' = hash /\ pe' = pe
        BY <1>0, <1>1, <1>2 DEF getattr_unset, Return, table
    <2>2. pe[r] = hash[PathOf(r)] /\ PathOf(r) \in Path
        BY <2>1, RequestCell DEF Pointing
    <2>3. PathOf(r) = p
        BY <2>1, <2>2 DEF Typed, Owned
    <2> QED  BY <2>1, <2>3
<1>3. CASE getattr_unset_lock(r)
    <2>1. hash' = hash /\ pe' = pe /\ meta' = meta /\ pc[r] = "lock"
        BY <1>3 DEF getattr_unset_lock
    <2> QED  BY <1>0, <2>1 DEF OnTheirWay
<1>4. CASE dfs_getattr(r) \/ getattr_dispatch(r) \/ getattr_remote_lock(r) \/ getattr_remote(r)
    BY <1>0, <1>1, <1>4 DEF dfs_getattr, getattr_dispatch, getattr_remote_lock,
                            getattr_remote, Return
<1>5. CASE getattr_unset_set(r) \/ getattr_mark(r) \/ dfs_create(r) \/ create_set(r)
    BY <1>0, <1>1, <1>5 DEF getattr_unset_set, getattr_mark, dfs_create, create_set, ReleaseDict
<1>6. CASE create_mknod(r) \/ dfs_opendir(r) \/ dfs_unlink(r) \/ unlink_remove(r)
    BY <1>0, <1>1, <1>6 DEF create_mknod, dfs_opendir, dfs_unlink, unlink_remove
<1>7. ~pentry_remove_dirent(r)
    BY <1>0, <1>1, OwnCall, Values DEF pentry_remove_dirent, Typed, Served
<1> QED  BY <1>2, <1>3, <1>4, <1>5, <1>6, <1>7 DEF Serve, Getattr

(* So are those a pool thread brings.                                      *)
LEMMA BringsRefresh ==
    ASSUME Typed, PointersLive, OnTheirWay, NEW w \in Worker, Refresh(w),
           pc'[w] \in {"trylock", "copy"}, meta'[w] # NULL,
           NEW p \in Path, at'[w] # NULL, at'[w] = hash'[p]
    PROVE  attrs[p] # NULL
<1>0. w \in Thread /\ ThreadTypes /\ At(w) = at[w] /\ hash' = hash
    BY TableRefresh, Values DEF Typed, Types, TableTypes, Thread, At, TableSame
<1> USE DEF Goto, ThreadTypes
<1>1. CASE update_md(w)
    <2> DEFINE x == Head(queue)
               q == CHOOSE q \in Path : hash[q] = x
    <2>1. queue # <<>> /\ queue \in Seq(Pe) /\ Live(x)
        BY <1>1 DEF update_md, Takes, Typed, Counts
    <2>2. x \in Pe
        BY <2>1
    <2>3. q \in Path /\ hash[q] = x
        BY <2>1, <2>2 DEF Typed, Owned
    <2>4. CASE attrs[q] # NULL /\ at' = [at EXCEPT ![w] = x]
        <3>1. at'[w] = x
            BY <1>0, <2>4
        <3>2. q = p
            BY <1>0, <2>3, <3>1 DEF Typed, Owned
        <3> QED  BY <2>4, <3>2
    <2>5. CASE pc' = pc
        BY <1>1, <2>5 DEF update_md, Takes
    <2> QED  BY <1>1, <2>4, <2>5 DEF update_md
<1>2. CASE update_md_fails(w)
    BY <1>2 DEF update_md_fails, thread, Takes
<1>3. CASE cb_map_dirents(w)
    <2>1. PICK q \in todo[w] :
             \/ hash[q] # NULL /\ attrs[q] # NULL /\ at' = [at EXCEPT ![w] = hash[q]]
             \/ pc' = pc
        BY <1>3 DEF cb_map_dirents
    <2>2. q \in Path /\ pc[w] = "map"
        BY <1>0, <1>3 DEF cb_map_dirents
    <2>3. at'[w] = hash[q] /\ hash[q] # NULL /\ attrs[q] # NULL
        BY <1>0, <2>1, <2>2
    <2> QED  BY <1>0, <2>2, <2>3 DEF Typed, Owned
<1>4. CASE map_end(w)
    BY <1>0, <1>4 DEF map_end
<1>5. CASE md_trylock(w)
    <2>1. at'[w] = at[w] /\ meta'[w] = meta[w] /\ pc[w] = "trylock"
        BY <1>0, <1>5 DEF md_trylock, NextEntry, Leave, ReleaseDict
    <2> QED  BY <1>0, <2>1 DEF OnTheirWay
<1>6. CASE update_set(w)
    BY <1>0, <1>6 DEF update_set, NextEntry, Leave
<1> QED  BY <1>1, <1>2, <1>3, <1>4, <1>5, <1>6 DEF Refresh

(* A step that neither unlinks nor is another client's keeps OnTheirWay: the
   attributes a thread brings to a cell belong to an object the store still has. *)
LEMMA OnTheirWayStep ==
    ASSUME Typed, Typed', NamedInv, OnTheirWay, PointersLive, Next, ~Crashed',
           unlinks = 0, unlinks' = unlinks, changes' = changes
    PROVE  OnTheirWay'
<1>0. ThreadTypes /\ ThreadTypes' /\ TableTypes
    BY DEF Typed, Types
<1> SUFFICES ASSUME NEW t \in Thread, NEW p \in Path,
                    pc'[t] \in {"lock", "copy", "trylock"}, meta'[t] # NULL,
                    At(t)' # NULL, At(t)' = hash'[p]
             PROVE  attrs[p] # NULL
    BY StoreGrows DEF OnTheirWay
<1>1. CASE Frame(t)
    <2>1. pc[t] = pc'[t] /\ meta[t] = meta'[t] /\ At(t) = At(t)'
        BY <1>1 DEF Frame, Kept, At
    <2>2. CASE hash[p] = hash'[p]
        BY <2>1, <2>2 DEF OnTheirWay
    <2>3. CASE hash[p] # hash'[p]
        <3>1. PICK r \in Request : Inserted(r)
            <4>1. ASSUME NEW r \in Request, Removed(r) PROVE FALSE
                BY <4>1 DEF Removed, unlink_remove, Typed, Served
            <4> QED  BY <2>3, <4>1, TableEffect DEF TableSame
        <3>2. hash'[p] = Malloc /\ CanInsert
            BY <1>0, <2>3, <3>1 DEF Inserted, Insert, TableTypes
        <3>3. FreePe(At(t))
            BY <2>1, <3>2, Allocated
        <3> QED  BY <3>3 DEF FreePe, At
    <2> QED  BY <2>2, <2>3
<1>2. CASE ~Frame(t) /\ t \in Request
    <2>1. Serve(t) /\ At(t)' = pe'[t]
        BY <1>0, <1>2, Resting, Crashing, KernelStarts DEF At
    <2>2. pc'[t] # "trylock"
        BY <1>2 DEF Typed, Served, RequestPc, Pointing, Creating
    <2> QED  BY <1>2, <2>1, <2>2, BringsServe
<1>3. CASE ~Frame(t) /\ t \in Worker
    <2>0. t \notin Request /\ At(t)' = at'[t]
        BY <1>3, Values DEF At
    <2>1. ASSUME NEW r \in Request, Serve(r) PROVE FALSE
        BY <1>0, <1>3, <2>0, <2>1, OthersServe DEF Frame, Crashed
    <2>2. ASSUME NEW r \in Request, NEW q \in Path, Kernel(r, q) PROVE FALSE
        BY <1>0, <1>3, <2>0, <2>2, OthersKernel
    <2>3. ASSUME NEW v \in Worker, v # t, Refresh(v) PROVE FALSE
        BY <1>0, <1>3, <2>0, <2>3, OthersRefresh
    <2>4. ASSUME NEW u \in Thread, UseAfterFree(u) PROVE FALSE
        BY <1>0, <2>4, Crashing DEF Crashed
    <2>5. ASSUME \/ \E q \in Path : OtherClient(q) \/ cachedir_callback(q)
                 \/ \E x \in Pe : Age(x)
          PROVE  FALSE
        BY <1>0, <1>3, <2>5, OthersNone
    <2>6. Refresh(t)
        BY <2>1, <2>2, <2>3, <2>4, <2>5 DEF Next
    <2>7. pc'[t] \in {"trylock", "copy"}
        BY <1>3 DEF Typed, WorkerPc
    <2> QED  BY <1>3, <2>0, <2>6, <2>7, BringsRefresh
<1> QED  BY <1>1, <1>2, <1>3 DEF Thread

(* How a request comes to create a file.                                   *)
LEMMA CreatingStep ==
    ASSUME Typed, Next, NEW r \in Request, pc'[r] \in Creating
    PROVE  /\ call'[r] = call[r] /\ call[r] # NULL /\ call[r].kind = "creat" /\ ~create_mknod(r)
           /\ pc[r] \in Creating \/ attrs[PathOf(r)] = NULL
<1>0. r \in Thread /\ ThreadTypes /\ Served(r)
    BY DEF Typed, Types, Thread
<1> USE DEF Goto, ThreadTypes, Creating
<1>1. CASE Serve(r)
    <2>1. pc'[r] # "idle" /\ ~Leave(r) /\ call'[r] = call[r]
        BY <1>0, <1>1, OwnCall DEF Leave
    <2>2. CASE getattr_unset(r)
        BY <1>0, <2>1, <2>2, Values DEF getattr_unset, Return, Served, create_mknod
    <2>3. CASE dfs_create(r) \/ create_set(r)
        BY <1>0, <2>1, <2>3, Values DEF dfs_create, create_set, create_mknod, Served, RequestPc, Pointing
    <2>4. CASE dfs_getattr(r) \/ getattr_dispatch(r) \/ getattr_remote_lock(r) \/ getattr_remote(r)
        BY <1>0, <2>1, <2>4 DEF dfs_getattr, getattr_dispatch, getattr_remote_lock,
                                getattr_remote, Return
    <2>5. CASE getattr_unset_lock(r) \/ getattr_unset_set(r) \/ getattr_mark(r)
        BY <1>0, <2>1, <2>5 DEF getattr_unset_lock, getattr_unset_set, getattr_mark, ReleaseDict
    <2>6. CASE create_mknod(r) \/ dfs_opendir(r) \/ dfs_unlink(r) \/ unlink_remove(r)
        BY <1>0, <2>1, <2>6 DEF create_mknod, dfs_opendir, dfs_unlink, unlink_remove
    <2>7. ~pentry_remove_dirent(r)
        BY <1>0, <1>1, <2>1, Values DEF pentry_remove_dirent, Served
    <2> QED  BY <1>1, <2>2, <2>3, <2>4, <2>5, <2>6, <2>7 DEF Serve, Getattr
<1>2. CASE Frame(r)
    <2>1. pc'[r] = pc[r] /\ call'[r] = call[r]
        BY <1>2 DEF Frame, Kept
    <2>2. ~create_mknod(r)
        BY <1>0, <2>1 DEF create_mknod, Leave
    <2> QED  BY <1>0, <2>1, <2>2 DEF Served, RequestPc, Pointing
<1>3. ~UseAfterFree(r) /\ ~\E p \in Path : Kernel(r, p)
    BY <1>0, Crashing, KernelStarts
<1> QED  BY <1>0, <1>1, <1>2, <1>3, Resting

(* What is about to be created is not in the store, and what is not there  *)
(* has no dictionary, unless its creation is about to make it.             *)
LEMMA NotThereStep ==
    ASSUME Typed, Typed', HeldInv, OnTheirWay, OnTheirWay', NotThere, Next,
           unlinks = 0, unlinks' = unlinks, changes' = changes
    PROVE  NotThere'
<1>0. ThreadTypes /\ ThreadTypes' /\ TableTypes /\ TableTypes'
    BY DEF Typed, Types
<1>1. ASSUME NEW r \in Request, pc'[r] \in Creating PROVE attrs'[PathOf(r)'] = NULL
    <2>0. /\ r \in Thread /\ call'[r] = call[r] /\ PathOf(r)' = PathOf(r) /\ PathOf(r) \in Path
          /\ Holds(r)
        BY <1>0, <1>1, CreatingStep, Values DEF Thread, PathOf, Holds, ThreadTypes
    <2>1. attrs[PathOf(r)] = NULL /\ ~create_mknod(r)
        BY <1>1, CreatingStep DEF NotThere
    <2>2. ASSUME NEW s \in Request, create_mknod(s), PathOf(s) = PathOf(r) PROVE FALSE
        <3>1. Holds(s)
            BY <2>2 DEF create_mknod, Typed, Served, Creating, RequestPc, Holds
        <3>2. s = r
            BY <2>0, <2>2, <3>1 DEF HeldInv
        <3> QED  BY <2>1, <2>2, <3>2
    <2> QED  BY <2>0, <2>1, <2>2, StoreGrows
<1>2. ASSUME NEW p \in Path, attrs'[p] = NULL, hash'[p] # NULL
      PROVE  \/ cell'[hash'[p]].metadata = NULL
             \/ \E r \in Request : pc'[r] = "mknod" /\ PathOf(r)' = p
    <2>0. PICK x \in Pe : x = hash'[p] /\ cell'[x].state = "live"
        BY <1>0, <1>2 DEF TableTypes, Typed, Owned, Live
    <2>1. attrs[p] = NULL
        BY <1>2, StoreGrows
    <2>2. CASE FreePe(x) /\ cell'[x].metadata = NULL
        BY <2>0, <2>2
    <2>3. CASE Live(x)
        <3>1. hash[p] = x
            <4>1. PICK q \in Path : hash[q] = x
                BY <2>0, <2>3 DEF Typed, Owned
            <4>2. hash'[q] = x /\ x # NULL
                BY <4>1, Growing, Values
            <4>3. q = p
                BY <2>0, <4>2 DEF Typed, Owned
            <4> QED  BY <4>1, <4>3
        <3>2. x # NULL
            BY Values
        <3>3. CASE cell'[x].metadata = cell[x].metadata /\ cell[x].metadata = NULL
            BY <2>0, <3>3
        <3>4. ASSUME NEW s \in Request, pc[s] = "mknod", PathOf(s) = p
              PROVE  pc'[s] = "mknod" /\ PathOf(s)' = p
            <4>1. s \in Thread /\ ~create_mknod(s)
                BY <1>0, <1>2, <3>4, Values DEF create_mknod, Thread, Typed, Types, StoreTypes
            <4>2. ~Serve(s)
                BY <3>4, <4>1
                DEF Serve, Getattr, dfs_getattr, getattr_dispatch, getattr_remote_lock,
                    getattr_remote, getattr_unset, getattr_unset_lock, getattr_unset_set,
                    getattr_mark, dfs_create, create_set, dfs_opendir,
                    dfs_unlink, unlink_remove, pentry_remove_dirent
            <4>3. ~UseAfterFree(s) /\ ~\E q \in Path : Kernel(s, q)
                BY <1>0, <3>4, <4>1, Crashing, KernelStarts, Values DEF Pointing
            <4>4. Frame(s)
                BY <1>0, <4>2, <4>3, Resting
            <4> QED  BY <3>4, <4>4 DEF Frame, Kept, PathOf
        <3>5. CASE \E s \in Request : pc[s] = "mknod" /\ PathOf(s) = p
            BY <3>4, <3>5
        <3>6. ASSUME NEW t \in Thread, Releases(t, x) PROVE FALSE
            <4>1. pc'[t] = "copy" /\ meta'[t] # NULL /\ At(t)' # NULL /\ At(t)' = hash'[p]
                BY <2>0, <3>2, <3>6 DEF Releases
            <4> QED  BY <1>2, <4>1 DEF OnTheirWay
        <3>7. ASSUME NEW t \in Thread, CreatesIn(t, x) PROVE cell'[x].metadata = NULL
            <4>1. t \in Request
                BY <3>7, Values DEF CreatesIn, Typed, WorkerPc
            <4>2. cell[x].metadata = NULL
                BY <3>7, <4>1, NoDict DEF CreatesIn
            <4> QED  BY <3>7, <4>2 DEF CreatesIn
        <3>8. ASSUME NEW t \in Thread, Renews(t, x)
              PROVE  \E r \in Request : pc'[r] = "mknod" /\ PathOf(r)' = p
            <4>1. pc[t] # "copy"
                BY <2>1, <3>1, <3>2, <3>8 DEF Renews, OnTheirWay
            <4>2. pc[t] = "create_copy" /\ pc'[t] = "mknod" /\ call'[t] = call[t]
                BY <3>8, <4>1 DEF Renews
            <4>3. t \in Request
                BY <4>2, Values DEF Typed, WorkerPc
            <4>4. pe[t] = x
                BY <3>8, <4>3 DEF Renews, At
            <4>5. Holds(t) /\ PathOf(t) \in Path
                BY <1>0, <4>2, <4>3 DEF Typed, Served, Creating, RequestPc, Holds, ThreadTypes,
                                        PathOf, Thread
            <4>6. hash[PathOf(t)] = x
                BY <4>2, <4>3, <4>4, <4>5 DEF HeldInv, Creating
            <4>7. PathOf(t) = p
                BY <3>1, <3>2, <4>5, <4>6 DEF Typed, Owned
            <4> QED  BY <4>2, <4>3, <4>7 DEF PathOf
        <3>9. cell[x].metadata = NULL \/ \E s \in Request : pc[s] = "mknod" /\ PathOf(s) = p
            BY <2>1, <3>1, <3>2 DEF NotThere
        <3> QED  BY <2>0, <2>3, <3>3, <3>5, <3>6, <3>7, <3>8, <3>9, DictEffect DEF FreePe
    <2> QED  BY <2>0, <2>2, <2>3, DictEffect
<1>3. \A r \in Request : pc'[r] \in Creating => attrs'[PathOf(r)'] = NULL
    BY <1>1
<1> QED  BY <1>2, <1>3 DEF NotThere

(* CrashNeedsCompany: no thread follows a pointer to a cell or dictionary  *)
(* that was released, or releases one twice, as long as nothing is         *)
(* unlinked and no other client changes the store, whatever requests, the  *)
(* updater and the pool do at the same time.                               *)
THEOREM CrashesInCompany == Spec => []CrashNeedsCompany
<1>1. Init => CalmInv
    BY Values
    DEF Init, CalmInv, Crashed, PointersLive, FreedReplaced, OnTheirWay, NotThere, Live,
        pentry_free, pentry_new, Thread, Creating
<1>2. Typed /\ HeldInv /\ MutexInv /\ NamedInv /\ CalmInv /\ [Next]_vars => CalmInv'
    <2>1. ASSUME Typed, HeldInv, MutexInv, NamedInv, CalmInv, Next, unlinks' = 0, changes' = 0
          PROVE  (~Crashed /\ PointersLive /\ FreedReplaced /\ OnTheirWay /\ NotThere)'
        <3>1. unlinks = 0 /\ changes = 0 /\ unlinks' = unlinks /\ changes' = changes
            BY <2>1, Counters, Values DEF Typed, Counts
        <3>2. PointersLive /\ FreedReplaced /\ OnTheirWay /\ NotThere
            BY <2>1, <3>1 DEF CalmInv
        <3>3. Typed'
            BY <2>1, TypedStep
        <3>4. ~Crashed'
            BY <2>1, <3>1, <3>2, NoCrash
        <3>5. PointersLive' /\ FreedReplaced'
            BY <2>1, <3>1, <3>2, <3>3, <3>4, PointersStep, FreedStep
        <3>6. OnTheirWay'
            BY <2>1, <3>1, <3>2, <3>3, <3>4, OnTheirWayStep
        <3>7. NotThere'
            BY <2>1, <3>1, <3>2, <3>3, <3>6, NotThereStep
        <3> QED  BY <3>4, <3>5, <3>6, <3>7
    <2>2. ASSUME CalmInv, UNCHANGED vars PROVE CalmInv'
        BY <2>2
        DEF CalmInv, vars, table, store, thread, Crashed, PointersLive, FreedReplaced,
            OnTheirWay, NotThere, Live, Replacing, At, PathOf
    <2> QED  BY <2>1, <2>2 DEF CalmInv
<1>3. CalmInv /\ Typed => CrashNeedsCompany
    BY Values DEF CalmInv, CrashNeedsCompany, Typed, Counts
<1> QED  BY <1>1, <1>2, <1>3, Base, Mutexes, Names, PTL DEF Spec
=============================================================================
