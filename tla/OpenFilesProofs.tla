-------------------------- MODULE OpenFilesProofs --------------------------
(***************************************************************************)
(* Theorems about OpenFiles: who may write, and what exists, when paths    *)
(* are unlinked, renamed and replaced while their files are open.          *)
(*                                                                         *)
(* A served request and the collector take steps of FileCache, so that     *)
(* what those preserve is used as it is proved there; what is new is that  *)
(* the cells of an open path can be freed, and the path created again.     *)
(***************************************************************************)
EXTENDS OpenFiles, FileCacheProofs

(* Names for sets of program counters are always unfolded.                 *)
USE DEF GetattrPc, OpenPc, ReleasePc, IdlePc, NoCellPc, CopyPc, Pc, DerefPc,
        OwnerPc, CountedPc

-----------------------------------------------------------------------------
(* What dfs_unlink is at.                                                  *)
TreeTypeOK ==
    /\ taken \in Path \cup {NULL}
    /\ upc \in {"idle", "local", "cell"}
    /\ taken = NULL <=> upc = "idle"
    /\ hidden \subseteq Handle

(* The cells of the table are live, one path each, and a handle whose cell *)
(* is live has the one its path has.                                       *)
CellsOnce ==
    /\ \A p \in Path : hash[p] # NULL => Live(hash[p])
    /\ \A p, q \in Path : hash[p] # NULL /\ hash[p] = hash[q] => p = q
    /\ \A h \in Handle : fh[h] # NULL /\ Live(fh[h]) => hash[PathOf(h)] = fh[h]

(* One lookup or creation of a name at a time (the kernel).                *)
NamesOnce ==
    \A g, h \in Handle :
        HoldsName(g) /\ HoldsName(h) /\ PathOf(g) = PathOf(h) => g = h

(* A handle whose path was taken away has lost its cell, at the latest     *)
(* when dfs_unlink returns.                                                *)
HiddenGone ==
    \A h \in hidden : /\ pc[h] \in {"opened", "undefined"}
                      /\ ~Live(fh[h]) \/ taken = PathOf(h)

(* Where a handler has found the object of its path, or made it.           *)
Finds(h) ==
    \/ pc[h] \in ReleasePc \cup {"opened", "mark", "set_fd"}
    \/ pc[h] \in OpenPc \cup {"open"} /\ ~Creating(h)
    \/ pc[h] \in GetattrPc /\ Stats(h)

(* Where dfs_create is about to make it.                                   *)
AboutToMake(h) == pc[h] \in {"create", "mknod"} /\ Creating(h)

(* What the kernel, a handle or a cell takes for a file is one; only       *)
(* dfs_create marks the cell before it makes the object.                   *)
RemembersThere == \A p \in dentry : remote[p] # NULL
FindsThere == \A h \in Handle \ hidden : Finds(h) => remote[PathOf(h)] # NULL
StatsOnly  == \A h \in Handle : Stats(h) => pc[h] \in GetattrPc \cup {"undefined"}
MarkedThere ==
    \A p \in Path : hash[p] # NULL /\ cell[hash[p]].ondisk # "FILE_UNSET" =>
        \/ remote[p] # NULL
        \/ taken = p
        \/ /\ cell[hash[p]].ondisk = "FILE_LOCAL"
           /\ \E h \in Handle : AboutToMake(h) /\ fh[h] = hash[p]

FoundThere == RemembersThere /\ FindsThere /\ StatsOnly /\ MarkedThere

(* A handle that accounts for a copy without an original: one whose create *)
(* is on the way, or of which nothing is known any more.                   *)
Orphan(h) ==
    \/ pc[h] = "undefined"
    \/ /\ pc[h] \in {"placeholder", "create", "mknod"} /\ Creating(h)
       /\ pc[h] = "create" /\ Live(fh[h]) => cell[fh[h]].fd # NULL

OrphanMade ==
    /\ \A p \in Path : Copied(p) /\ remote[p] = NULL /\ taken # p =>
        \E h \in Handle \ hidden : call[h] # NULL /\ PathOf(h) = p /\ Orphan(h)
    /\ upc = "cell" => local[taken] = NULL

-----------------------------------------------------------------------------
(* The handlers of unlink.c and rename.c.                                  *)
TreeStep == \/ \E p \in Path : dfs_unlink(p) \/ rename_onto(p)
            \/ unlink_local \/ unlink_cell

(* A request's step, while no path is being taken away.                    *)
Serves(h) == /\ HandlerStep(h) /\ taken = NULL
             /\ hidden' = {g \in hidden : call'[g] # NULL}
             /\ UNCHANGED <<taken, upc>>

(* Every step is one of these, or one of the kernel, of the collector or   *)
(* of time.                                                                *)
LEMMA OpenSplit ==
  ASSUME TypeOK, TreeTypeOK, HiddenGone, OpenNext
  PROVE  \/ TreeStep
         \/ OtherStep /\ UNCHANGED treevars
         \/ \E h \in Handle : Serves(h)
  <1>1. CASE Aside
    BY <1>1 DEF Aside, OtherStep
  <1>2. ASSUME NEW h \in Handle, Served(h)
        PROVE  Serves(h) \/ (OtherStep /\ UNCHANGED treevars)
    <2>1. CASE Kernel(h)
      <3>1. OtherStep /\ \A g \in Handle : pc[g] # "closed" => call'[g] = call[g]
        BY <2>1 DEF OtherStep, Kernel, KernelLookup, KernelStat, KernelOpen, TypeOK,
                    HandleTypeOK
      <3>2. \A g \in hidden : call[g] # NULL /\ call'[g] = call[g]
        BY <3>1 DEF HiddenGone, TreeTypeOK, TypeOK, LocalsOK
      <3> QED BY <1>2, <3>1, <3>2 DEF Served, treevars
    <2> QED BY <1>2, <2>1 DEF Served, Serves, HandlerStep
  <1> QED BY <1>1, <1>2 DEF OpenNext, TreeStep

(* What the steps of FileCache preserve.                                   *)
LEMMA ServedSteps ==
  ASSUME TypeOK, OpenHasFd, OtherStep \/ \E h \in Handle : HandlerStep(h)
  PROVE  /\ TypeOK' /\ OpenHasFd'
         /\ FreshInv => FreshInv'
         /\ OneName => OneName'
         /\ LockWorks /\ LockInv => LockInv'
  <1>1. Next
    BY DEF OtherStep, HandlerStep, Next
  <1> QED BY <1>1, TypeStep, FdStep, FreshStep, OneNameStep, LockStep

(* A path is taken away only while no handler copies its object.           *)
LEMMA TreeSteps ==
  ASSUME TypeOK, TreeTypeOK, OpenHasFd, TreeStep
  PROVE  /\ TypeOK' /\ TreeTypeOK' /\ OpenHasFd'
         /\ FreshInv => FreshInv'
         /\ OneName => OneName'
         /\ LockInv => LockInv'
  <1>1. UNCHANGED <<pc, call, fh, private, gcvars, data, young>>
    BY DEF TreeStep, dfs_unlink, rename_onto, unlink_local, unlink_cell, disk
  <1>2. TreeTypeOK'
    BY PentryAssumption
    DEF TreeStep, dfs_unlink, rename_onto, unlink_local, unlink_cell, TreeTypeOK, treevars
  <1>3. HashTypeOK'
    BY PentryNewType, HashOpsType
    DEF TreeStep, dfs_unlink, rename_onto, unlink_local, unlink_cell, TypeOK, TreeTypeOK,
        HashTypeOK, table
  <1>4. DiskTypeOK' /\ StoreTypeOK'
    BY DEF TreeStep, dfs_unlink, rename_onto, unlink_local, unlink_cell, TypeOK,
           TreeTypeOK, DiskTypeOK, StoreTypeOK, Content, disk, store
  <1>5. \A h \in Handle : LocalsOK(h)'
    <2> SUFFICES ASSUME NEW h \in Handle, pc[h] \in CopyPc
                 PROVE  remote'[PathOf(h)] # NULL
      BY <1>1 DEF TypeOK, LocalsOK, PathOf, private
    <2>1. call[h] # NULL /\ PathOf(h) \in Path /\ remote[PathOf(h)] # NULL
      BY AtPc, FileCacheAssumption DEF TypeOK, LocalsOK
    <2>2. ASSUME NEW p \in Path, PathIdle(p)
          PROVE  PathOf(h) # p
      BY <2>1, <2>2 DEF PathIdle
    <2> QED BY <2>1, <2>2
            DEF TreeStep, dfs_unlink, rename_onto, unlink_local, unlink_cell, store,
                TypeOK, StoreTypeOK
  <1>6. TypeOK'
    BY <1>1, <1>3, <1>4, <1>5 DEF TypeOK, HandleTypeOK, GcTypeOK, private, gcvars
  <1>7. \A x \in Pe : cell'[x] \in {cell[x], pentry_free}
    BY RemoveCells
    DEF TreeStep, dfs_unlink, rename_onto, unlink_local, unlink_cell, TypeOK,
        TreeTypeOK, table, hash_remove
  <1>8. pentry_free.state = "free" /\ pentry_free.ondisk # "FILE_LOCAL" /\ pentry_free.fd = NULL
    BY DEF pentry_free, pentry_new
  <1>9. \A h \in Handle : pc[h] \notin NoCellPc => fh[h] \in Pe
    BY AtPc
  <1>10. \A h \in Handle : Writer(h)' = Writer(h)
    BY <1>1 DEF Writer, NeedsLock, Mode
  <1>11. OpenHasFd'
    BY <1>1, <1>7, <1>8, <1>9 DEF OpenHasFd, Live
  <1>12. LockInv => LockInv'
    BY <1>1, <1>7, <1>8, <1>9, <1>10 DEF LockInv, Live, gcvars, TypeOK, GcTypeOK
  <1>13. /\ \A p \in Path : local'[p] \in {local[p], NULL}
         /\ \A p \in Path : remote'[p] \in {remote[p], NULL, "moved"}
    BY DEF TreeStep, dfs_unlink, rename_onto, unlink_local, unlink_cell, disk, store,
           TypeOK, DiskTypeOK, StoreTypeOK
  <1>14. FreshInv => FreshInv'
    <2>1. NULL # "stale"
      BY PentryAssumption DEF Content
    <2>2. \A h \in Handle : pc[h] # "closed" => PathOf(h) \in Path
      BY AtPc
    <2> QED BY <1>1, <1>7, <1>8, <1>13, <2>1, <2>2 DEF FreshInv, PathOf, private
  <1>15. OneName => OneName'
    BY <1>13 DEF OneName
  <1> QED BY <1>2, <1>6, <1>11, <1>12, <1>14, <1>15

-----------------------------------------------------------------------------
(* The cells of the table.                                                 *)

(* A handler's step changes the marks of its cell, or enters a free cell   *)
(* for its path, in the place of the one there may be.                     *)
Enters(h) ==
    \E x \in Pe :
        /\ FreePe(x) /\ fh'[h] = x /\ call'[h] = call[h]
        /\ hash' = [hash EXCEPT ![PathOf(h)] = x]
        /\ cell'[x] = pentry_new
        /\ \A y \in Pe \ {x} : cell'[y] = IF y = hash[PathOf(h)] THEN pentry_free
                                          ELSE cell[y]

(* A handler leaves the table and the marks of all cells alone, but for the*)
(* two places that enter a fresh cell.                                     *)
LEMMA TableFrame ==
  ASSUME TypeOK, NEW h \in Handle, HandlerStep(h)
  PROVE  \/ hash' = hash /\ \A x \in Pe : MarksKept(h, x)
         \/ Enters(h) /\ pc[h] \in {"getattr_insert", "populate"}
  <1>1. CASE ~getattr_insert(h) /\ ~populate_hash(h)
    BY <1>1, MarksFrame, CellFrame
  <1>2. CASE getattr_insert(h) \/ populate_hash(h)
    <2>1. pc[h] \in {"getattr_insert", "populate"}
      BY <1>2 DEF getattr_insert, populate_hash
    <2>2. CASE UNCHANGED table
      BY <2>1, <2>2 DEF table, MarksKept, dfs_create
    <2>3. ASSUME NEW x \in Pe, FreePe(x), hash_insert(PathOf(h), x),
                 fh'[h] = x, call'[h] = call[h]
          PROVE  Enters(h)
      <3>1. HashTypeOK
        BY DEF TypeOK
      <3> QED BY <2>3, <3>1 DEF Enters, hash_insert, HashTypeOK
    <2> QED BY <1>2, <2>1, <2>2, <2>3, InsertFrame
  <1> QED BY <1>1, <1>2

(* The removal of an entry takes its cell with it.                         *)
LEMMA RemoveOnce ==
  ASSUME TypeOK, CellsOnce, NEW p \in Path, hash_remove(p), fh' = fh,
         \A h \in Handle : fh[h] # NULL => call'[h] = call[h]
  PROVE  CellsOnce'
  <1>1. /\ hash \in [Path -> Pe \cup {NULL}] /\ NULL \notin Pe
        /\ \A h \in Handle : fh[h] \in Pe \cup {NULL}
        /\ pentry_free.state = "free"
        /\ hash' = [hash EXCEPT ![p] = NULL]
        /\ \A y \in Pe : cell'[y] = IF y = hash[p] THEN pentry_free ELSE cell[y]
    BY PentryAssumption
    DEF TypeOK, HashTypeOK, HandleTypeOK, pentry_free, pentry_new, hash_remove
  <1>2. \A q \in Path : hash'[q] # NULL => cell'[hash'[q]].state = "live"
    BY <1>1 DEF CellsOnce, Live
  <1>3. \A q, r \in Path : hash'[q] # NULL /\ hash'[q] = hash'[r] => q = r
    BY <1>1 DEF CellsOnce
  <1>4. ASSUME NEW h \in Handle, fh[h] # NULL, cell'[fh[h]].state = "live"
        PROVE  hash'[PathOf(h)] = fh[h]
    <2>1. Live(fh[h]) /\ fh[h] # hash[p]
      BY <1>1, <1>4 DEF Live
    <2>2. pc[h] # "closed"
      BY <1>4 DEF TypeOK, LocalsOK
    <2>3. PathOf(h) \in Path
      BY <2>2, AtPc
    <2> QED BY <1>1, <1>4, <2>1, <2>3 DEF CellsOnce
  <1> QED BY <1>2, <1>3, <1>4 DEF CellsOnce, Live, PathOf

(* A handler's step keeps the cells of the table apart.                    *)
LEMMA OnceHandle ==
  ASSUME TypeOK, CellsOnce, NEW h \in Handle, HandlerStep(h)
  PROVE  CellsOnce'
  <1>1. /\ hash \in [Path -> Pe \cup {NULL}] /\ NULL \notin Pe
        /\ \A g \in Handle : fh[g] \in Pe \cup {NULL}
        /\ \A g \in Handle : fh[g] # NULL => PathOf(g) \in Path
        /\ pentry_free.state = "free" /\ pentry_new.state = "live"
    BY AtPc, PentryAssumption
    DEF TypeOK, HashTypeOK, HandleTypeOK, LocalsOK, pentry_free, pentry_new
  <1>2. /\ fh'[h] \in {NULL, fh[h], hash'[PathOf(h)]}
        /\ PathOf(h) \in Path
        /\ fh'[h] # NULL => PathOf(h)' = PathOf(h)
        /\ \A g \in Handle \ {h} : fh'[g] = fh[g] /\ PathOf(g)' = PathOf(g)
    BY PointerFrame, NameFrame, HandlerFrame, AtPc DEF PathOf
  <1>3. CASE hash' = hash /\ \A x \in Pe : MarksKept(h, x)
    BY <1>1, <1>2, <1>3 DEF CellsOnce, MarksKept, Live
  <1>4. CASE Enters(h)
    <2>1. PICK x \in Pe :
            /\ FreePe(x) /\ fh'[h] = x
            /\ hash' = [hash EXCEPT ![PathOf(h)] = x]
            /\ cell'[x] = pentry_new
            /\ \A y \in Pe \ {x} : cell'[y] = IF y = hash[PathOf(h)] THEN pentry_free
                                              ELSE cell[y]
      BY <1>4 DEF Enters
    <2>2. \A q \in Path : hash[q] # x
      BY <1>1, <2>1 DEF CellsOnce, FreePe, Live
    <2>3. \A q \in Path : hash'[q] # NULL => cell'[hash'[q]].state = "live"
      BY <1>1, <1>2, <2>1, <2>2 DEF CellsOnce, Live
    <2>4. \A q, r \in Path : hash'[q] # NULL /\ hash'[q] = hash'[r] => q = r
      BY <1>1, <1>2, <2>1, <2>2 DEF CellsOnce
    <2>5. ASSUME NEW g \in Handle, fh'[g] # NULL, cell'[fh'[g]].state = "live"
          PROVE  hash'[PathOf(g)'] = fh'[g]
      <3>1. CASE g = h
        BY <1>1, <1>2, <2>1, <2>5, <3>1
      <3>2. CASE g # h
        <4>1. fh'[g] = fh[g] /\ PathOf(g)' = PathOf(g) /\ fh[g] # x /\ PathOf(g) \in Path
          BY <1>1, <1>2, <2>1, <2>5, <3>2 DEF FreePe
        <4>2. Live(fh[g]) /\ fh[g] # hash[PathOf(h)]
          BY <1>1, <2>1, <2>5, <4>1 DEF Live
        <4> QED BY <1>1, <1>2, <2>1, <2>5, <4>1, <4>2 DEF CellsOnce
      <3> QED BY <3>1, <3>2
    <2> QED BY <2>3, <2>4, <2>5 DEF CellsOnce, Live
  <1> QED BY <1>3, <1>4, TableFrame

(* Outside the handlers an entry can be removed, by the collector, and the *)
(* marks of a cell stay.                                                   *)
LEMMA OtherTable ==
  ASSUME TypeOK, OtherStep
  PROVE  \/ /\ hash' = hash
            /\ \A x \in Pe : /\ cell'[x].state = cell[x].state
                             /\ cell'[x].ondisk = cell[x].ondisk
                             /\ cell'[x].fd = cell[x].fd
         \/ gcpath \in Path /\ hash_remove(gcpath)
  <1>1. CASE gc_remove
    BY <1>1 DEF gc_remove, TypeOK, GcTypeOK
  <1>2. CASE gc_trylock \/ gc_check
    <2>1. gcpe \in Pe /\ cell \in [Pe -> Pentry]
      BY <1>2 DEF gc_trylock, gc_check, TypeOK, HashTypeOK, GcTypeOK
    <2> QED BY <1>2, <2>1
            DEF gc_trylock, gc_check, pentry_lock, pentry_unlock, Update, Pentry, GcReturn
  <1>3. CASE gc_unlink \/ \E p \in Path : KernelForget(p) \/ gc_callback(p)
    BY <1>3 DEF gc_unlink, KernelForget, gc_callback, table
  <1>4. CASE (\E h \in Handle : Kernel(h)) \/ \E i \in Inode : Age(i)
    BY <1>4 DEF Kernel, KernelLookup, KernelStat, KernelOpen, Age, table
  <1> QED BY <1>1, <1>2, <1>3, <1>4 DEF OtherStep, GcStep

(* They keep the cells apart as well.                                      *)
LEMMA OnceOther ==
  ASSUME TypeOK, CellsOnce, OtherStep
  PROVE  CellsOnce'
  <1>1. fh' = fh /\ \A h \in Handle : fh[h] # NULL => call'[h] = call[h]
    BY OutsideFrame DEF TypeOK, LocalsOK, Begins
  <1>2. \A h \in Handle : fh[h] # NULL => fh[h] \in Pe
    BY DEF TypeOK, HandleTypeOK
  <1>3. \A p \in Path : hash[p] # NULL => hash[p] \in Pe
    BY DEF TypeOK, HashTypeOK
  <1>4. CASE /\ hash' = hash
             /\ \A x \in Pe : cell'[x].state = cell[x].state
    BY <1>1, <1>2, <1>3, <1>4 DEF CellsOnce, Live, PathOf
  <1> QED BY <1>1, <1>4, OtherTable, RemoveOnce

(* And so does dfs_unlink.                                                 *)
LEMMA OnceTree ==
  ASSUME TypeOK, TreeTypeOK, CellsOnce, TreeStep
  PROVE  CellsOnce'
  <1>1. UNCHANGED <<fh, call>>
    BY DEF TreeStep, dfs_unlink, rename_onto, unlink_local, unlink_cell
  <1>2. CASE UNCHANGED table
    BY <1>1, <1>2 DEF table, CellsOnce, Live, PathOf
  <1>3. CASE unlink_cell
    BY <1>1, <1>3, RemoveOnce DEF unlink_cell, TreeTypeOK
  <1> QED BY <1>2, <1>3 DEF TreeStep, dfs_unlink, rename_onto, unlink_local

-----------------------------------------------------------------------------
(* The names.                                                              *)

(* A handler lets go of its name at most.                                  *)
LEMMA NamesHandle ==
  ASSUME TypeOK, NamesOnce, NEW h \in Handle, HandlerStep(h)
  PROVE  NamesOnce'
  <1>1. ASSUME NEW g \in Handle, HoldsName(g)'
        PROVE  HoldsName(g) /\ PathOf(g)' = PathOf(g)
    <2>1. CASE g = h
      <3>1. call'[h] # NULL
        BY <1>1, <2>1 DEF HoldsName
      <3> QED BY <1>1, <2>1, <3>1, NameFrame DEF PathOf
    <2>2. CASE g # h
      BY <1>1, <2>2, HandlerFrame DEF HoldsName, PathOf, Creating, Flags
    <2> QED BY <2>1, <2>2
  <1> QED BY <1>1 DEF NamesOnce

(* The kernel gives a name to one at a time.                               *)
LEMMA NamesOther ==
  ASSUME TypeOK, NamesOnce, OtherStep
  PROVE  NamesOnce'
  <1>1. CASE UNCHANGED <<pc, call>>
    BY <1>1 DEF NamesOnce, HoldsName, PathOf, Creating, Flags
  <1>2. ASSUME NEW h \in Handle, Begins(h)
        PROVE  NamesOnce'
    <2>1. \A g \in Handle \ {h} : /\ HoldsName(g)' <=> HoldsName(g)
                                  /\ PathOf(g)' = PathOf(g)
      BY <1>2 DEF Begins, HoldsName, PathOf, Creating, Flags
    <2>2. HoldsName(h)' => ~NameHeld(PathOf(h)')
      BY <1>2 DEF Begins, HoldsName, PathOf, Stats
    <2> QED BY <2>1, <2>2 DEF NamesOnce, NameHeld
  <1> QED BY <1>1, <1>2, OutsideFrame

-----------------------------------------------------------------------------
(* The handles whose path was taken away.                                  *)

(* Such a handle can only follow its pointer to the freed cell.            *)
LEMMA HiddenLost ==
  ASSUME TypeOK, TreeTypeOK, HiddenGone, NEW h \in hidden, Serves(h)
  PROVE  UseAfterFree(h)
  <1>1. /\ h \in Handle /\ pc[h] \in {"opened", "undefined"} /\ ~Live(fh[h])
    <2>1. h \in Handle /\ pc[h] \in {"opened", "undefined"}
      BY DEF TreeTypeOK, HiddenGone
    <2>2. PathOf(h) # NULL
      BY <2>1, AtPc, PentryAssumption
    <2> QED BY <2>1, <2>2 DEF Serves, HiddenGone
  <1> QED
    BY <1>1
    DEF Serves, HandlerStep, Working, Getattr, Open, Release, dfs_getattr,
        getattr_insert, getattr_dispatch, getattr_unset, getattr_mark, populate_hash,
        open_incref, open_lock, open_creat, open_existing, download_headers,
        compare_digests, copy_discard, copy_download, copy_fetch, copy_reopen,
        open_set_fd, open_placeholder, dfs_create, create_mknod, release_decref,
        release_send, release_clean, dfs_open, create_namei, dfs_write, dfs_release

(* A freed cell that a handle points to is not handed out again.           *)
LEMMA LostStays ==
  ASSUME TypeOK, NEW g \in Handle, fh[g] # NULL, ~Live(fh[g]),
         OtherStep \/ \E h \in Handle : HandlerStep(h)
  PROVE  cell'[fh[g]].state # "live"
  <1>1. fh[g] \in Pe
    BY DEF TypeOK, HandleTypeOK
  <1>2. pentry_free.state = "free"
    BY DEF pentry_free, pentry_new
  <1>3. ASSUME NEW h \in Handle, HandlerStep(h)
        PROVE  cell'[fh[g]].state # "live"
    <2>1. CASE \A x \in Pe : MarksKept(h, x)
      BY <1>1, <2>1 DEF MarksKept, Live
    <2>2. CASE Enters(h)
      BY <1>1, <1>2, <2>2 DEF Enters, FreePe, Live
    <2> QED BY <1>3, <2>1, <2>2, TableFrame
  <1>4. CASE OtherStep
    BY <1>1, <1>2, <1>4, OtherTable DEF hash_remove, Live
  <1> QED BY <1>3, <1>4

(* So it stays as it is,                                                   *)
LEMMA HiddenHandle ==
  ASSUME TypeOK, TreeTypeOK, HiddenGone, NEW h \in Handle, Serves(h)
  PROVE  HiddenGone'
  <1> SUFFICES ASSUME NEW g \in hidden, call'[g] # NULL
               PROVE  /\ pc'[g] \in {"opened", "undefined"}
                      /\ cell'[fh'[g]].state # "live" \/ taken' = PathOf(g)'
    BY DEF Serves, HiddenGone, Live
  <1>1. g \in Handle /\ pc[g] \in {"opened", "undefined"} /\ fh[g] # NULL
    BY DEF TreeTypeOK, HiddenGone, TypeOK, LocalsOK
  <1>2. ~Live(fh[g])
    <2>1. PathOf(g) # NULL
      BY <1>1, AtPc, PentryAssumption
    <2> QED BY <2>1 DEF Serves, HiddenGone
  <1>3. fh'[g] = fh[g] /\ pc'[g] \in {"opened", "undefined"}
    <2>1. CASE g = h
      BY <1>1, <2>1, HiddenLost DEF UseAfterFree, Goto, TypeOK, HandleTypeOK
    <2>2. CASE g # h
      BY <1>1, <2>2, HandlerFrame DEF Serves
    <2> QED BY <2>1, <2>2
  <1> QED BY <1>1, <1>2, <1>3, LostStays DEF Serves

(* whatever the kernel, the collector                                      *)
LEMMA HiddenOther ==
  ASSUME TypeOK, TreeTypeOK, HiddenGone, OtherStep, UNCHANGED treevars
  PROVE  HiddenGone'
  <1> SUFFICES ASSUME NEW g \in hidden
               PROVE  /\ pc'[g] \in {"opened", "undefined"}
                      /\ cell'[fh'[g]].state # "live" \/ taken' = PathOf(g)'
    BY DEF treevars, HiddenGone, Live
  <1>1. g \in Handle /\ pc[g] \in {"opened", "undefined"} /\ fh[g] # NULL
    BY DEF TreeTypeOK, HiddenGone, TypeOK, LocalsOK
  <1>2. fh'[g] = fh[g] /\ pc'[g] = pc[g] /\ PathOf(g)' = PathOf(g) /\ taken' = taken
    BY <1>1, OutsideFrame DEF Begins, treevars, PathOf
  <1>3. ~Live(fh[g]) => cell'[fh[g]].state # "live"
    BY <1>1, LostStays
  <1> QED BY <1>1, <1>2, <1>3 DEF HiddenGone

(* and dfs_unlink do.                                                      *)
LEMMA HiddenTree ==
  ASSUME TypeOK, TreeTypeOK, CellsOnce, HiddenGone, TreeStep
  PROVE  HiddenGone'
  <1>1. UNCHANGED <<pc, call, fh>>
    BY DEF TreeStep, dfs_unlink, rename_onto, unlink_local, unlink_cell
  <1>2. \A h \in Handle : PathOf(h)' = PathOf(h)
    BY <1>1 DEF PathOf
  <1>3. \A h \in hidden : h \in Handle /\ PathOf(h) \in Path /\ fh[h] \in Pe
    BY AtPc DEF TreeTypeOK, HiddenGone
  <1>4. CASE \E p \in Path : rename_onto(p)
    BY <1>1, <1>2, <1>3, <1>4 DEF rename_onto, table, treevars, HiddenGone, Live
  <1>5. ASSUME NEW p \in Path, dfs_unlink(p)
        PROVE  HiddenGone'
    <2>1. \A h \in hidden : ~Live(fh[h])
      BY <1>3, <1>5, PentryAssumption DEF dfs_unlink, HiddenGone
    <2> QED BY <1>1, <1>2, <1>3, <1>5, <2>1 DEF dfs_unlink, table, HiddenGone, Live
  <1>6. CASE unlink_local
    BY <1>1, <1>2, <1>3, <1>6 DEF unlink_local, table, HiddenGone, Live
  <1>7. CASE unlink_cell
    <2>1. \A x \in Pe : cell'[x] = IF x = hash[taken] THEN pentry_free ELSE cell[x]
      BY <1>7 DEF unlink_cell, hash_remove
    <2>2. pentry_free.state # "live" /\ hidden' = hidden
      BY <1>7 DEF unlink_cell, pentry_free, pentry_new
    <2>3. ASSUME NEW h \in hidden
          PROVE  cell'[fh[h]].state # "live"
      <3>1. CASE Live(fh[h])
        <4>1. hash[PathOf(h)] = fh[h] /\ taken = PathOf(h)
          BY <1>3, <3>1, PentryAssumption DEF HiddenGone, CellsOnce
        <4> QED BY <1>3, <2>1, <2>2, <4>1
      <3>2. CASE ~Live(fh[h])
        BY <1>3, <2>1, <2>2, <3>2 DEF Live
      <3> QED BY <3>1, <3>2
    <2> QED BY <1>1, <1>3, <2>2, <2>3 DEF HiddenGone, Live
  <1> QED BY <1>4, <1>5, <1>6, <1>7 DEF TreeStep

-----------------------------------------------------------------------------
(* What holds whatever fails, with a collector or without.                 *)
OpenBase ==
    /\ TypeOK /\ TreeTypeOK /\ OpenHasFd /\ FreshInv /\ OneName
    /\ CellsOnce /\ NamesOnce /\ HiddenGone

(* A tree with nothing open, and a cache directory of left-overs.          *)
LEMMA BaseInit == OpenInit => OpenBase /\ LockInv
  <1> SUFFICES ASSUME OpenInit PROVE OpenBase /\ LockInv
    OBVIOUS
  <1>1. Init /\ TypeOK /\ FreshInv
    BY InitType, FreshInit DEF OpenInit
  <1>2. /\ pentry_free.fd = NULL /\ pentry_free.state = "free"
        /\ pentry_free.ondisk = "FILE_UNSET"
    BY DEF pentry_free, pentry_new
  <1>3. TreeTypeOK /\ HiddenGone
    BY DEF OpenInit, TreeTypeOK, HiddenGone
  <1>4. OpenHasFd /\ CellsOnce /\ LockInv
    BY <1>1, <1>2 DEF Init, HashInit, OpenHasFd, CellsOnce, LockInv, Live
  <1>5. OneName /\ NamesOnce
    BY <1>1 DEF Init, OneName, NamesOnce, HoldsName
  <1> QED BY <1>1, <1>3, <1>4, <1>5 DEF OpenBase

(* A step that changes nothing.                                            *)
LEMMA BaseStutter ==
  ASSUME OpenBase, UNCHANGED allvars
  PROVE  OpenBase' /\ (LockInv => LockInv')
  <1>1. UNCHANGED vars /\ UNCHANGED <<taken, upc, hidden>>
    BY DEF allvars, treevars
  <1>2. UNCHANGED <<hash, cell, local, data, young, remote, dentry, pc, call, fh, lfd,
                    etag, wrote, gcpc, gcpe, gcpath>>
    BY <1>1 DEF vars, table, disk, store, private, gcvars
  <1>3. TypeOK' /\ OpenHasFd' /\ FreshInv' /\ OneName' /\ (LockInv => LockInv')
    BY <1>2
    DEF OpenBase, TypeOK, HashTypeOK, DiskTypeOK, StoreTypeOK, HandleTypeOK, LocalsOK,
        GcTypeOK, OpenHasFd, Live, FreshInv, OneName, PathOf, LockInv, Writer,
        NeedsLock, Mode
  <1>4. TreeTypeOK' /\ CellsOnce' /\ NamesOnce' /\ HiddenGone'
    BY <1>1, <1>2
    DEF OpenBase, TreeTypeOK, CellsOnce, NamesOnce, HiddenGone, HoldsName, PathOf,
        Creating, Flags, Live
  <1> QED BY <1>3, <1>4 DEF OpenBase

(* The handlers, the collector, the clock, unlink and rename.              *)
LEMMA BaseStep ==
  ASSUME OpenBase, OpenNext
  PROVE  OpenBase' /\ (LockWorks /\ LockInv => LockInv')
  <1>1. /\ TypeOK /\ TreeTypeOK /\ OpenHasFd /\ FreshInv /\ OneName
        /\ CellsOnce /\ NamesOnce /\ HiddenGone
    BY DEF OpenBase
  <1>2. CASE TreeStep
    <2>1. NamesOnce'
      <3>1. UNCHANGED <<pc, call>>
        BY <1>2 DEF TreeStep, dfs_unlink, rename_onto, unlink_local, unlink_cell
      <3> QED BY <1>1, <3>1 DEF NamesOnce, HoldsName, PathOf, Creating, Flags
    <2> QED BY <1>1, <1>2, <2>1, TreeSteps, OnceTree, HiddenTree DEF OpenBase
  <1>3. CASE OtherStep /\ UNCHANGED treevars
    <2>1. TreeTypeOK'
      BY <1>1, <1>3 DEF TreeTypeOK, treevars
    <2> QED BY <1>1, <1>3, <2>1, ServedSteps, OnceOther, NamesOther, HiddenOther
            DEF OpenBase
  <1>4. ASSUME NEW h \in Handle, Serves(h)
        PROVE  OpenBase' /\ (LockWorks /\ LockInv => LockInv')
    <2>1. HandlerStep(h)
      BY <1>4 DEF Serves
    <2>2. TreeTypeOK'
      BY <1>1, <1>4 DEF TreeTypeOK, Serves
    <2> QED BY <1>1, <1>4, <2>1, <2>2, ServedSteps, OnceHandle, NamesHandle, HiddenHandle
            DEF OpenBase
  <1> QED BY <1>1, <1>2, <1>3, <1>4, OpenSplit

(* What the theorems below rest on.                                        *)
LEMMA Based == OpenSpec => []OpenBase
  <1>1. OpenInit => OpenBase
    BY BaseInit
  <1>2. OpenBase /\ [OpenNext]_allvars => OpenBase'
    BY BaseStep, BaseStutter
  <1> QED BY <1>1, <1>2, PTL DEF OpenSpec

(* One writer at a time (open.c, pentry.c), on a path that may be taken    *)
(* away and created again under its open handles: the new file has another *)
(* cell, and with it another mutex.                                        *)
THEOREM WritersStillExclude == LockWorks /\ OpenSpec => []WriterExclusion
  <1>1. OpenInit => OpenBase /\ LockInv
    BY BaseInit
  <1>2. LockWorks /\ OpenBase /\ LockInv /\ [OpenNext]_allvars => (OpenBase /\ LockInv)'
    BY BaseStep, BaseStutter
  <1>3. LockInv => WriterExclusion
    BY LockExcludes
  <1> SUFFICES ASSUME LockWorks PROVE OpenSpec => []WriterExclusion
    OBVIOUS
  <1> QED BY <1>1, <1>2, <1>3, PTL DEF OpenSpec

-----------------------------------------------------------------------------
(* What is found is there.                                                 *)

(* Once dfs_open has succeeded, dfs_create makes the object.               *)
CreateWorks == Faults \cap {"fstat", "mknod"} = {} /\ Excluded = {}

(* A handler's step takes no object away, and adds at most its own.        *)
LEMMA RemoteFrame ==
  ASSUME TypeOK, NEW h \in Handle, HandlerStep(h)
  PROVE  /\ pc[h] # "undefined"
         /\ \A p \in Path : remote[p] # NULL => remote'[p] # NULL
         /\ \A p \in Path : remote'[p] # remote[p] =>
              p = PathOf(h) /\ pc[h] \in {"mknod", "send"}
  <1>1. pc[h] # "undefined"
    BY DEF HandlerStep, Working, Getattr, Open, Release, dfs_getattr, getattr_insert,
        getattr_dispatch, getattr_unset, getattr_mark, populate_hash, open_incref,
        open_lock, open_creat, open_existing, download_headers, compare_digests,
        copy_discard, copy_download, copy_fetch, copy_reopen, open_set_fd,
        open_placeholder, dfs_create, create_mknod, release_decref, release_send,
        release_clean, UseAfterFree, dfs_open, create_namei, dfs_write, dfs_release
  <1>2. CASE UseAfterFree(h)
    BY <1>1, <1>2 DEF UseAfterFree, store
  <1>3. CASE ~UseAfterFree(h)
    BY <1>1, <1>3, RouteStep DEF Route
  <1> QED BY <1>2, <1>3

(* A served request of a handle that has its path follows no freed pointer *)
(* or becomes undefined.                                                   *)
LEMMA ServedRoute ==
  ASSUME TypeOK, TreeTypeOK, HiddenGone, NEW h \in Handle, Serves(h),
         pc'[h] # "undefined"
  PROVE  h \notin hidden /\ ~UseAfterFree(h) /\ Route(h) /\ HandlerStep(h)
  <1>1. ~UseAfterFree(h)
    BY DEF UseAfterFree, Goto, TypeOK, HandleTypeOK
  <1> QED BY <1>1, HiddenLost, RouteStep DEF Serves

(* A handler that is making a file has its name.                           *)
LEMMA MakerHolds ==
  ASSUME TypeOK, StatsOnly, NEW h \in Handle, AboutToMake(h)
  PROVE  HoldsName(h)
  BY DEF AboutToMake, StatsOnly, Stats, HoldsName, TypeOK, LocalsOK

(* A lookup that finds a file finds it in the store: if a cell says so, no *)
(* create of the name is on the way.                                       *)
LEMMA LooksUpThere ==
  ASSUME OpenBase, FoundThere, NEW h \in Handle, Serves(h), LooksUp(h)
  PROVE  remote[PathOf(h)] # NULL
  <1>1. /\ TypeOK /\ TreeTypeOK /\ HiddenGone /\ CellsOnce /\ NamesOnce
        /\ RemembersThere /\ FindsThere /\ StatsOnly /\ MarkedThere
    BY DEF OpenBase, FoundThere
  <1>2. h \notin hidden
    BY <1>1, ServedRoute DEF LooksUp
  <1>3. CASE Finds(h)
    BY <1>1, <1>2, <1>3 DEF FindsThere
  <1>4. CASE ~Finds(h)
    <2>1. /\ pc[h] = "stat" /\ Live(fh[h]) /\ cell[fh[h]].ondisk # "FILE_UNSET"
          /\ ~Stats(h)
      BY <1>4 DEF LooksUp, getattr_dispatch, getattr_mark, Finds
    <2>2. /\ fh[h] \in Pe /\ fh[h] # NULL /\ PathOf(h) \in Path /\ PathOf(h) # NULL
          /\ HoldsName(h)
      BY <1>1, <2>1, AtPc, PentryAssumption DEF HoldsName, Stats, TypeOK, LocalsOK
    <2>3. hash[PathOf(h)] = fh[h]
      BY <1>1, <2>1, <2>2 DEF CellsOnce
    <2>4. ASSUME NEW g \in Handle, AboutToMake(g), fh[g] = fh[h]
          PROVE  FALSE
      <3>1. HoldsName(g) /\ PathOf(g) \in Path
        BY <1>1, <2>4, MakerHolds, AtPc DEF AboutToMake
      <3>2. PathOf(g) = PathOf(h)
        BY <1>1, <2>1, <2>2, <2>3, <2>4, <3>1 DEF CellsOnce
      <3> QED BY <1>1, <2>1, <2>2, <2>4, <3>1, <3>2 DEF NamesOnce, AboutToMake
    <2> QED BY <1>1, <2>1, <2>2, <2>3, <2>4 DEF MarkedThere, Serves
  <1> QED BY <1>3, <1>4

(* A create that ends well has made the object.                            *)
LEMMA MknodThere ==
  ASSUME TypeOK, NEW h \in Handle, create_mknod(h), "mknod" \notin Faults
  PROVE  PathOf(h) \in Path /\ remote'[PathOf(h)] # NULL
  <1>1. PathOf(h) \in Path
    BY AtPc DEF create_mknod
  <1> QED BY <1>1, PentryAssumption DEF create_mknod, TypeOK, StoreTypeOK, Content

(* The kernel remembers what it found or created.                          *)
LEMMA RemembersHandle ==
  ASSUME OpenBase, FoundThere, CreateWorks, NEW h \in Handle, Serves(h)
  PROVE  RemembersThere'
  <1>1. TypeOK /\ TreeTypeOK /\ HiddenGone /\ RemembersThere /\ HandlerStep(h)
    BY DEF OpenBase, FoundThere, Serves
  <1>2. \A p \in Path : remote[p] # NULL => remote'[p] # NULL
    BY <1>1, RemoteFrame
  <1>3. dentry \subseteq Path /\ PathOf(h) \in Path
    BY <1>1, NameFrame, AtPc DEF TypeOK, StoreTypeOK
  <1>4. CASE dentry' = dentry
    BY <1>1, <1>2, <1>3, <1>4 DEF RemembersThere
  <1>5. CASE dentry' # dentry
    <2>1. ~UseAfterFree(h)
      BY <1>5 DEF UseAfterFree, store
    <2>2. Route(h)
      BY <1>1, <2>1, RouteStep
    <2>3. dentry' = dentry \cup {PathOf(h)} /\ (LooksUp(h) \/ Makes(h))
      BY <1>5, <2>2 DEF Route
    <2>4. ~Makes(h) \/ create_mknod(h)
      BY DEF Makes, CreateWorks
    <2>5. remote'[PathOf(h)] # NULL
      BY <1>1, <1>2, <1>3, <2>3, <2>4, LooksUpThere, MknodThere DEF CreateWorks
    <2> QED BY <1>1, <1>2, <1>3, <2>3, <2>5 DEF RemembersThere
  <1> QED BY <1>4, <1>5

(* What a handle has found or made stays, for none is taken away.          *)
LEMMA FindsHandle ==
  ASSUME OpenBase, FoundThere, CreateWorks, NEW h \in Handle, Serves(h)
  PROVE  FindsThere'
  <1> SUFFICES ASSUME NEW g \in Handle, g \notin hidden', Finds(g)'
               PROVE  remote'[PathOf(g)'] # NULL
    BY DEF FindsThere
  <1>1. /\ TypeOK /\ TreeTypeOK /\ HiddenGone /\ FindsThere /\ StatsOnly
        /\ HandlerStep(h)
    BY DEF OpenBase, FoundThere, Serves
  <1>2. \A p \in Path : remote[p] # NULL => remote'[p] # NULL
    BY <1>1, RemoteFrame
  <1>3. pc'[g] # "closed" /\ pc'[g] # "undefined"
    BY DEF Finds
  <1>4. CASE g # h
    <2>1. pc'[g] = pc[g] /\ call'[g] = call[g] /\ PathOf(g)' = PathOf(g)
      BY <1>1, <1>4, HandlerFrame DEF PathOf
    <2>2. Finds(g) /\ g \notin hidden
      BY <1>1, <1>3, <2>1 DEF Finds, Stats, Creating, Flags, Serves, TypeOK, LocalsOK
    <2>3. PathOf(g) \in Path
      BY <1>1, <1>3, <2>1, AtPc
    <2> QED BY <1>1, <1>2, <2>1, <2>2, <2>3 DEF FindsThere
  <1>5. CASE g = h
    <2>1. h \notin hidden /\ Route(h)
      BY <1>1, <1>3, <1>5, ServedRoute
    <2>2. PathOf(h)' = PathOf(h) /\ PathOf(h) \in Path /\ (Stats(h)' => Stats(h))
      BY <1>1, <1>3, <1>5, NameFrame, AtPc, FileCacheAssumption DEF PathOf, Stats
    <2>3. CASE Finds(h) \/ LooksUp(h)
      <3>1. remote[PathOf(h)] # NULL
        BY <1>1, <2>1, <2>3, LooksUpThere DEF FindsThere
      <3> QED BY <1>2, <1>5, <2>2, <3>1
    <2>4. CASE create_mknod(h)
      BY <1>1, <1>5, <2>2, <2>4, MknodThere DEF CreateWorks
    <2>5. CASE ~Finds(h) /\ ~LooksUp(h) /\ ~create_mknod(h)
      <3>1. pc[h] # "undefined" /\ pc[h] # "closed"
        BY <1>1, RemoteFrame, NameFrame
      <3>2. CASE pc'[h] \in GetattrPc /\ Stats(h)'
        BY <1>1, <2>2, <2>5, <3>1, <3>2 DEF StatsOnly, Finds
      <3>3. CASE pc'[h] \in OpenPc \cup {"open"} /\ ~Creating(h)'
        <4>1. Creating(h)' = Creating(h)
          BY <1>3, <1>5, <2>1, <2>5 DEF Route, Creating
        <4>2. pc[h] \in OpenPc \cup {"open"}
          BY <2>1, <2>5, <3>3, <4>1 DEF Route
        <4> QED BY <2>5, <3>3, <4>1, <4>2 DEF Finds
      <3>4. CASE pc'[h] \in {"send", "clean", "decref", "mark"}
        <4>1. pc[h] \in ReleasePc \cup {"opened"} \/ remote[PathOf(h)] # NULL
          BY <2>1, <3>4 DEF Route, release_decref, dfs_release
        <4> QED BY <1>2, <1>5, <2>2, <2>5, <4>1 DEF Finds
      <3>5. CASE pc'[h] = "set_fd"
        <4>1. pc[h] \in CopyPc
          BY <2>1, <3>5 DEF Route
        <4>2. remote[PathOf(h)] # NULL
          BY <1>1, <4>1 DEF TypeOK, LocalsOK
        <4> QED BY <1>2, <1>5, <2>2, <4>2
      <3>6. CASE pc'[h] = "opened"
        <4>1. ~Makes(h)
          BY <2>5 DEF Makes, CreateWorks
        <4> QED BY <2>1, <2>5, <3>6, <4>1
                DEF Route, dfs_write, open_placeholder, Finds
      <3> QED BY <1>5, <3>2, <3>3, <3>4, <3>5, <3>6 DEF Finds
    <2> QED BY <2>3, <2>4, <2>5
  <1> QED BY <1>4, <1>5

(* A stat(2) ends with the lookup.                                         *)
LEMMA StatsHandle ==
  ASSUME TypeOK, StatsOnly, NEW h \in Handle, HandlerStep(h)
  PROVE  StatsOnly'
  <1> SUFFICES ASSUME NEW g \in Handle, Stats(g)'
               PROVE  pc'[g] \in GetattrPc \cup {"undefined"}
    BY DEF StatsOnly
  <1>1. CASE g # h
    BY <1>1, HandlerFrame DEF StatsOnly, Stats
  <1>2. CASE g = h
    <2>1. pc'[h] # "closed" /\ Stats(h)
      BY <1>2, NameFrame, FileCacheAssumption DEF Stats
    <2>2. pc[h] \in GetattrPc
      BY <2>1, RemoteFrame DEF StatsOnly
    <2>3. CASE UseAfterFree(h)
      BY <1>2, <2>3 DEF UseAfterFree, Goto, TypeOK, HandleTypeOK
    <2>4. CASE ~UseAfterFree(h)
      <3>1. Route(h)
        BY <2>4, RouteStep
      <3> QED BY <1>2, <2>1, <2>2, <3>1 DEF Route
    <2> QED BY <2>3, <2>4
  <1> QED BY <1>1, <1>2

(* A handler that is about to make the object does, unless its cell was    *)
(* freed.                                                                  *)
LEMMA MakerGoesOn ==
  ASSUME OpenBase, CreateWorks, NEW h \in Handle, HandlerStep(h), AboutToMake(h),
         pc[h] = "create" /\ Live(fh[h]) => cell[fh[h]].fd # NULL
  PROVE  \/ pc'[h] = "mknod" /\ Creating(h)' /\ fh'[h] = fh[h] /\ call'[h] = call[h]
         \/ remote'[PathOf(h)] # NULL
         \/ UseAfterFree(h)
  <1>1. TypeOK
    BY DEF OpenBase
  <1>2. CASE create_mknod(h)
    BY <1>1, <1>2, MknodThere DEF CreateWorks
  <1>3. CASE dfs_create(h)
    <2>1. pc' = [pc EXCEPT ![h] = "mknod"] /\ UNCHANGED <<call, fh>>
      BY <1>3 DEF dfs_create, Goto, CreateWorks
    <2> QED BY <1>1, <2>1 DEF AboutToMake, Creating, Flags, TypeOK, HandleTypeOK
  <1> QED
    BY <1>2, <1>3
    DEF AboutToMake, HandlerStep, Working, Getattr, Open, Release, dfs_getattr,
        getattr_insert, getattr_dispatch, getattr_unset, getattr_mark, populate_hash,
        open_incref, open_lock, open_creat, open_existing, download_headers,
        compare_digests, copy_discard, copy_download, copy_fetch, copy_reopen,
        open_set_fd, open_placeholder, release_decref, release_send, release_clean,
        UseAfterFree, dfs_open, create_namei, dfs_write, dfs_release

(* What makes a cell say that there is a file is there: the handler has    *)
(* found it, or is going to make it.                                       *)
LEMMA MarksThere ==
  ASSUME OpenBase, FoundThere, NEW h \in Handle, Serves(h),
         getattr_mark(h) \/ open_placeholder(h)
  PROVE  \/ remote[PathOf(h)] # NULL
         \/ open_placeholder(h) /\ AboutToMake(h)' /\ fh'[h] = fh[h]
  <1>1. TypeOK /\ TreeTypeOK /\ HiddenGone /\ FindsThere
    BY DEF OpenBase, FoundThere
  <1>2. pc'[h] # "undefined"
    BY <1>1
    DEF getattr_mark, Found, Return, open_placeholder, Goto, TypeOK, HandleTypeOK
  <1>3. CASE Finds(h)
    BY <1>1, <1>2, <1>3, ServedRoute DEF FindsThere
  <1>4. CASE ~Finds(h)
    <2>1. open_placeholder(h) /\ Creating(h)
      BY <1>4 DEF getattr_mark, open_placeholder, Finds
    <2>2. /\ pc' = [pc EXCEPT ![h] = "create"] /\ UNCHANGED <<call, fh>>
      BY <2>1 DEF open_placeholder, Goto
    <2> QED BY <1>1, <2>1, <2>2
            DEF AboutToMake, Creating, Flags, TypeOK, HandleTypeOK
  <1> QED BY <1>3, <1>4

(* A cell goes on telling the truth.                                       *)
LEMMA MarkedHandle ==
  ASSUME OpenBase, FoundThere, CreateWorks, NEW h \in Handle, Serves(h)
  PROVE  MarkedThere'
  <1> SUFFICES ASSUME NEW p \in Path, hash'[p] # NULL,
                      cell'[hash'[p]].ondisk # "FILE_UNSET", remote'[p] = NULL
               PROVE  /\ cell'[hash'[p]].ondisk = "FILE_LOCAL"
                      /\ \E g \in Handle : AboutToMake(g)' /\ fh'[g] = hash'[p]
    BY DEF MarkedThere
  <1>1. /\ TypeOK /\ TreeTypeOK /\ HiddenGone /\ CellsOnce /\ OpenHasFd
        /\ FindsThere /\ StatsOnly /\ MarkedThere /\ HandlerStep(h)
    BY DEF OpenBase, FoundThere, Serves
  <1>2. remote[p] = NULL /\ p # NULL /\ taken = NULL
    BY <1>1, RemoteFrame, PentryAssumption DEF Serves
  <1>3. /\ hash \in [Path -> Pe \cup {NULL}] /\ NULL \notin Pe
        /\ PathOf(h) \in Path
        /\ \A g \in Handle : fh[g] \in Pe \cup {NULL}
    BY <1>1, NameFrame, AtPc, PentryAssumption DEF TypeOK, HashTypeOK, HandleTypeOK
  <1>4. \A g \in Handle \ {h} : AboutToMake(g) => AboutToMake(g)' /\ fh'[g] = fh[g]
    BY <1>1, HandlerFrame DEF AboutToMake, Creating, Flags
  <1>5. CASE hash' = hash /\ \A x \in Pe : MarksKept(h, x)
    <2>1. /\ hash[p] \in Pe /\ Live(hash[p]) /\ hash'[p] = hash[p] /\ hash[p] # NULL
          /\ MarksKept(h, hash[p])
      BY <1>1, <1>3, <1>5 DEF CellsOnce
    <2>2. hash[p] = fh[h] => p = PathOf(h)
      BY <1>1, <1>3, <2>1 DEF CellsOnce
    <2>3. CASE cell'[hash[p]].ondisk = cell[hash[p]].ondisk
      <3>1. PICK g \in Handle : /\ cell[hash[p]].ondisk = "FILE_LOCAL"
                                /\ AboutToMake(g) /\ fh[g] = hash[p]
        BY <1>1, <1>2, <2>1, <2>3 DEF MarkedThere
      <3>2. CASE g = h
        <4>1. cell[fh[h]].fd # NULL
          BY <1>1, <2>1, <3>1, <3>2 DEF OpenHasFd
        <4>2. ~UseAfterFree(h)
          BY <2>1, <3>1, <3>2 DEF UseAfterFree
        <4>3. AboutToMake(h)' /\ fh'[h] = fh[h]
          BY <1>1, <2>1, <2>2, <3>1, <3>2, <4>1, <4>2, MakerGoesOn DEF AboutToMake
        <4> QED BY <2>1, <2>3, <3>1, <3>2, <4>3
      <3>3. CASE g # h
        BY <1>4, <2>1, <2>3, <3>1, <3>3
      <3> QED BY <3>2, <3>3
    <2>4. CASE cell'[hash[p]].ondisk # cell[hash[p]].ondisk
      <3>1. /\ hash[p] = fh[h] /\ (getattr_mark(h) \/ open_placeholder(h))
            /\ open_placeholder(h) => cell'[hash[p]].ondisk = "FILE_LOCAL"
        BY <2>1, <2>4 DEF MarksKept, getattr_mark, open_placeholder
      <3>2. open_placeholder(h) /\ AboutToMake(h)' /\ fh'[h] = fh[h]
        BY <1>2, <2>2, <3>1, MarksThere
      <3> QED BY <2>1, <3>1, <3>2
    <2> QED BY <2>3, <2>4
  <1>6. CASE Enters(h) /\ pc[h] \in {"getattr_insert", "populate"}
    <2>1. PICK x \in Pe :
            /\ FreePe(x)
            /\ hash' = [hash EXCEPT ![PathOf(h)] = x]
            /\ cell'[x] = pentry_new
            /\ \A y \in Pe \ {x} : cell'[y] = IF y = hash[PathOf(h)] THEN pentry_free
                                              ELSE cell[y]
      BY <1>6 DEF Enters
    <2>2. pentry_new.ondisk = "FILE_UNSET"
      BY DEF pentry_new
    <2>3. p # PathOf(h) /\ hash'[p] = hash[p]
      BY <1>3, <2>1, <2>2
    <2>4. hash[p] \in Pe /\ hash[p] # x /\ hash[p] # hash[PathOf(h)]
      BY <1>1, <1>3, <2>1, <2>3 DEF CellsOnce, FreePe
    <2>5. cell'[hash[p]] = cell[hash[p]]
      BY <2>1, <2>4
    <2>6. PICK g \in Handle : /\ cell[hash[p]].ondisk = "FILE_LOCAL"
                              /\ AboutToMake(g) /\ fh[g] = hash[p]
      BY <1>1, <1>2, <2>3, <2>5 DEF MarkedThere
    <2>7. g # h
      BY <1>6, <2>6 DEF AboutToMake
    <2> QED BY <1>4, <2>3, <2>5, <2>6, <2>7
  <1> QED BY <1>1, <1>5, <1>6, TableFrame

(* A handler keeps what the cells and the kernel say about the objects.    *)
LEMMA FoundHandle ==
  ASSUME OpenBase, FoundThere, CreateWorks, NEW h \in Handle, Serves(h)
  PROVE  FoundThere'
  BY RemembersHandle, FindsHandle, StatsHandle, MarkedHandle
  DEF OpenBase, FoundThere, Serves

(* A request begins with what the kernel remembers, or finds nothing yet.  *)
LEMMA FoundOther ==
  ASSUME OpenBase, FoundThere, OtherStep, UNCHANGED treevars
  PROVE  FoundThere'
  <1>1. /\ TypeOK /\ CellsOnce
        /\ RemembersThere /\ FindsThere /\ StatsOnly /\ MarkedThere
        /\ UNCHANGED <<taken, hidden>>
    BY DEF OpenBase, FoundThere, treevars
  <1>2. fh' = fh /\ remote' = remote /\ dentry' \subseteq dentry
    BY <1>1, OutsideFrame
  <1>3. \A g \in Handle :
          \/ pc'[g] = pc[g] /\ call'[g] = call[g] /\ PathOf(g)' = PathOf(g)
          \/ Begins(g)
    BY <1>1, OutsideFrame DEF Begins, PathOf
  <1>4. RemembersThere'
    BY <1>1, <1>2 DEF RemembersThere
  <1>5. ASSUME NEW g \in Handle
        PROVE  /\ Finds(g)' /\ g \notin hidden => remote[PathOf(g)'] # NULL
               /\ Stats(g)' => pc'[g] \in GetattrPc \cup {"undefined"}
               /\ AboutToMake(g) => AboutToMake(g)'
    <2>1. CASE pc'[g] = pc[g] /\ call'[g] = call[g] /\ PathOf(g)' = PathOf(g)
      BY <1>1, <2>1
      DEF FindsThere, StatsOnly, Finds, Stats, AboutToMake, Creating, Flags
    <2>2. CASE Begins(g)
      BY <1>1, <2>2
      DEF Begins, RemembersThere, Finds, Stats, AboutToMake, Creating, PathOf
    <2> QED BY <1>3, <2>1, <2>2
  <1>6. FindsThere' /\ StatsOnly'
    BY <1>1, <1>2, <1>5 DEF FindsThere, StatsOnly
  <1>7. MarkedThere'
    <2> SUFFICES ASSUME NEW p \in Path, hash'[p] # NULL,
                        cell'[hash'[p]].ondisk # "FILE_UNSET"
                 PROVE  /\ hash'[p] = hash[p]
                        /\ cell'[hash[p]].ondisk = cell[hash[p]].ondisk
      BY <1>1, <1>2, <1>5 DEF MarkedThere
    <2>1. hash \in [Path -> Pe \cup {NULL}] /\ pentry_free.ondisk = "FILE_UNSET"
      BY <1>1 DEF TypeOK, HashTypeOK, pentry_free, pentry_new
    <2> QED BY <1>1, <2>1, OtherTable DEF hash_remove
  <1> QED BY <1>4, <1>6, <1>7 DEF FoundThere

(* An object is taken away with everything that takes it for one: the name *)
(* the kernel remembers, the handles, which are hidden, and the cell.      *)
LEMMA FoundTree ==
  ASSUME OpenBase, FoundThere, TreeStep
  PROVE  FoundThere'
  <1>1. /\ TypeOK /\ TreeTypeOK /\ CellsOnce
        /\ RemembersThere /\ FindsThere /\ StatsOnly /\ MarkedThere
    BY DEF OpenBase, FoundThere
  <1>2. /\ UNCHANGED <<pc, call, fh>>
        /\ \A h \in Handle : /\ PathOf(h)' = PathOf(h)
                             /\ Finds(h)' = Finds(h) /\ Stats(h)' = Stats(h)
                             /\ AboutToMake(h)' = AboutToMake(h)
    <2>1. UNCHANGED <<pc, call, fh>>
      BY DEF TreeStep, dfs_unlink, rename_onto, unlink_local, unlink_cell
    <2> QED BY <2>1 DEF PathOf, Finds, Stats, AboutToMake, Creating, Flags
  <1>3. StatsOnly'
    BY <1>1, <1>2 DEF StatsOnly
  <1>4. \A h \in Handle : Finds(h) => call[h] # NULL /\ PathOf(h) \in Path
    BY <1>1, AtPc, FileCacheAssumption DEF Finds
  <1>5. NULL # "moved"
    BY PentryAssumption DEF Content
  <1>6. ASSUME NEW p \in Path, dfs_unlink(p)
        PROVE  FoundThere'
    <2>1. /\ \A q \in Path : remote'[q] = IF q = p THEN NULL ELSE remote[q]
          /\ dentry' = dentry \ {p} /\ taken' = p /\ taken = NULL
          /\ UNCHANGED <<hash, cell>>
          /\ hidden \subseteq hidden'
      BY <1>1, <1>6 DEF dfs_unlink, table, TypeOK, StoreTypeOK
    <2>2. RemembersThere'
      BY <1>1, <2>1 DEF RemembersThere, TypeOK, StoreTypeOK
    <2>3. \A h \in Handle \ hidden' : Finds(h) => PathOf(h) # p
      BY <1>4, <1>6 DEF dfs_unlink, PathIdle, Finds
    <2>4. FindsThere'
      BY <1>1, <1>2, <1>4, <2>1, <2>3 DEF FindsThere
    <2>5. MarkedThere'
      BY <1>1, <1>2, <2>1, PentryAssumption DEF MarkedThere
    <2> QED BY <1>3, <2>2, <2>4, <2>5 DEF FoundThere
  <1>7. ASSUME NEW p \in Path, rename_onto(p)
        PROVE  FoundThere'
    <2>1. /\ \A q \in Path : remote'[q] = IF q = p THEN "moved" ELSE remote[q]
          /\ UNCHANGED <<hash, cell, dentry, taken, hidden>>
      BY <1>1, <1>7 DEF rename_onto, table, treevars, TypeOK, StoreTypeOK
    <2>2. RemembersThere' /\ FindsThere'
      BY <1>1, <1>2, <1>4, <1>5, <2>1 DEF RemembersThere, FindsThere, TypeOK, StoreTypeOK
    <2>3. MarkedThere'
      BY <1>1, <1>2, <1>5, <2>1 DEF MarkedThere
    <2> QED BY <1>3, <2>2, <2>3 DEF FoundThere
  <1>8. CASE unlink_local
    <2>1. UNCHANGED <<hash, cell, remote, dentry, taken, hidden>>
      BY <1>8 DEF unlink_local, table, store
    <2>2. RemembersThere' /\ FindsThere' /\ MarkedThere'
      BY <1>1, <1>2, <2>1 DEF RemembersThere, FindsThere, MarkedThere
    <2> QED BY <1>3, <2>2 DEF FoundThere
  <1>9. CASE unlink_cell
    <2>1. /\ UNCHANGED <<remote, dentry, hidden>>
          /\ taken \in Path /\ hash' = [hash EXCEPT ![taken] = NULL]
          /\ \A y \in Pe : cell'[y] = IF y = hash[taken] THEN pentry_free ELSE cell[y]
          /\ hash \in [Path -> Pe \cup {NULL}]
          /\ pentry_free.ondisk = "FILE_UNSET"
      BY <1>1, <1>9 DEF unlink_cell, hash_remove, store, TreeTypeOK, TypeOK, HashTypeOK,
                        pentry_free, pentry_new
    <2>2. RemembersThere' /\ FindsThere'
      BY <1>1, <1>2, <2>1 DEF RemembersThere, FindsThere
    <2>3. MarkedThere'
      <3> SUFFICES ASSUME NEW p \in Path, hash'[p] # NULL,
                          cell'[hash'[p]].ondisk # "FILE_UNSET", remote[p] = NULL
                   PROVE  /\ cell'[hash'[p]].ondisk = "FILE_LOCAL"
                          /\ \E h \in Handle : AboutToMake(h) /\ fh[h] = hash'[p]
        BY <1>2, <2>1 DEF MarkedThere
      <3>1. /\ p # taken /\ hash'[p] = hash[p] /\ hash[p] # NULL
            /\ cell'[hash[p]] = cell[hash[p]]
        BY <2>1
      <3> QED BY <1>1, <3>1 DEF MarkedThere
    <2> QED BY <1>3, <2>2, <2>3 DEF FoundThere
  <1> QED BY <1>6, <1>7, <1>8, <1>9 DEF TreeStep

(* An unlink takes cell, name and object away together.                    *)
LEMMA FoundStep ==
  ASSUME OpenBase, FoundThere, CreateWorks, [OpenNext]_allvars
  PROVE  FoundThere'
  <1>1. CASE UNCHANGED allvars
    <2>1. UNCHANGED <<taken, hidden, hash, cell, remote, dentry, pc, call, fh>>
      BY <1>1 DEF allvars, treevars, vars, table, store
    <2>2. \A h \in Handle : /\ PathOf(h)' = PathOf(h)
                            /\ Finds(h)' = Finds(h) /\ Stats(h)' = Stats(h)
                            /\ AboutToMake(h)' = AboutToMake(h)
      BY <2>1 DEF PathOf, Finds, Stats, AboutToMake, Creating, Flags
    <2> QED BY <2>1, <2>2 DEF FoundThere, RemembersThere, FindsThere, StatsOnly, MarkedThere
  <1>2. CASE OpenNext
    <2>1. TypeOK /\ TreeTypeOK /\ HiddenGone
      BY DEF OpenBase
    <2> QED BY <1>2, <2>1, OpenSplit, FoundHandle, FoundOther, FoundTree
  <1> QED BY <1>1, <1>2

(* At first nothing is remembered.                                         *)
LEMMA FoundInit == OpenInit => FoundThere
  <1> SUFFICES ASSUME OpenInit PROVE FoundThere
    OBVIOUS
  <1>1. /\ dentry = {} /\ \A p \in Path : hash[p] = NULL
        /\ \A h \in Handle : pc[h] = "closed" /\ call[h] = NULL
    BY DEF OpenInit, Init, HashInit
  <1> QED BY <1>1 DEF FoundThere, RemembersThere, FindsThere, StatsOnly, MarkedThere,
                      Finds, Stats

(* A path without an object gets one from the create that runs there, and  *)
(* from no close: the handle that sends a file has its object.             *)
LEMMA AwayStep ==
  ASSUME OpenBase, FoundThere, OpenNext, NEW p \in Path,
         remote[p] = NULL, remote'[p] # NULL
  PROVE  \/ \E h \in Handle : pc[h] = "mknod" /\ PathOf(h) = p
         \/ remote'[p] = "moved"
  <1>1. TypeOK /\ TreeTypeOK /\ HiddenGone /\ FindsThere
    BY DEF OpenBase, FoundThere
  <1>2. CASE TreeStep
    BY <1>1, <1>2
    DEF TreeStep, dfs_unlink, rename_onto, unlink_local, unlink_cell, store, TypeOK,
        StoreTypeOK
  <1>3. CASE OtherStep
    BY <1>1, <1>3, OutsideFrame
  <1>4. ASSUME NEW h \in Handle, Serves(h)
        PROVE  pc[h] = "mknod" /\ PathOf(h) = p
    <2>1. p = PathOf(h) /\ pc[h] \in {"mknod", "send"}
      BY <1>1, <1>4, RemoteFrame DEF Serves
    <2>2. pc[h] # "send" \/ h \in hidden
      BY <1>1, <2>1 DEF FindsThere, Finds
    <2>3. h \notin hidden
      BY <1>1, <2>1 DEF HiddenGone
    <2> QED BY <2>1, <2>2, <2>3
  <1> QED BY <1>1, <1>2, <1>3, <1>4, OpenSplit

(* What was unlinked or renamed stays away (release.c): a handle that was  *)
(* open before sends nothing to the path, and the cell of a path without   *)
(* an object never lets an open or a lookup through.                       *)
THEOREM StaysAway == CreateWorks /\ OpenSpec => UnlinkedStaysAway
  <1>1. OpenInit => FoundThere
    BY FoundInit
  <1>2. CreateWorks /\ OpenBase /\ FoundThere /\ [OpenNext]_allvars => FoundThere'
    BY FoundStep
  <1>3. OpenBase /\ FoundThere /\ [OpenNext]_allvars =>
          [\A p \in Path : remote[p] = NULL /\ remote'[p] # NULL =>
             \/ \E h \in Handle : pc[h] = "mknod" /\ PathOf(h) = p
             \/ remote'[p] = "moved"]_allvars
    BY AwayStep
  <1> SUFFICES ASSUME CreateWorks PROVE OpenSpec => UnlinkedStaysAway
    OBVIOUS
  <1> QED BY <1>1, <1>2, <1>3, Based, PTL DEF OpenSpec, UnlinkedStaysAway

-----------------------------------------------------------------------------
(* Copies and originals.                                                   *)

(* Whatever another handler does, an orphan accounts for its copy.         *)
LEMMA OrphanKept ==
  ASSUME TypeOK, NEW g \in Handle, Orphan(g),
         UNCHANGED <<pc[g], call[g], fh[g]>>,
         \/ OtherStep
         \/ \E h \in Handle \ {g} : HandlerStep(h)
         \/ \A x \in Pe : cell'[x] \in {cell[x], pentry_free}
  PROVE  Orphan(g)'
  <1> SUFFICES ASSUME pc[g] = "create", cell'[fh[g]].state = "live"
               PROVE  cell'[fh[g]].fd # NULL
    BY DEF Orphan, Creating, Flags, Live
  <1>1. /\ fh[g] \in Pe
        /\ pentry_free.state = "free"
    BY AtPc DEF pentry_free, pentry_new
  <1>2. cell[fh[g]].fd # NULL \/ ~Live(fh[g])
    BY DEF Orphan
  <1>3. ASSUME NEW h \in Handle, HandlerStep(h)
        PROVE  cell'[fh[g]].fd # NULL
    <2>1. Live(fh[g])
      BY <1>1, <1>3, PentryAssumption, LostStays
    <2>2. CASE getattr_insert(h) \/ populate_hash(h)
      <3>1. CASE UNCHANGED table
        BY <1>2, <2>1, <3>1 DEF table
      <3>2. ASSUME NEW x \in Pe, FreePe(x), hash_insert(PathOf(h), x)
            PROVE  cell'[fh[g]].fd # NULL
        BY <1>1, <1>2, <2>1, <3>2 DEF hash_insert, FreePe
      <3> QED BY <1>3, <2>2, <3>1, <3>2, InsertFrame
    <2>3. CASE ~getattr_insert(h) /\ ~populate_hash(h)
      BY <1>1, <1>2, <1>3, <2>1, <2>3, CellFrame DEF CellKept
    <2> QED BY <2>2, <2>3
  <1>4. CASE OtherStep
    BY <1>1, <1>2, <1>4, OtherTable DEF hash_remove, Live
  <1>5. CASE \A x \in Pe : cell'[x] \in {cell[x], pentry_free}
    BY <1>1, <1>2, <1>5 DEF Live
  <1> QED BY <1>3, <1>4, <1>5

(* Its own step makes the object, or goes on towards it.                   *)
LEMMA OrphanGoesOn ==
  ASSUME OpenBase, OpenHasFd', CreateWorks, NEW h \in Handle, HandlerStep(h), Orphan(h)
  PROVE  \/ remote'[PathOf(h)] # NULL
         \/ Orphan(h)' /\ call'[h] = call[h]
  <1>1. TypeOK /\ OpenHasFd
    BY DEF OpenBase
  <1>2. pc[h] # "undefined"
    BY <1>1, RemoteFrame
  <1>3. CASE UseAfterFree(h)
    BY <1>1, <1>3 DEF UseAfterFree, Goto, Orphan, TypeOK, HandleTypeOK
  <1>4. CASE AboutToMake(h) /\ ~UseAfterFree(h)
    <2>1. \/ pc'[h] = "mknod" /\ Creating(h)' /\ fh'[h] = fh[h] /\ call'[h] = call[h]
          \/ remote'[PathOf(h)] # NULL
      BY <1>2, <1>4, MakerGoesOn DEF Orphan
    <2> QED BY <2>1 DEF Orphan
  <1>5. CASE pc[h] = "placeholder" /\ Creating(h) /\ ~UseAfterFree(h)
    <2>1. open_placeholder(h)
      BY <1>1, <1>5, RouteStep DEF Route
    <2>2. fh[h] \in Pe /\ cell[fh[h]] \in Pentry /\ cell \in [Pe -> Pentry]
      BY <1>1, <1>5, AtPc DEF TypeOK, HashTypeOK
    <2>3. /\ pc'[h] = "create" /\ call'[h] = call[h] /\ fh'[h] = fh[h]
          /\ cell'[fh[h]].ondisk = "FILE_LOCAL"
      BY <1>1, <1>5, <2>1, <2>2
      DEF open_placeholder, pentry_set_placeholder, Update, Goto, Pentry, TypeOK,
          HandleTypeOK
    <2>4. cell'[fh'[h]].fd # NULL
      BY <2>2, <2>3 DEF OpenHasFd
    <2> QED BY <1>5, <2>3, <2>4 DEF Orphan, Creating, Flags
  <1> QED BY <1>2, <1>3, <1>4, <1>5 DEF Orphan, AboutToMake

(* A copy made in this step has its object, or is that of a create.        *)
LEMMA CarryOrphan ==
  ASSUME OpenBase', FoundThere', NEW h \in Handle, pc'[h] \in CarryPc,
         NEW p \in Path, PathOf(h)' = p, remote'[p] = NULL
  PROVE  h \notin hidden' /\ call'[h] # NULL /\ Orphan(h)'
  <1>1. TypeOK' /\ TreeTypeOK' /\ HiddenGone' /\ FindsThere'
    BY DEF OpenBase, FoundThere
  <1>2. h \notin hidden' /\ call'[h] # NULL
    BY <1>1 DEF HiddenGone, CarryPc, TypeOK, LocalsOK
  <1>3. pc'[h] \notin CopyPc
    BY <1>1 DEF TypeOK, LocalsOK
  <1>4. ~Finds(h)'
    BY <1>1, <1>2 DEF FindsThere
  <1>5. pc'[h] = "placeholder" /\ Creating(h)'
    BY <1>3, <1>4 DEF CarryPc, Finds
  <1> QED BY <1>2, <1>5 DEF Orphan

(* A handler leaves a copy without an object only where it is making one.  *)
LEMMA OrphanHandle ==
  ASSUME OpenBase, OpenBase', FoundThere', OrphanMade, CreateWorks,
         NEW h \in Handle, Serves(h)
  PROVE  OrphanMade'
  <1>1. /\ TypeOK /\ TreeTypeOK /\ FreshInv /\ OneName /\ HandlerStep(h) /\ taken = NULL
        /\ OpenHasFd' /\ TypeOK'
    BY DEF OpenBase, Serves
  <1>2. upc' # "cell"
    BY <1>1 DEF Serves, TreeTypeOK
  <1> SUFFICES ASSUME NEW p \in Path, Copied(p)', remote'[p] = NULL
               PROVE  \E g \in Handle \ hidden' :
                        call'[g] # NULL /\ PathOf(g)' = p /\ Orphan(g)'
    BY <1>2 DEF OrphanMade
  <1>3. Next
    BY <1>1 DEF HandlerStep, Next
  <1>4. remote[p] = NULL
    BY <1>1, RemoteFrame
  <1>5. ASSUME NEW g \in Handle, PathOf(g)' = p, pc'[g] \in CarryPc
        PROVE  g \notin hidden' /\ call'[g] # NULL /\ Orphan(g)'
    BY <1>5, CarryOrphan
  <1>6. CASE Copied(p)
    <2>1. PICK g \in Handle \ hidden : call[g] # NULL /\ PathOf(g) = p /\ Orphan(g)
      BY <1>1, <1>4, <1>6, PentryAssumption DEF OrphanMade
    <2>2. g \notin hidden'
      BY <2>1 DEF Serves
    <2>3. CASE g = h
      BY <1>1, <2>1, <2>2, <2>3, OrphanGoesOn DEF PathOf
    <2>4. CASE g # h
      <3>1. UNCHANGED <<pc[g], call[g], fh[g]>>
        BY <1>1, <2>4, HandlerFrame
      <3>2. Orphan(g)'
        BY <1>1, <2>1, <2>4, <3>1, OrphanKept
      <3> QED BY <2>1, <2>2, <3>1, <3>2 DEF PathOf
    <2> QED BY <2>3, <2>4
  <1>7. CASE ~Copied(p)
    BY <1>1, <1>3, <1>5, <1>7, CopyFrame
  <1> QED BY <1>6, <1>7

(* The steps in between make no copy.                                      *)
LEMMA OrphanOther ==
  ASSUME OpenBase, OrphanMade, OtherStep, UNCHANGED treevars
  PROVE  OrphanMade'
  <1>1. TypeOK /\ TreeTypeOK /\ UNCHANGED <<taken, upc, hidden>>
    BY DEF OpenBase, treevars
  <1>2. /\ data' = data /\ remote' = remote
        /\ \A p \in Path : local'[p] \in {local[p], NULL}
    BY <1>1, QuietFrame DEF Quiet
  <1>3. \A p \in Path : Copied(p)' => Copied(p)
    BY <1>2 DEF Copied
  <1>4. upc' = "cell" => local'[taken'] = NULL
    BY <1>1, <1>2, PentryAssumption DEF OrphanMade, TreeTypeOK
  <1>5. ASSUME NEW g \in Handle, call[g] # NULL, Orphan(g)
        PROVE  call'[g] # NULL /\ PathOf(g)' = PathOf(g) /\ Orphan(g)'
    <2>1. UNCHANGED <<pc[g], call[g], fh[g]>>
      BY <1>1, <1>5, OutsideFrame DEF Begins, TypeOK, LocalsOK
    <2> QED BY <1>1, <1>5, <2>1, OrphanKept DEF PathOf
  <1> QED BY <1>1, <1>2, <1>3, <1>4, <1>5 DEF OrphanMade

(* dfs_unlink takes the copy away after the object.                        *)
LEMMA OrphanTree ==
  ASSUME OpenBase, OrphanMade, TreeStep
  PROVE  OrphanMade'
  <1>1. /\ TypeOK /\ TreeTypeOK
        /\ \A g \in Handle : call[g] # NULL => PathOf(g) \in Path
    BY AtPc DEF OpenBase, TypeOK, LocalsOK
  <1>2. /\ UNCHANGED <<pc, call, fh, data>>
        /\ \A g \in Handle : PathOf(g)' = PathOf(g)
    <2>1. UNCHANGED <<pc, call, fh, data>>
      BY DEF TreeStep, dfs_unlink, rename_onto, unlink_local, unlink_cell, disk
    <2> QED BY <2>1 DEF PathOf
  <1>3. ASSUME NEW g \in Handle, Orphan(g)
        PROVE  Orphan(g)'
    <2>1. \A x \in Pe : cell'[x] \in {cell[x], pentry_free}
      BY DEF TreeStep, dfs_unlink, rename_onto, unlink_local, unlink_cell, hash_remove,
             table
    <2> QED BY <1>1, <1>2, <1>3, <2>1, OrphanKept
  <1>4. ASSUME NEW p \in Path, dfs_unlink(p)
        PROVE  OrphanMade'
    <2>1. /\ \A q \in Path \ {p} : remote'[q] = remote[q]
          /\ local' = local /\ taken' = p /\ taken = NULL /\ upc' = "local"
          /\ \A g \in hidden' \ hidden : PathOf(g) = p
      BY <1>1, <1>4 DEF dfs_unlink, disk, TypeOK, StoreTypeOK
    <2> QED BY <1>2, <1>3, <2>1, PentryAssumption DEF OrphanMade, Copied
  <1>5. ASSUME NEW p \in Path, rename_onto(p)
        PROVE  OrphanMade'
    <2>1. /\ \A q \in Path : remote'[q] = NULL => remote[q] = NULL
          /\ UNCHANGED <<local, taken, upc, hidden>>
      BY <1>1, <1>5, PentryAssumption
      DEF rename_onto, disk, treevars, TypeOK, StoreTypeOK, Content
    <2> QED BY <1>2, <1>3, <2>1 DEF OrphanMade, Copied
  <1>6. CASE unlink_local
    <2>1. /\ local' = [local EXCEPT ![taken] = NULL] /\ taken \in Path
          /\ UNCHANGED <<remote, taken, hidden>> /\ local \in [Path -> Inode \cup {NULL}]
      BY <1>1, <1>6 DEF unlink_local, store, TreeTypeOK, TypeOK, DiskTypeOK
    <2> QED BY <1>2, <1>3, <2>1 DEF OrphanMade, Copied
  <1>7. CASE unlink_cell
    <2>1. /\ local[taken] = NULL /\ taken' = NULL /\ upc' = "idle"
          /\ UNCHANGED <<remote, local, hidden>>
      BY <1>7 DEF unlink_cell, store, disk, OrphanMade
    <2> QED BY <1>2, <1>3, <2>1 DEF OrphanMade, Copied
  <1> QED BY <1>4, <1>5, <1>6, <1>7 DEF TreeStep

(* An unlink removes the copy it has made an orphan before it ends.        *)
LEMMA OrphanStep ==
  ASSUME OpenBase, OpenBase', FoundThere', OrphanMade, CreateWorks,
         [OpenNext]_allvars
  PROVE  OrphanMade'
  <1>1. CASE UNCHANGED allvars
    <2>1. UNCHANGED <<taken, upc, hidden, cell, local, data, remote, pc, call, fh>>
      BY <1>1 DEF allvars, treevars, vars, table, disk, store
    <2>2. \A h \in Handle : PathOf(h)' = PathOf(h) /\ Orphan(h)' = Orphan(h)
      BY <2>1 DEF PathOf, Orphan, Creating, Flags, Live
    <2> QED BY <2>1, <2>2 DEF OrphanMade, Copied
  <1>2. CASE OpenNext
    <2>1. TypeOK /\ TreeTypeOK /\ HiddenGone
      BY DEF OpenBase
    <2> QED BY <1>2, <2>1, OpenSplit, OrphanHandle, OrphanOther, OrphanTree
  <1> QED BY <1>1, <1>2

(* At first the copies are left-overs of earlier mounts.                   *)
LEMMA OrphanInit == OpenInit => OrphanMade
  <1> SUFFICES ASSUME OpenInit PROVE OrphanMade
    OBVIOUS
  <1>1. /\ data = [i \in Inode |-> "stale"] /\ upc = "idle"
        /\ local \in [Path -> Inode \cup {NULL}]
    BY DEF OpenInit, Init
  <1> QED BY <1>1 DEF OrphanMade, Copied

(* Where no request is being served a copy has its original.               *)
LEMMA OrphanServes ==
  ASSUME OpenBase, OrphanMade
  PROVE  NoOrphanCopy
  <1> SUFFICES ASSUME NEW p \in Path, PathIdle(p), taken # p,
                      \A h \in Handle \ hidden :
                         call[h] # NULL /\ PathOf(h) = p => pc[h] # "undefined",
                      Copied(p), remote[p] = NULL
               PROVE  FALSE
    BY DEF NoOrphanCopy, Copied
  <1>1. PICK h \in Handle \ hidden : call[h] # NULL /\ PathOf(h) = p /\ Orphan(h)
    BY DEF OrphanMade
  <1> QED BY <1>1 DEF PathIdle, Orphan

(* No copy without an original (unlink.c, file.c, create.c): an unlink     *)
(* takes the cache file away with the object, no handle from before brings *)
(* it back, and a file that is created has its object at once.             *)
THEOREM CopiesHaveOriginals == CreateWorks /\ OpenSpec => []NoOrphanCopy
  <1>1. OpenInit => FoundThere /\ OrphanMade
    BY FoundInit, OrphanInit
  <1>2. CreateWorks /\ OpenBase /\ OpenBase' /\ FoundThere /\ OrphanMade /\ [OpenNext]_allvars
          => FoundThere' /\ OrphanMade'
    <2> SUFFICES ASSUME CreateWorks, OpenBase, OpenBase', FoundThere, OrphanMade,
                        [OpenNext]_allvars
                 PROVE  FoundThere' /\ OrphanMade'
      OBVIOUS
    <2>1. FoundThere'
      BY FoundStep
    <2> QED BY <2>1, OrphanStep
  <1>3. OpenBase /\ OrphanMade => NoOrphanCopy
    BY OrphanServes
  <1> SUFFICES ASSUME CreateWorks PROVE OpenSpec => []NoOrphanCopy
    OBVIOUS
  <1> QED BY <1>1, <1>2, <1>3, Based, PTL DEF OpenSpec
=============================================================================
