--------------------- MODULE FileCacheRefinementProofs ---------------------
(***************************************************************************)
(* Every step of FileCache, when nothing fails, nothing is excluded, the   *)
(* collector is off and calls write, is a step of ExclusiveFile or a       *)
(* stutter: the safety part of FileCacheRefinement's WritersTakeTurns, for *)
(* any number of files, handles, cells, inodes and workers.                *)
(*                                                                         *)
(* Ten actions touch what the abstract file sees; all but the lock itself  *)
(* belong to the owner of the cell's mutex, so that at each path at most   *)
(* one handle acts, and the others see that path unchanged.                *)
(***************************************************************************)
EXTENDS FileCacheRefinement, FileCacheProofs

(* Names for sets of program counters are always unfolded.                 *)
USE DEF GetattrPc, OpenPc, ReleasePc, IdlePc, NoCellPc, CopyPc, Pc, DerefPc,
        OwnerPc, CountedPc

-----------------------------------------------------------------------------
(* The inductive invariant of the refinement.                              *)

(* A handler that creates a file finds none, in the store or in the cache, *)
(* and leaves an empty one.                                                *)
CreateInv(h) ==
    /\ pc[h] \in {"create", "mknod"} => Creating(h)
    /\ pc[h] \in OpenPc \cup {"open"} /\ Creating(h) =>
        /\ remote[PathOf(h)] = NULL /\ pc[h] # "set_fd"
        /\ pc[h] \in {"open", "incref", "lock", "creat", "existing", "headers"}
             => CellOf(PathOf(h)).ondisk = "FILE_UNSET"
        /\ pc[h] \in {"placeholder", "create", "mknod"} /\ cell[fh[h]].fd # NULL
             => data[cell[fh[h]].fd.ino] = "empty"

(* A copy is made for a cell without a descriptor, under the path's name,  *)
(* and is what the store has.                                              *)
CopyInv(h) ==
    /\ pc[h] \in CopyPc \cup {"headers", "set_fd"} => cell[fh[h]].fd = NULL
    /\ pc[h] \in {"fetch", "set_fd"} => lfd[h].ino = local[PathOf(h)]
    /\ pc[h] = "reopen" => /\ local[PathOf(h)] # NULL
                           /\ data[local[PathOf(h)]] = remote[PathOf(h)]
    /\ pc[h] = "set_fd" => data[lfd[h].ino] = remote[PathOf(h)]

(* A release sends the cell's file, and unlocks the cell when the store    *)
(* has it.                                                                 *)
CloseInv(h) ==
    /\ pc[h] \in ReleasePc \cup {"opened"} => cell[fh[h]].ondisk # "FILE_UNSET"
    /\ pc[h] \in {"decref", "send"} => lfd[h] = cell[fh[h]].fd
    /\ pc[h] = "clean" => /\ cell[fh[h]].fd # NULL
                          /\ data[cell[fh[h]].fd.ino] = remote[PathOf(h)]

(* The descriptor of a cell leads to the path's own file, and each handler *)
(* leaves the draft as ExclusiveFile has it.                               *)
DraftInv ==
    /\ \A p, q \in Path : local[p] # NULL /\ local[p] = local[q] => p = q
    /\ \A p \in Path :
        hash[p] # NULL /\ CellOf(p).fd # NULL => CellOf(p).fd.ino = local[p]
    /\ \A x \in Pe : cell[x].exclude = 0
    /\ \A h \in Handle : CreateInv(h) /\ CopyInv(h) /\ CloseInv(h)

(* When FileCache behaves as ExclusiveFile.                                *)
Undisturbed == Faults = {} /\ Excluded = {} /\ ~GcOn /\ WritersOnly

(* The invariants that are theorems of the other modules.                  *)
Core == /\ TypeOK /\ OpenHasFd /\ LockInv
        /\ NoFreeInv /\ OwnCellInv /\ KnownInv /\ WritableInv

(* The actions that change the cache, the store, a descriptor or a mutex.  *)
Acts(h) ==
    \/ open_lock(h) \/ open_creat(h) \/ copy_discard(h) \/ copy_download(h)
    \/ copy_fetch(h) \/ open_set_fd(h) \/ create_mknod(h) \/ dfs_write(h)
    \/ release_send(h) \/ release_clean(h)

(* Path p looks as before, or has a fresh entry where it had none.         *)
SameAt(p) ==
    /\ remote'[p] = remote[p] /\ local'[p] = local[p]
    /\ local[p] # NULL => data'[local[p]] = data[local[p]]
    /\ hash[p] # NULL => /\ hash'[p] = hash[p]
                         /\ cell'[hash[p]].fd = cell[hash[p]].fd
                         /\ cell'[hash[p]].mutex = cell[hash[p]].mutex
    /\ hash'[p] # hash[p] => hash'[p] \in Pe /\ cell'[hash'[p]] = pentry_new

-----------------------------------------------------------------------------
(* Frames.                                                                 *)

(* The actions that do not act leave contents alone.                       *)
LEMMA RestFrame ==
  ASSUME TypeOK, NEW h \in Handle, HandlerStep(h), ~Acts(h)
  PROVE  UNCHANGED <<local, data, remote>>
  <1> USE DEF disk, store
  <1>1. CASE Getattr(h)
    BY <1>1 DEF Getattr, dfs_getattr, getattr_insert, getattr_dispatch, getattr_unset,
                getattr_mark
  <1>2. CASE dfs_open(h) \/ create_namei(h) \/ populate_hash(h) \/ open_incref(h)
             \/ open_existing(h)
    BY <1>2 DEF dfs_open, create_namei, populate_hash, open_incref, open_existing
  <1>3. CASE download_headers(h) \/ compare_digests(h) \/ copy_reopen(h)
             \/ open_placeholder(h) \/ dfs_create(h)
    BY <1>3 DEF download_headers, compare_digests, copy_reopen, open_placeholder,
                dfs_create
  <1>4. CASE dfs_release(h) \/ release_decref(h) \/ UseAfterFree(h)
    BY <1>4 DEF dfs_release, release_decref, UseAfterFree
  <1> QED BY <1>1, <1>2, <1>3, <1>4 DEF HandlerStep, Working, Open, Release, Acts

(* A handler's local descriptor is its own.                                *)
LEMMA LfdFrame ==
  ASSUME TypeOK, NEW h \in Handle, HandlerStep(h), NEW g \in Handle, g # h
  PROVE  lfd'[g] = lfd[g]
  <1> USE DEF private
  <1>1. lfd \in [Handle -> Descriptor \cup {NULL}]
    BY DEF TypeOK, HandleTypeOK
  <1>2. OpenFails(h) \/ Return(h) \/ Found(h) \/ NotFound(h) => lfd'[g] = lfd[g]
    BY <1>1 DEF OpenFails, Return, Found, NotFound
  <1>3. CASE Getattr(h)
    BY <1>1, <1>2, <1>3 DEF Getattr, dfs_getattr, getattr_insert, getattr_dispatch,
       getattr_unset, getattr_mark
  <1>4. CASE dfs_open(h) \/ create_namei(h) \/ populate_hash(h) \/ open_incref(h)
             \/ open_lock(h) \/ open_creat(h) \/ open_existing(h)
    BY <1>1, <1>2, <1>4 DEF dfs_open, create_namei, populate_hash, open_incref, open_lock,
       open_creat, open_existing
  <1>5. CASE download_headers(h) \/ compare_digests(h) \/ copy_discard(h)
             \/ copy_download(h) \/ copy_fetch(h) \/ copy_reopen(h)
    BY <1>1, <1>2, <1>5 DEF download_headers, compare_digests, copy_discard, copy_download,
       copy_fetch, copy_reopen
  <1>6. CASE open_set_fd(h) \/ open_placeholder(h) \/ dfs_create(h) \/ create_mknod(h)
             \/ dfs_write(h)
    BY <1>1, <1>2, <1>6 DEF open_set_fd, open_placeholder, dfs_create, create_mknod,
       dfs_write
  <1>7. CASE dfs_release(h) \/ Release(h) \/ UseAfterFree(h)
    BY <1>1, <1>2, <1>7 DEF dfs_release, Release, release_decref, release_send,
       release_clean, UseAfterFree
  <1> QED BY <1>3, <1>4, <1>5, <1>6, <1>7 DEF HandlerStep, Working, Open

(* Where the ten actions are taken.                                        *)
LEMMA ActsPc ==
  ASSUME NEW h \in Handle, Acts(h)
  PROVE  pc[h] \in {"lock", "creat", "discard", "download", "fetch", "set_fd", "mknod",
                    "opened", "send", "clean"}
  BY DEF Acts, open_lock, open_creat, copy_discard, copy_download, copy_fetch,
         open_set_fd, create_mknod, dfs_write, release_send, release_clean

(* Who acts on a cell is past the lock, or is taking it.                   *)
LEMMA ActsOwner ==
  ASSUME NEW h \in Handle, Acts(h)
  PROVE  pc[h] \in OwnerPc \/ (open_lock(h) /\ pc[h] = "lock")
  BY DEF Acts, open_lock, open_creat, copy_discard, copy_download, copy_fetch,
         open_set_fd, create_mknod, dfs_write, release_send, release_clean

(* Only the two steps that look a path up and find none insert an entry.   *)
LEMMA ActsNoInsert ==
  ASSUME NEW h \in Handle, Acts(h)
  PROVE  ~getattr_insert(h) /\ ~populate_hash(h)
  BY ActsOwner DEF getattr_insert, populate_hash

(* The mutex of a live cell is locked by open_lock, unlocked by            *)
(* release_clean and changed by nothing else.                              *)
LEMMA MutexFrame ==
  ASSUME TypeOK, NoFreeInv, NEW h \in Handle, HandlerStep(h), NEW x \in Pe, Live(x),
         cell'[x].mutex # cell[x].mutex
  PROVE  x = fh[h] /\ (open_lock(h) \/ release_clean(h))
  <1>1. CASE ~getattr_insert(h) /\ ~populate_hash(h)
    BY <1>1, CellFrame DEF CellKept
  <1>2. CASE getattr_insert(h) \/ populate_hash(h)
    <2>1. ~populate_hash(h) /\ pc[h] = "getattr_insert" /\ PathOf(h) \in Path
      BY <1>2, AtPc DEF NoFreeInv, populate_hash, getattr_insert
    <2>2. hash[PathOf(h)] = NULL
      BY <2>1 DEF NoFreeInv
    <2>3. cell' # cell
      OBVIOUS
    <2>4. PICK y \in Pe : FreePe(y) /\ hash_insert(PathOf(h), y)
      BY <1>2, <2>3, InsertFrame DEF table
    <2>5. x # y /\ x # hash[PathOf(h)]
      BY <2>2, <2>4, PentryAssumption DEF FreePe
    <2> QED BY <2>1, <2>4, <2>5, InsertCells DEF TypeOK
  <1> QED BY <1>1, <1>2

-----------------------------------------------------------------------------
(* What the ten actions do.                                                *)

(* Changing fields of the cell at x sets those and keeps the others.       *)
LEMMA UpdateFields ==
  ASSUME TypeOK, NEW x \in Pe, NEW r, Update(x, r)
  PROVE  cell'[x] = r
  BY DEF Update, TypeOK, HashTypeOK

(* The fields of a cell with two of them set.                              *)
LEMMA TwoFields ==
  ASSUME NEW r \in Pentry, NEW d, NEW f
  PROVE  /\ [r EXCEPT !.fd = d, !.flag = f].fd = d
         /\ [r EXCEPT !.fd = d, !.flag = f].mutex = r.mutex
         /\ [r EXCEPT !.flag = f, !.mutex = d].mutex = d
         /\ [r EXCEPT !.flag = f, !.mutex = d].fd = r.fd
  BY DEF Pentry

(* Each action at the handle's path p and cell x, when nothing fails.      *)
Deed(h, p, x) ==
    /\ open_lock(h) =>
         /\ cell[x].mutex = NULL /\ cell'[x].mutex = h /\ cell'[x].fd = cell[x].fd
         /\ UNCHANGED <<local, data, remote>>
    /\ open_creat(h) =>
         /\ local'[p] \in Inode /\ data'[local'[p]] = "empty"
         /\ cell'[x].fd = [ino |-> local'[p], mode |-> "O_RDWR"]
         /\ cell'[x].mutex = cell[x].mutex
         /\ pc'[h] = "placeholder" /\ remote' = remote
    /\ copy_discard(h) =>
         local'[p] = NULL /\ UNCHANGED <<data, remote, cell>> /\ pc'[h] = "download"
    /\ copy_download(h) =>
         /\ local'[p] \in Inode /\ lfd'[h].ino = local'[p]
         /\ UNCHANGED <<remote, cell>> /\ pc'[h] = "fetch"
    /\ copy_fetch(h) =>
         /\ data' = [data EXCEPT ![lfd[h].ino] = remote[p]] /\ lfd[h].ino \in Inode
         /\ UNCHANGED <<local, remote, cell>> /\ pc'[h] = "reopen"
    /\ open_set_fd(h) =>
         /\ cell'[x].fd = lfd[h] /\ cell'[x].mutex = cell[x].mutex /\ lfd[h] \in Descriptor
         /\ UNCHANGED <<local, data, remote>> /\ pc'[h] = "placeholder"
    /\ create_mknod(h) =>
         /\ remote' = [remote EXCEPT ![p] = "empty"] /\ UNCHANGED <<local, data, cell>>
         /\ pc'[h] = "opened"
    /\ dfs_write(h) =>
         /\ cell[x].fd # NULL /\ cell[x].fd.ino \in Inode
         /\ data' = [data EXCEPT ![cell[x].fd.ino] = h]
         /\ UNCHANGED <<local, remote, cell, pc, call, fh, lfd>>
    /\ release_send(h) =>
         /\ remote' = [remote EXCEPT ![p] = data[lfd[h].ino]] /\ lfd[h] \in Descriptor
         /\ UNCHANGED <<local, data, cell>> /\ pc'[h] = "clean"
    /\ release_clean(h) =>
         /\ cell'[x].mutex = NULL /\ cell'[x].fd = cell[x].fd
         /\ UNCHANGED <<local, data, remote>> /\ pc'[h] = "closed"

(* The ten actions do that.                                                *)
LEMMA Deeds ==
  ASSUME TypeOK, Faults = {}, NEW h \in Handle, Acts(h)
  PROVE  Deed(h, PathOf(h), fh[h])
  <1> DEFINE p == PathOf(h)
             x == fh[h]
  <1>1. pc[h] \notin NoCellPc /\ p \in Path /\ x \in Pe /\ cell[x] \in Pentry
    BY AtPc, ActsOwner
  <1>2. /\ pc \in [Handle -> Pc] /\ lfd \in [Handle -> Descriptor \cup {NULL}]
        /\ local \in [Path -> Inode \cup {NULL}] /\ data \in [Inode -> Content]
        /\ cell \in [Pe -> Pentry] /\ remote \in [Path -> Content \cup {NULL}]
        /\ pc[h] \in {"fetch", "set_fd", "decref", "send"} => lfd[h] # NULL
    BY DEF TypeOK, HandleTypeOK, DiskTypeOK, StoreTypeOK, HashTypeOK, LocalsOK
  <1>3. NULL \notin Inode /\ NULL \notin Descriptor
    BY PentryAssumption
  <1>4. \A d \in Descriptor : d.ino \in Inode
    BY DEF Descriptor
  <1>5. ASSUME NEW i \in Inode, NEW d, OpenTrunc(p, i, d)
        PROVE  local'[p] = i /\ data'[i] = d
    BY <1>1, <1>2, <1>5 DEF OpenTrunc
  <1>6. open_lock(h) =>
         /\ cell[x].mutex = NULL /\ cell'[x].mutex = h /\ cell'[x].fd = cell[x].fd
         /\ UNCHANGED <<local, data, remote>>
    BY <1>1, <1>2, UpdateFields DEF open_lock, pentry_lock, disk, store, Pentry
  <1>7. open_creat(h) =>
         /\ local'[p] \in Inode /\ data'[local'[p]] = "empty"
         /\ cell'[x].fd = [ino |-> local'[p], mode |-> "O_RDWR"]
         /\ cell'[x].mutex = cell[x].mutex
         /\ pc'[h] = "placeholder" /\ remote' = remote
    <2> SUFFICES ASSUME open_creat(h)
                 PROVE  /\ local'[p] \in Inode /\ data'[local'[p]] = "empty"
                        /\ cell'[x].fd = [ino |-> local'[p], mode |-> "O_RDWR"]
                        /\ cell'[x].mutex = cell[x].mutex
                        /\ pc'[h] = "placeholder" /\ remote' = remote
      OBVIOUS
    <2>1. PICK i \in Inode :
            /\ OpenTrunc(p, i, "empty")
            /\ Update(x, [cell[x] EXCEPT !.fd = [ino |-> i, mode |-> "O_RDWR"],
                                         !.flag = "FLAG_DIRTY"])
            /\ Goto(h, "placeholder")
      BY DEF open_creat
    <2>2. local'[p] = i /\ data'[i] = "empty"
      BY <1>5, <2>1
    <2>3. cell'[x] = [cell[x] EXCEPT !.fd = [ino |-> i, mode |-> "O_RDWR"],
                                     !.flag = "FLAG_DIRTY"]
      BY <1>1, <2>1, UpdateFields
    <2>4. remote' = remote
      BY DEF open_creat, store
    <2> QED BY <1>1, <1>2, <2>1, <2>2, <2>3, <2>4, TwoFields DEF Goto
  <1>8. copy_discard(h) =>
         local'[p] = NULL /\ UNCHANGED <<data, remote, cell>> /\ pc'[h] = "download"
    BY <1>1, <1>2 DEF copy_discard, store, table, Goto
  <1>9. copy_download(h) =>
         /\ local'[p] \in Inode /\ lfd'[h].ino = local'[p]
         /\ UNCHANGED <<remote, cell>> /\ pc'[h] = "fetch"
    BY <1>1, <1>2, <1>5 DEF copy_download, store, table, Goto
  <1>10. copy_fetch(h) =>
         /\ data' = [data EXCEPT ![lfd[h].ino] = remote[p]] /\ lfd[h].ino \in Inode
         /\ UNCHANGED <<local, remote, cell>> /\ pc'[h] = "reopen"
    BY <1>1, <1>2, <1>4 DEF copy_fetch, store, table, Goto
  <1>11. open_set_fd(h) =>
         /\ cell'[x].fd = lfd[h] /\ cell'[x].mutex = cell[x].mutex /\ lfd[h] \in Descriptor
         /\ UNCHANGED <<local, data, remote>> /\ pc'[h] = "placeholder"
    <2> SUFFICES ASSUME open_set_fd(h)
                 PROVE  /\ cell'[x].fd = lfd[h] /\ cell'[x].mutex = cell[x].mutex
                        /\ lfd[h] \in Descriptor
                        /\ UNCHANGED <<local, data, remote>> /\ pc'[h] = "placeholder"
      OBVIOUS
    <2>1. cell'[x] = [cell[x] EXCEPT !.fd = lfd[h], !.flag = OpenFlag(h)]
      BY <1>1, UpdateFields DEF open_set_fd
    <2>2. cell'[x].fd = lfd[h] /\ cell'[x].mutex = cell[x].mutex
      BY <1>1, <2>1, TwoFields
    <2> QED BY <1>2, <2>2 DEF open_set_fd, disk, store, Goto
  <1>12. create_mknod(h) =>
         /\ remote' = [remote EXCEPT ![p] = "empty"] /\ UNCHANGED <<local, data, cell>>
         /\ pc'[h] = "opened"
    BY <1>1, <1>2 DEF create_mknod, disk, table, Goto
  <1>13. dfs_write(h) =>
         /\ cell[x].fd # NULL /\ cell[x].fd.ino \in Inode
         /\ data' = [data EXCEPT ![cell[x].fd.ino] = h]
         /\ UNCHANGED <<local, remote, cell, pc, call, fh, lfd>>
    BY <1>1, <1>4 DEF dfs_write, store, table, Pentry
  <1>14. release_send(h) =>
         /\ remote' = [remote EXCEPT ![p] = data[lfd[h].ino]] /\ lfd[h] \in Descriptor
         /\ UNCHANGED <<local, data, cell>> /\ pc'[h] = "clean"
    BY <1>1, <1>2 DEF release_send, disk, table, Goto
  <1>15. release_clean(h) =>
         /\ cell'[x].mutex = NULL /\ cell'[x].fd = cell[x].fd
         /\ UNCHANGED <<local, data, remote>> /\ pc'[h] = "closed"
    <2> SUFFICES ASSUME release_clean(h)
                 PROVE  /\ cell'[x].mutex = NULL /\ cell'[x].fd = cell[x].fd
                        /\ UNCHANGED <<local, data, remote>> /\ pc'[h] = "closed"
      OBVIOUS
    <2>1. cell'[x] = [cell[x] EXCEPT !.flag = "FLAG_CLEAN", !.mutex = NULL]
      BY <1>1, UpdateFields DEF release_clean
    <2>2. cell'[x].mutex = NULL /\ cell'[x].fd = cell[x].fd
      BY <1>1, <2>1, TwoFields
    <2> QED BY <1>2, <2>2 DEF release_clean, disk, store, Return, Goto
  <1> QED BY <1>6, <1>7, <1>8, <1>9, <1>10, <1>11, <1>12, <1>13, <1>14, <1>15 DEF Deed

-----------------------------------------------------------------------------
(* What the others see.                                                    *)

(* A step that does not act leaves every path as it was.                   *)
LEMMA SameCalm ==
  ASSUME TypeOK, NoFreeInv, NEW h \in Handle, HandlerStep(h), ~Acts(h), NEW p \in Path
  PROVE  SameAt(p)
  <1>1. UNCHANGED <<local, data, remote>>
    BY RestFrame
  <1>2. hash[p] # NULL => hash[p] \in Pe /\ Live(hash[p])
    BY DEF TypeOK, HashTypeOK, NoFreeInv
  <1>3. hash[p] # NULL => /\ hash'[p] = hash[p]
                          /\ MarksKept(h, hash[p])
    BY <1>2, CellsKept
  <1>4. hash[p] # NULL => cell'[hash[p]].fd = cell[hash[p]].fd
    BY <1>3 DEF MarksKept, Acts
  <1>5. hash[p] # NULL => cell'[hash[p]].mutex = cell[hash[p]].mutex
    BY <1>2, MutexFrame DEF Acts
  <1>6. hash'[p] # hash[p] => hash'[p] \in Pe /\ cell'[hash'[p]] = pentry_new
    BY CellsKept
  <1> QED BY <1>1, <1>3, <1>4, <1>5, <1>6 DEF SameAt

(* An action leaves all other paths as they were: two paths never have the *)
(* same cell or the same file.                                             *)
LEMMA SameApart ==
  ASSUME TypeOK, NoFreeInv, OwnCellInv, DraftInv, Faults = {},
         NEW h \in Handle, HandlerStep(h), Acts(h), NEW p \in Path, p # PathOf(h)
  PROVE  SameAt(p)
  <1> DEFINE q == PathOf(h)
             x == fh[h]
  <1>1. pc[h] \notin NoCellPc /\ q \in Path /\ x \in Pe /\ x # NULL /\ cell[x] \in Pentry
    BY AtPc, ActsOwner, PentryAssumption
  <1>2. hash[q] = x /\ (hash[p] # NULL => hash[p] \in Pe /\ Live(hash[p]) /\ hash[p] # x)
    BY <1>1 DEF OwnCellInv, TypeOK, HashTypeOK, NoFreeInv
  <1>3. Deed(h, q, x)
    BY Deeds
  <1>4. hash' = hash /\ (hash[p] # NULL => CellKept(h, hash[p]))
    BY <1>2, ActsNoInsert, CellFrame
  <1>5. hash[p] # NULL => /\ cell'[hash[p]].fd = cell[hash[p]].fd
                          /\ cell'[hash[p]].mutex = cell[hash[p]].mutex
    <2>1. hash[p] # NULL => MarksKept(h, hash[p])
      BY <1>2, CellsKept
    <2> QED BY <1>2, <1>4, <2>1 DEF MarksKept, CellKept
  <1>6. local \in [Path -> Inode \cup {NULL}] /\ data \in [Inode -> Content]
        /\ remote \in [Path -> Content \cup {NULL}] /\ NULL \notin Inode
    BY PentryAssumption DEF TypeOK, DiskTypeOK, StoreTypeOK
  <1>7. remote'[p] = remote[p]
    BY <1>1, <1>3, <1>6 DEF Deed, Acts
  <1>8. /\ local[p] # NULL => local[p] # local[q]
        /\ cell[x].fd # NULL => cell[x].fd.ino = local[q]
        /\ pc[h] = "fetch" => lfd[h].ino = local[q]
    BY <1>1, <1>2 DEF DraftInv, CopyInv, CellOf
  <1>9. local'[p] = local[p] /\ (local[p] # NULL => data'[local[p]] = data[local[p]])
    <2>1. CASE open_creat(h) \/ copy_download(h)
      <3>1. PICK i \in Inode, d \in {"empty", "partial"} : OpenTrunc(q, i, d)
        <4>1. copy_download(h) => ~OpenFails(h)
          BY <1>3 DEF Deed, OpenFails, Return, Goto, TypeOK, HandleTypeOK
        <4>2. open_creat(h) => ~OpenFails(h)
          BY <1>3 DEF Deed, OpenFails, Return, Goto, TypeOK, HandleTypeOK
        <4> QED BY <2>1, <4>1, <4>2 DEF open_creat, copy_download
      <3>2. local[p] # NULL => local[p] # i
        BY <1>8, <3>1 DEF OpenTrunc, FreeInode
      <3> QED BY <1>1, <1>6, <3>1, <3>2 DEF OpenTrunc
    <2>2. CASE copy_discard(h)
      <3>1. local' = [local EXCEPT ![q] = NULL] /\ data' = data
        BY <2>2 DEF copy_discard
      <3> QED BY <1>6, <3>1
    <2>3. CASE copy_fetch(h)
      BY <1>3, <1>6, <1>8, <2>3 DEF Deed, copy_fetch
    <2>4. CASE dfs_write(h)
      BY <1>3, <1>6, <1>8, <2>4 DEF Deed
    <2>5. CASE open_lock(h) \/ open_set_fd(h) \/ create_mknod(h) \/ release_send(h)
               \/ release_clean(h)
      BY <1>3, <2>5 DEF Deed
    <2> QED BY <2>1, <2>2, <2>3, <2>4, <2>5 DEF Acts
  <1> QED BY <1>4, <1>5, <1>7, <1>9 DEF SameAt

(* All who open a file lock its cell.                                      *)
LEMMA AllLock ==
  ASSUME TypeOK, WritableInv, NEW h \in Handle, pc[h] \in OwnerPc
  PROVE  Writer(h)
  <1>1. call[h] # NULL /\ WriterCall(call[h])
    BY DEF TypeOK, LocalsOK, WritableInv
  <1> QED BY <1>1 DEF Writer, NeedsLock, Mode, get_mode_from_flags, WriterCall

(* While a handle owns a path's cell nobody else acts there.               *)
LEMMA SameOwned ==
  ASSUME Core, DraftInv, Faults = {}, NEW h \in Handle, HandlerStep(h),
         NEW g \in Handle, g # h, pc[g] \in OwnerPc
  PROVE  SameAt(PathOf(g))
  <1>1. PathOf(g) \in Path /\ fh[g] \in Pe /\ fh[g] # NULL
    BY AtPc, PentryAssumption DEF Core
  <1>2. CASE ~Acts(h)
    BY <1>1, <1>2, SameCalm DEF Core
  <1>3. CASE Acts(h) /\ PathOf(g) # PathOf(h)
    BY <1>1, <1>3, SameApart DEF Core
  <1>4. CASE Acts(h) /\ PathOf(g) = PathOf(h)
    <2>1. fh[h] \in Pe /\ fh[h] # NULL
      BY <1>4, AtPc, ActsOwner, PentryAssumption DEF Core
    <2>2. fh[g] = fh[h] /\ Live(fh[g])
      BY <1>1, <1>4, <2>1 DEF Core, OwnCellInv, NoFreeInv
    <2>3. cell[fh[g]].mutex = g
      BY <2>2, AllLock DEF Core, LockInv
    <2>4. pc[h] \notin OwnerPc
      <3> SUFFICES ASSUME pc[h] \in OwnerPc PROVE FALSE
        OBVIOUS
      <3>1. cell[fh[h]].mutex = h
        BY <2>2, AllLock DEF Core, LockInv
      <3> QED BY <2>2, <2>3, <3>1
    <2>5. cell[fh[h]].mutex = NULL
      BY <1>4, <2>4, ActsOwner, Deeds DEF Core, Deed
    <2> QED BY <2>2, <2>3, <2>5, PentryAssumption
  <1> QED BY <1>2, <1>3, <1>4

-----------------------------------------------------------------------------
(* DraftInv is inductive: the part of the other handles.                   *)

(* The step of h leaves the file that another handle creates, copies or    *)
(* sends as that handle needs it.                                          *)
LEMMA OtherHandle ==
  ASSUME Core, DraftInv, Faults = {}, NEW h \in Handle, HandlerStep(h),
         NEW g \in Handle, g # h
  PROVE  CreateInv(g)' /\ CopyInv(g)' /\ CloseInv(g)'
  <1> DEFINE p == PathOf(g)
             x == fh[g]
  <1>1. /\ pc'[g] = pc[g] /\ fh'[g] = fh[g] /\ call'[g] = call[g] /\ lfd'[g] = lfd[g]
        /\ CreateInv(g) /\ CopyInv(g) /\ CloseInv(g) /\ CloseInv(h)
    BY HandlerFrame, LfdFrame DEF Core, DraftInv
  <1>2. pc[g] # "closed" => p \in Path
    BY AtPc DEF Core
  <1>3. PathOf(g)' = PathOf(g) /\ (Creating(g)' <=> Creating(g))
    BY <1>1 DEF PathOf, Creating, Flags
  <1>4. ASSUME pc[g] \in OwnerPc
        PROVE  /\ x \in Pe /\ Live(x) /\ hash[p] = x /\ hash'[p] = x
               /\ cell'[x].fd = cell[x].fd /\ SameAt(p)
               /\ cell[x].fd # NULL => /\ cell[x].fd.ino = local[p]
                                       /\ data'[cell[x].fd.ino] = data[cell[x].fd.ino]
    <2>1. x \in Pe /\ x # NULL /\ hash[p] = x /\ Live(x) /\ SameAt(p)
      BY <1>4, AtPc, SameOwned, PentryAssumption DEF Core, OwnCellInv, NoFreeInv
    <2>2. cell[x].fd # NULL => cell[x].fd.ino = local[p] /\ cell[x].fd.ino \in Inode
      <3>1. cell[x].fd # NULL => cell[x].fd.ino = local[p]
        BY <1>2, <1>4, <2>1 DEF DraftInv, CellOf
      <3>2. cell[x].fd \in Descriptor \cup {NULL}
        BY <2>1 DEF Core, TypeOK, HashTypeOK, Pentry
      <3> QED BY <3>1, <3>2 DEF Descriptor
    <2>3. cell[x].fd # NULL => local[p] # NULL
      BY <2>2, PentryAssumption
    <2> QED BY <2>1, <2>2, <2>3 DEF SameAt
  <1>5. CopyInv(g)'
    <2>1. pc[g] \in CopyPc \cup {"headers", "set_fd"} => pc[g] \in OwnerPc
      OBVIOUS
    <2>2. pc[g] \in {"fetch", "set_fd"} =>
            lfd'[g].ino = local'[p] /\ local'[p] = local[p] /\ local[p] # NULL
      <3> SUFFICES ASSUME pc[g] \in {"fetch", "set_fd"}
                   PROVE  lfd'[g].ino = local'[p] /\ local'[p] = local[p] /\ local[p] # NULL
        OBVIOUS
      <3>1. lfd[g].ino \in Inode
        BY DEF Core, TypeOK, HandleTypeOK, LocalsOK, Descriptor
      <3> QED BY <1>1, <1>4, <3>1, PentryAssumption DEF CopyInv, SameAt
    <2> QED BY <1>1, <1>4, <1>3, <2>1, <2>2 DEF CopyInv, SameAt
  <1>6. \A y \in Pe : Live(y) /\ cell[y].ondisk # "FILE_UNSET"
          => cell'[y].ondisk # "FILE_UNSET"
    BY CellsKept DEF Core, MarksKept
  <1>7. CloseInv(g)'
    <2>1. pc[g] \in ReleasePc \cup {"opened"} => pc[g] \in OwnerPc
      OBVIOUS
    <2> QED BY <1>1, <1>4, <1>6, <1>3, <2>1 DEF CloseInv, SameAt
  <1>8. ASSUME pc[g] \in OpenPc \cup {"open"}, Creating(g),
               pc[g] \in {"open", "incref", "lock"} \/ pc[g] \in {"creat", "existing", "headers"}
        PROVE  remote'[p] = NULL /\ cell'[hash'[p]].ondisk = "FILE_UNSET"
    <2>1. /\ p \in Path /\ hash[p] # NULL /\ hash[p] \in Pe /\ Live(hash[p])
          /\ call[g] # NULL
      <3>1. pc[g] # "populate" /\ pc[g] \notin {"closed", "getattr", "getattr_insert"}
        BY <1>8
      <3> QED BY <1>2, <3>1, NameFacts DEF Core
    <2>2. remote[p] = NULL /\ cell[hash[p]].ondisk = "FILE_UNSET"
      BY <1>1, <1>8 DEF CreateInv, CellOf
    <2>3. HoldsName(g)
      <3>1. call[g].acc # "stat"
        BY <1>8, <2>1 DEF Core, KnownInv, Stats
      <3> QED BY <1>8, <2>1, <3>1 DEF HoldsName
    <2>4. hash'[p] = hash[p] /\ MarksKept(h, hash[p])
      BY <2>1, CellsKept DEF Core
    <2>5. fh[h] # NULL => fh[h] \in Pe /\ hash[PathOf(h)] = fh[h] /\ PathOf(h) \in Path
      <3>1. call[h] # NULL
        BY NameFrame, PentryAssumption, FileCacheAssumption DEF Core, TypeOK, LocalsOK
      <3> QED BY <3>1, NameFacts DEF Core
    <2>6. fh[h] = hash[p] => PathOf(h) = p
      BY <2>1, <2>5 DEF Core, OwnCellInv
    <2>7. remote'[p] = NULL
      <3> SUFFICES ASSUME remote'[p] # remote[p] PROVE FALSE
        BY <2>2
      <3>1. p = PathOf(h) /\ pc[h] \in {"mknod", "send"}
        BY <2>1, RouteFrame DEF Core, Route
      <3>2. fh[h] = hash[p]
        BY <2>5, <3>1, AtPc, PentryAssumption DEF Core
      <3>3. cell[hash[p]].ondisk # "FILE_UNSET"
        BY <1>1, <3>1, <3>2 DEF Core, KnownInv, CloseInv
      <3> QED BY <2>2, <3>3
    <2>8. cell'[hash[p]].ondisk = "FILE_UNSET"
      <3> SUFFICES ASSUME cell'[hash[p]].ondisk # cell[hash[p]].ondisk PROVE FALSE
        BY <2>2
      <3>1. hash[p] = fh[h] /\ (getattr_mark(h) \/ open_placeholder(h))
        BY <2>4 DEF MarksKept
      <3>2. HoldsName(h)
        <4>1. pc[h] \in GetattrPc \cup OpenPc
          BY <3>1 DEF getattr_mark, open_placeholder
        <4> QED BY <2>1, <2>2, <3>1, <4>1, UnsetHolds DEF Core
      <3> QED BY <2>3, <2>6, <3>1, <3>2 DEF Core, NoFreeInv
    <2> QED BY <2>4, <2>7, <2>8
  <1>9. CreateInv(g)'
    <2>1. CASE pc[g] \in {"open", "incref", "lock", "creat", "existing", "headers"}
      BY <1>1, <1>8, <1>3, <2>1 DEF CreateInv, CellOf
    <2>2. CASE pc[g] \notin {"open", "incref", "lock", "creat", "existing", "headers"}
               /\ pc[g] \in OpenPc
      <3>1. pc[g] \in OwnerPc
        BY <2>2 DEF Core, NoFreeInv
      <3> QED BY <1>1, <1>4, <1>3, <2>2, <3>1 DEF CreateInv, SameAt
    <2>3. CASE pc[g] \notin OpenPc \cup {"open"}
      BY <1>1, <2>3 DEF CreateInv
    <2> QED BY <2>1, <2>2, <2>3
  <1> QED BY <1>5, <1>7, <1>9

-----------------------------------------------------------------------------
(* DraftInv is inductive: the part of the handle that steps.               *)

(* A handler that goes on with its cell keeps it, under the same path; its *)
(* descriptor is set by open_creat and open_set_fd alone.                  *)
LEMMA OwnFrame ==
  ASSUME Core, TypeOK', NEW h \in Handle, HandlerStep(h), pc'[h] # "closed"
  PROVE  /\ PathOf(h)' = PathOf(h) /\ PathOf(h) \in Path
         /\ LooksUp(h) => ~Creating(h)'
         /\ ~LooksUp(h) => (Creating(h)' <=> Creating(h))
         /\ hash[PathOf(h)] # NULL /\ ~getattr_mark(h) /\ ~open_placeholder(h) =>
              /\ hash'[PathOf(h)] = hash[PathOf(h)]
              /\ cell'[hash[PathOf(h)]].ondisk = cell[hash[PathOf(h)]].ondisk
         /\ fh[h] # NULL =>
              /\ fh[h] \in Pe /\ Live(fh[h]) /\ hash[PathOf(h)] = fh[h]
              /\ hash'[PathOf(h)] = fh[h]
              /\ pc'[h] \notin NoCellPc => fh'[h] = fh[h]
              /\ ~open_creat(h) /\ ~open_set_fd(h)
                   => cell'[fh[h]].fd = cell[fh[h]].fd
              /\ cell[fh[h]].ondisk # "FILE_UNSET" => cell'[fh[h]].ondisk # "FILE_UNSET"
  <1>1. /\ call[h] \in Call /\ call'[h] \in Call
        /\ call'[h].path = call[h].path
    BY NameFrame DEF Core
  <1>2. PathOf(h)' = PathOf(h) /\ PathOf(h) \in Path
    BY <1>1 DEF PathOf, Call
  <1>3. (LooksUp(h) => ~Creating(h)') /\ (~LooksUp(h) => (Creating(h)' <=> Creating(h)))
    <2>1. CASE ~LooksUp(h)
      BY <2>1, RouteFrame DEF Core, Route, Creating, Flags
    <2>2. CASE LooksUp(h)
      <3>1. Found(h) /\ pc'[h] # "closed"
        BY <2>2 DEF LooksUp, getattr_dispatch, getattr_mark, Return, Goto, Core, TypeOK,
                    HandleTypeOK
      <3>2. call[h].acc # "stat" \/ pc'[h] = "closed"
        BY <3>1 DEF Found, Return, Goto, Core, TypeOK, HandleTypeOK
      <3>3. call' = [call EXCEPT ![h].flags = Flags(h) \ {"O_CREAT"}]
        BY <3>1, <3>2 DEF Found
      <3>4. call'[h].flags = Flags(h) \ {"O_CREAT"}
        BY <1>1, <3>3 DEF Core, TypeOK, HandleTypeOK, Call
      <3> QED BY <2>2, <3>4 DEF Creating, Flags
    <2> QED BY <2>1, <2>2
  <1>4. ASSUME fh[h] # NULL
        PROVE  /\ fh[h] \in Pe /\ Live(fh[h]) /\ hash[PathOf(h)] = fh[h]
               /\ hash'[PathOf(h)] = fh[h] /\ MarksKept(h, fh[h])
    BY <1>2, <1>4, CellsKept DEF Core, TypeOK, HandleTypeOK, NoFreeInv, OwnCellInv
  <1>5. ASSUME hash[PathOf(h)] # NULL, ~getattr_mark(h), ~open_placeholder(h)
        PROVE  /\ hash'[PathOf(h)] = hash[PathOf(h)]
               /\ cell'[hash[PathOf(h)]].ondisk = cell[hash[PathOf(h)]].ondisk
    BY <1>2, <1>5, CellsKept DEF Core, TypeOK, HashTypeOK, NoFreeInv, MarksKept
  <1>6. fh'[h] \in {NULL, fh[h], hash'[PathOf(h)]}
    BY PointerFrame DEF Core
  <1>7. pc'[h] \notin NoCellPc => fh'[h] # NULL
    BY DEF TypeOK, LocalsOK
  <1> QED BY <1>2, <1>3, <1>4, <1>5, <1>6, <1>7 DEF MarksKept

(* Where a handler can have come from.                                     *)
Came(h) ==
    /\ pc'[h] = "open" => pc[h] \in GetattrPc
    /\ pc'[h] # "populate"
    /\ pc'[h] = "incref" => pc[h] \in {"open", "populate"}
    /\ pc'[h] = "lock" => pc[h] = "incref"
    /\ pc'[h] \in {"creat", "existing"} => pc[h] \in {"incref", "lock"}
    /\ pc'[h] = "headers" => pc[h] = "existing" /\ cell[fh[h]].fd = NULL
    /\ pc'[h] = "digest" => pc[h] = "headers"
    /\ pc'[h] = "discard" => pc[h] = "digest"
    /\ pc'[h] = "download" => pc[h] = "discard"
    /\ pc'[h] = "fetch" => pc[h] = "download" /\ copy_download(h)
    /\ pc'[h] = "reopen" => pc[h] = "fetch" /\ copy_fetch(h)
    /\ pc'[h] = "set_fd" =>
         \/ pc[h] = "digest" /\ cell[fh[h]].fd # NULL
         \/ /\ pc[h] = "reopen" /\ copy_reopen(h)
            /\ lfd'[h] # NULL /\ lfd'[h].ino = local[PathOf(h)]
    /\ pc'[h] = "placeholder" =>
         \/ open_creat(h) \/ open_set_fd(h)
         \/ open_existing(h) /\ pc[h] = "existing" /\ cell[fh[h]].fd # NULL
    /\ pc'[h] = "create" =>
         /\ Creating(h)
         /\ \/ pc[h] = "placeholder"
            \/ pc[h] \in CopyPc \cup {"headers"}
    /\ pc'[h] = "mknod" => pc[h] = "create"
    /\ pc'[h] = "opened" => \/ open_placeholder(h) \/ pc[h] = "mknod"
                            \/ dfs_write(h)
    /\ pc'[h] = "decref" => dfs_release(h) /\ lfd'[h] = cell[fh[h]].fd
    /\ pc'[h] = "send" => pc[h] = "decref" /\ lfd'[h] = lfd[h]
    /\ pc'[h] = "clean" =>
         \/ release_send(h)
         \/ dfs_release(h) /\ cell[fh[h]].fd = NULL
         \/ release_decref(h) /\ cell[fh[h]].exclude = 1

(* It has come from there, when nothing fails.                             *)
LEMMA Predecessors ==
  ASSUME TypeOK, NoFreeInv, OpenHasFd, Faults = {}, Excluded = {},
         NEW h \in Handle, HandlerStep(h)
  PROVE  Came(h)
  <1> USE DEF private
  <1>1. /\ pc \in [Handle -> Pc] /\ lfd \in [Handle -> Descriptor \cup {NULL}]
        /\ pc[h] # "populate"
    BY DEF TypeOK, HandleTypeOK, NoFreeInv
  <1>2. ASSUME OpenFails(h)
        PROVE  pc'[h] \in {"create", "closed"} /\ (pc'[h] = "create" => Creating(h))
    BY <1>1, <1>2 DEF OpenFails, Return, Goto
  <1>3. ASSUME Return(h) PROVE pc'[h] = "closed"
    BY <1>1, <1>3 DEF Return, Goto
  <1>4. CASE Getattr(h)
    <2>1. /\ pc[h] \in GetattrPc
          /\ pc'[h] \in {"getattr_insert", "stat", "unset", "mark", "open", "closed"}
      BY <1>1, <1>3, <1>4 DEF Getattr, dfs_getattr, getattr_insert, getattr_dispatch,
         getattr_unset, getattr_mark, Found, NotFound, Goto
    <2> QED BY <1>4, <2>1 DEF Came
  <1>5. CASE UseAfterFree(h)
    <2>1. pc'[h] = "undefined"
      BY <1>1, <1>2, <1>3, <1>5 DEF UseAfterFree, Goto
    <2> QED BY <1>5, <2>1 DEF Came
  <1>6. CASE create_namei(h)
    <2>1. pc'[h] = "closed"
      BY <1>1, <1>2, <1>3, <1>6 DEF create_namei
    <2> QED BY <1>6, <2>1 DEF Came
  <1>7. CASE populate_hash(h)
    <2>1. FALSE
      BY <1>1, <1>2, <1>3, <1>7 DEF populate_hash
    <2> QED BY <1>7, <2>1 DEF Came
  <1>8. CASE dfs_open(h)
    <2>1. pc[h] = "open" /\ pc'[h] = "incref"
      BY <1>1, <1>2, <1>3, <1>8 DEF dfs_open, Goto, NoFreeInv
    <2> QED BY <1>8, <2>1 DEF Came
  <1>9. CASE open_incref(h)
    <2>1. pc[h] = "incref" /\ pc'[h] \in {"lock", "creat", "existing"}
      BY <1>1, <1>2, <1>3, <1>9 DEF open_incref, FirstStep, Goto
    <2> QED BY <1>9, <2>1 DEF Came
  <1>10. CASE open_lock(h)
    <2>1. pc[h] = "lock" /\ pc'[h] \in {"creat", "existing"}
      BY <1>1, <1>2, <1>3, <1>10 DEF open_lock, FirstStep, Goto
    <2> QED BY <1>10, <2>1 DEF Came
  <1>11. CASE open_creat(h)
    <2>1. pc'[h] = "placeholder"
      BY <1>1, <1>2, <1>3, <1>11 DEF open_creat, Goto
    <2> QED BY <1>11, <2>1 DEF Came
  <1>12. CASE open_existing(h)
    <2>1. /\ pc[h] = "existing"
          /\ \/ pc'[h] = "headers" /\ cell[fh[h]].fd = NULL
             \/ pc'[h] = "placeholder" /\ cell[fh[h]].fd # NULL
      BY <1>1, <1>2, <1>3, <1>12 DEF open_existing, Goto
    <2> QED BY <1>12, <2>1 DEF Came
  <1>13. CASE download_headers(h)
    <2>1. /\ pc[h] = "headers" /\ pc'[h] \in {"digest", "create", "closed"}
          /\ (pc'[h] = "create" => Creating(h))
      BY <1>1, <1>2, <1>3, <1>13 DEF download_headers, Goto
    <2> QED BY <1>13, <2>1 DEF Came
  <1>14. CASE compare_digests(h)
    <2>1. /\ pc[h] = "digest" /\ pc'[h] \in {"discard", "set_fd", "create", "closed"}
          /\ (pc'[h] = "create" => Creating(h)) /\ (pc'[h] = "set_fd" => cell[fh[h]].fd # NULL)
      BY <1>1, <1>2, <1>3, <1>14 DEF compare_digests, Goto
    <2> QED BY <1>14, <2>1 DEF Came
  <1>15. CASE copy_discard(h)
    <2>1. pc[h] = "discard" /\ pc'[h] = "download"
      BY <1>1, <1>2, <1>3, <1>15 DEF copy_discard, Goto
    <2> QED BY <1>15, <2>1 DEF Came
  <1>16. CASE copy_download(h)
    <2>1. pc[h] = "download" /\ pc'[h] = "fetch"
      BY <1>1, <1>2, <1>3, <1>16 DEF copy_download, Goto
    <2> QED BY <1>16, <2>1 DEF Came
  <1>17. CASE copy_fetch(h)
    <2>1. pc[h] = "fetch" /\ pc'[h] = "reopen"
      BY <1>1, <1>2, <1>3, <1>17 DEF copy_fetch, Goto
    <2> QED BY <1>17, <2>1 DEF Came
  <1>18. CASE copy_reopen(h)
    <2>1. /\ pc[h] = "reopen" /\ pc'[h] \in {"set_fd", "create", "closed"}
          /\ (pc'[h] = "create" => Creating(h))
          /\ (pc'[h] = "set_fd" => lfd'[h] # NULL /\ lfd'[h].ino = local[PathOf(h)])
      <3> DEFINE i == local[PathOf(h)]
                 d == [ino |-> i, mode |-> open_flags(Mode(h))]
      <3>1. CASE OpenFails(h)
        BY <1>2, <1>18, <3>1 DEF copy_reopen
      <3>2. CASE i # NULL /\ lfd' = [lfd EXCEPT ![h] = d] /\ Goto(h, "set_fd")
        <4>1. i \in Inode
          BY <1>18, <3>2, AtPc DEF copy_reopen, TypeOK, DiskTypeOK
        <4>2. d \in Descriptor
          BY <4>1 DEF Descriptor, open_flags
        <4>3. lfd'[h] = d /\ d # NULL
          BY <1>1, <3>2, <4>2, PentryAssumption
        <4> QED BY <1>1, <1>18, <3>2, <4>3 DEF copy_reopen, Goto
      <3> QED BY <1>18, <3>1, <3>2 DEF copy_reopen
    <2> QED BY <1>18, <2>1 DEF Came
  <1>19. CASE open_set_fd(h)
    <2>1. pc'[h] = "placeholder"
      BY <1>1, <1>2, <1>3, <1>19 DEF open_set_fd, Goto
    <2> QED BY <1>19, <2>1 DEF Came
  <1>20. CASE open_placeholder(h)
    <2>1. pc[h] = "placeholder" /\ pc'[h] \in {"create", "opened"} /\ (pc'[h] = "create" => Creating(h))
      BY <1>1, <1>2, <1>3, <1>20 DEF open_placeholder, Goto
    <2> QED BY <1>20, <2>1 DEF Came
  <1>21. CASE dfs_create(h)
    <2>1. pc[h] = "create" /\ pc'[h] \in {"mknod", "closed"}
      BY <1>1, <1>2, <1>3, <1>21 DEF dfs_create, Goto
    <2> QED BY <1>21, <2>1 DEF Came
  <1>22. CASE create_mknod(h)
    <2>1. pc[h] = "mknod" /\ pc'[h] = "opened"
      BY <1>1, <1>2, <1>3, <1>22 DEF create_mknod, Goto
    <2> QED BY <1>22, <2>1 DEF Came
  <1>23. CASE dfs_write(h)
    <2>1. pc'[h] = "opened"
      BY <1>1, <1>2, <1>3, <1>23 DEF dfs_write
    <2> QED BY <1>23, <2>1 DEF Came
  <1>24. CASE dfs_release(h)
    <2>1. \/ pc'[h] = "decref" /\ lfd'[h] = cell[fh[h]].fd
          \/ pc'[h] = "clean" /\ cell[fh[h]].fd = NULL
      BY <1>1, <1>2, <1>3, <1>24 DEF dfs_release, Goto
    <2> QED BY <1>24, <2>1 DEF Came
  <1>25. CASE release_decref(h)
    <2>1. /\ pc[h] = "decref"
          /\ \/ pc'[h] = "closed"
             \/ pc'[h] = "send" /\ lfd'[h] = lfd[h]
             \/ pc'[h] = "clean" /\ cell[fh[h]].exclude = 1
      BY <1>1, <1>2, <1>3, <1>25 DEF release_decref, Goto
    <2> QED BY <1>25, <2>1 DEF Came
  <1>26. CASE release_send(h)
    <2>1. pc'[h] = "clean"
      BY <1>1, <1>2, <1>3, <1>26 DEF release_send, Goto
    <2> QED BY <1>26, <2>1 DEF Came
  <1>27. CASE release_clean(h)
    <2>1. pc'[h] = "closed"
      BY <1>1, <1>2, <1>3, <1>27 DEF release_clean
    <2> QED BY <1>27, <2>1 DEF Came
  <1> QED BY <1>4, <1>5, <1>6, <1>7, <1>8, <1>9, <1>10, <1>11, <1>12, <1>13, <1>14,
             <1>15, <1>16, <1>17, <1>18, <1>19, <1>20, <1>21, <1>22, <1>23, <1>24,
             <1>25, <1>26, <1>27
          DEF HandlerStep, Working, Open, Release

(* What a handler that creates a file relies on.                           *)
LEMMA OwnCreate ==
  ASSUME Core, TypeOK', DraftInv, Faults = {}, Excluded = {},
         NEW h \in Handle, HandlerStep(h)
  PROVE  CreateInv(h)'
  <1> DEFINE p == PathOf(h)
             x == fh[h]
  <1>1. CreateInv(h) /\ CopyInv(h) /\ Came(h) /\ Route(h)
    BY Predecessors, RouteFrame DEF Core, DraftInv
  <1>2. CASE pc'[h] \notin OpenPc \cup {"open"}
    BY <1>2 DEF CreateInv
  <1>3. CASE pc'[h] \in OpenPc \cup {"open"} /\ ~Creating(h)'
    <2>1. pc'[h] \in {"create", "mknod"} => Creating(h)'
      <3>1. LooksUp(h) => pc'[h] = "open"
        BY DEF LooksUp
      <3> QED BY <1>1, <1>3, <3>1, OwnFrame DEF Came, CreateInv
    <2> QED BY <1>3, <2>1 DEF CreateInv
  <1>4. CASE pc'[h] \in OpenPc \cup {"open"} /\ Creating(h)'
    <2>1. /\ p' = p /\ p \in Path /\ Creating(h)
          /\ hash[p] # NULL /\ pc[h] \notin {"closed", "getattr", "getattr_insert"}
          /\ \/ pc[h] \in OpenPc \cup {"open"}
             \/ getattr_unset(h) /\ pc[h] = "unset" /\ pc'[h] = "open"
      <3>1. /\ p' = p /\ p \in Path /\ Creating(h) /\ ~LooksUp(h)
        BY <1>4, OwnFrame
      <3>2. \/ pc[h] \in OpenPc \cup {"open"}
            \/ getattr_unset(h) /\ pc[h] = "unset" /\ pc'[h] = "open"
        BY <1>1, <1>4, <3>1 DEF Route, Came, getattr_unset, open_creat, open_set_fd
      <3> QED BY <3>1, <3>2 DEF Core, NoFreeInv
    <2>2. remote[p] = NULL
      <3>1. CASE pc[h] \in OpenPc \cup {"open"}
        BY <1>1, <2>1, <3>1 DEF CreateInv
      <3>2. CASE getattr_unset(h) /\ pc'[h] = "open"
        BY <3>2 DEF getattr_unset, Goto, Core, TypeOK, HandleTypeOK
      <3> QED BY <2>1, <3>1, <3>2
    <2>3. pc[h] \notin {"send"} \cup CopyPc
      BY <2>1, <2>2 DEF Core, TypeOK, LocalsOK
    <2>4. pc[h] # "mknod"
      BY <1>1, <1>4, <2>1 DEF Came, open_creat, open_set_fd
    <2>5. remote'[p] = NULL
      BY <1>1, <2>1, <2>2, <2>3, <2>4 DEF Route
    <2>6. pc'[h] # "set_fd" /\ pc[h] # "set_fd"
      BY <1>1, <2>1, <2>3 DEF Came, CreateInv
    <2>7. ASSUME pc'[h] \in {"open", "incref", "lock", "creat", "existing", "headers"}
          PROVE  cell'[hash'[p]].ondisk = "FILE_UNSET"
      <3>1. pc[h] \in {"unset", "open", "incref", "lock", "existing"}
        BY <1>1, <2>1, <2>7 DEF Came, Core, NoFreeInv
      <3>2. ~getattr_mark(h) /\ ~open_placeholder(h)
        BY <3>1 DEF getattr_mark, open_placeholder
      <3>3. cell[hash[p]].ondisk = "FILE_UNSET"
        <4>1. CASE pc[h] = "unset"
          <5>1. fh[h] # NULL
            BY <4>1 DEF Core, TypeOK, LocalsOK
          <5> QED BY <4>1, <5>1 DEF Core, KnownInv, OwnCellInv
        <4>2. CASE pc[h] # "unset"
          BY <1>1, <2>1, <3>1, <4>2 DEF CreateInv, CellOf
        <4> QED BY <4>1, <4>2
      <3> QED BY <1>4, <2>1, <3>2, <3>3, OwnFrame
    <2>8. ASSUME pc'[h] \in {"placeholder", "create", "mknod"}, cell'[fh'[h]].fd # NULL
          PROVE  data'[cell'[fh'[h]].fd.ino] = "empty"
      <3>1. pc[h] \notin NoCellPc
        BY <1>1, <2>8, <2>1 DEF Came, open_creat, open_set_fd
      <3>2. x \in Pe /\ x # NULL /\ fh'[h] = x
        BY <2>8, <3>1, AtPc, OwnFrame, PentryAssumption DEF Core
      <3>3. CASE open_creat(h)
        <4>1. data'[local'[p]] = "empty"
              /\ cell'[x].fd = [ino |-> local'[p], mode |-> "O_RDWR"]
          BY <3>3, Deeds DEF Acts, Deed, Core
        <4> QED BY <3>2, <4>1
      <3>4. ~open_set_fd(h)
        BY <2>6 DEF open_set_fd
      <3>5. CASE ~open_creat(h)
        <4>1. cell'[x].fd = cell[x].fd
          BY <1>4, <3>2, <3>4, <3>5, OwnFrame
        <4>2. pc[h] \in {"placeholder", "create"}
          <5>1. pc[h] # "headers"
            BY <1>1, <2>8, <3>2, <4>1 DEF CopyInv
          <5>2. ~(open_existing(h) /\ pc[h] = "existing")
            <6> SUFFICES ASSUME pc[h] = "existing" PROVE FALSE
              OBVIOUS
            <6>1. hash[p] = x /\ cell[x].ondisk = "FILE_UNSET" /\ cell[x].fd # NULL
              BY <1>1, <2>1, <2>8, <3>2, <4>1 DEF CreateInv, CellOf, Core, OwnCellInv
            <6>2. PICK g \in Handle : pc[g] = "placeholder" /\ Creating(g) /\ fh[g] = x
              BY <3>2, <6>1 DEF Core, KnownInv
            <6>3. g = h
              BY <3>2, <6>1, <6>2, UnsetHolds DEF Core
            <6> QED BY <6>2, <6>3
          <5> QED BY <1>1, <2>3, <2>8, <3>4, <3>5, <5>1, <5>2 DEF Came
        <4>3. data' = data
          BY <4>2, ActsPc, RestFrame DEF Core
        <4> QED BY <1>1, <2>1, <2>8, <3>2, <4>1, <4>2, <4>3 DEF CreateInv
      <3> QED BY <3>3, <3>5
    <2>9. pc'[h] \in {"create", "mknod"} => Creating(h)'
      BY <1>4
    <2> QED BY <2>1, <2>5, <2>6, <2>7, <2>8, <2>9 DEF CreateInv, CellOf
  <1> QED BY <1>2, <1>3, <1>4

(* What a handler that copies a file relies on.                            *)
LEMMA OwnCopy ==
  ASSUME Core, TypeOK', DraftInv, Faults = {}, Excluded = {},
         NEW h \in Handle, HandlerStep(h)
  PROVE  CopyInv(h)'
  <1> DEFINE p == PathOf(h)
             x == fh[h]
  <1>1. CopyInv(h) /\ Came(h)
    BY Predecessors DEF Core, DraftInv
  <1>2. CASE pc'[h] \notin CopyPc \cup {"headers", "set_fd"}
    BY <1>2 DEF CopyInv
  <1>3. CASE pc'[h] \in CopyPc \cup {"headers", "set_fd"}
    <2>1. pc[h] \in {"existing", "headers"} \cup CopyPc
      BY <1>1, <1>3 DEF Came
    <2>2. x \in Pe /\ x # NULL /\ p' = p /\ p \in Path
      BY <1>3, <2>1, AtPc, OwnFrame, PentryAssumption DEF Core
    <2>3. fh'[h] = x /\ cell'[x].fd = cell[x].fd
      BY <1>3, <2>1, <2>2, OwnFrame DEF open_creat, open_set_fd
    <2>4. cell[x].fd = NULL
      BY <1>1, <1>3, <2>1 DEF Came, CopyInv
    <2>5. CASE pc'[h] \notin {"fetch", "reopen", "set_fd"}
      BY <1>3, <2>3, <2>4, <2>5 DEF CopyInv
    <2>6. CASE pc'[h] = "fetch"
      <3>1. lfd'[h].ino = local'[p]
        BY <1>1, <2>6, Deeds DEF Came, Acts, Deed, Core
      <3> QED BY <2>2, <2>3, <2>4, <2>6, <3>1 DEF CopyInv
    <2>7. CASE pc'[h] = "reopen"
      <3>1. pc[h] = "fetch" /\ lfd[h].ino = local[p]
        BY <1>1, <2>7 DEF Came, CopyInv
      <3>2. /\ data' = [data EXCEPT ![lfd[h].ino] = remote[p]] /\ lfd[h].ino \in Inode
            /\ UNCHANGED <<local, remote>>
        BY <1>1, <2>7, Deeds DEF Came, Acts, Deed, Core
      <3>3. data'[local[p]] = remote[p] /\ local[p] # NULL
        BY <3>1, <3>2, PentryAssumption DEF Core, TypeOK, DiskTypeOK
      <3> QED BY <2>2, <2>3, <2>4, <2>7, <3>2, <3>3 DEF CopyInv
    <2>8. CASE pc'[h] = "set_fd"
      <3>1. pc[h] = "reopen" /\ lfd'[h].ino = local[p]
        BY <1>1, <2>4, <2>8 DEF Came
      <3>2. UNCHANGED <<local, data, remote>>
        BY <3>1, ActsPc, RestFrame DEF Core
      <3> QED BY <1>1, <2>2, <2>3, <2>4, <2>8, <3>1, <3>2 DEF CopyInv
    <2> QED BY <2>5, <2>6, <2>7, <2>8
  <1> QED BY <1>2, <1>3

(* What a handler that closes a file relies on.                            *)
LEMMA OwnClose ==
  ASSUME Core, TypeOK', DraftInv, Faults = {}, Excluded = {},
         NEW h \in Handle, HandlerStep(h)
  PROVE  CloseInv(h)'
  <1> DEFINE p == PathOf(h)
             x == fh[h]
  <1>1. CloseInv(h) /\ Came(h)
    BY Predecessors DEF Core, DraftInv
  <1>2. CASE pc'[h] \notin ReleasePc \cup {"opened"}
    BY <1>2 DEF CloseInv
  <1>3. CASE pc'[h] \in ReleasePc \cup {"opened"}
    <2>1. pc[h] \in {"placeholder", "mknod", "opened", "decref", "send"}
      BY <1>1, <1>3 DEF Came, open_placeholder, dfs_write, dfs_release, release_send,
         release_decref
    <2>2. /\ x \in Pe /\ x # NULL /\ cell[x] \in Pentry /\ Live(x) /\ hash[p] = x
          /\ p' = p /\ p \in Path
      BY <1>3, <2>1, AtPc, OwnFrame, PentryAssumption DEF Core
    <2>3. fh'[h] = x /\ cell'[x].fd = cell[x].fd
          /\ (cell[x].ondisk # "FILE_UNSET" => cell'[x].ondisk # "FILE_UNSET")
      BY <1>3, <2>1, <2>2, OwnFrame DEF open_creat, open_set_fd
    <2>4. cell'[x].ondisk # "FILE_UNSET"
      <3>1. CASE open_placeholder(h)
        <4>1. cell'[x] = [cell[x] EXCEPT !.ondisk = "FILE_LOCAL"]
          BY <2>2, <3>1, UpdateFields DEF open_placeholder, pentry_set_placeholder, Core
        <4>2. [cell[x] EXCEPT !.ondisk = "FILE_LOCAL"].ondisk = "FILE_LOCAL"
          BY <2>2 DEF Pentry
        <4> QED BY <4>1, <4>2
      <3>2. CASE pc[h] = "mknod"
        BY <2>2, <2>3, <3>2 DEF Core, KnownInv
      <3>3. CASE pc[h] \in {"opened", "decref", "send"}
        BY <1>1, <2>3, <3>3 DEF CloseInv
      <3>4. pc[h] = "placeholder" => open_placeholder(h)
        BY RouteFrame DEF Core, Route
      <3> QED BY <2>1, <3>1, <3>2, <3>3, <3>4
    <2>5. pc'[h] \in {"decref", "send"} => lfd'[h] = cell'[x].fd
      BY <1>1, <2>3 DEF Came, CloseInv
    <2>6. ASSUME pc'[h] = "clean"
          PROVE  cell'[x].fd # NULL /\ data'[cell'[x].fd.ino] = remote'[p]
      <3>1. CASE release_send(h)
        <4>1. pc[h] = "send" /\ lfd[h] = cell[x].fd /\ lfd[h] # NULL
          BY <1>1, <3>1 DEF release_send, CloseInv, Core, TypeOK, LocalsOK
        <4>2. remote' = [remote EXCEPT ![p] = data[lfd[h].ino]] /\ data' = data
          BY <3>1, Deeds DEF Acts, Deed, Core
        <4>3. remote'[p] = data[lfd[h].ino]
          BY <2>2, <4>2 DEF Core, TypeOK, StoreTypeOK
        <4> QED BY <2>3, <4>1, <4>2, <4>3
      <3>2. ~(dfs_release(h) /\ cell[x].fd = NULL)
        BY <2>2 DEF dfs_release, Core, OpenHasFd
      <3>3. cell[x].exclude # 1
        BY <2>2 DEF DraftInv
      <3> QED BY <1>1, <2>6, <3>1, <3>2, <3>3 DEF Came
    <2> QED BY <1>3, <2>2, <2>3, <2>4, <2>5, <2>6 DEF CloseInv
  <1> QED BY <1>2, <1>3

-----------------------------------------------------------------------------
(* DraftInv is inductive: the state all handlers share.                    *)

(* The file a path gets is its own, a new one or none.                     *)
LEMMA LocalOwn ==
  ASSUME TypeOK, Faults = {}, NEW h \in Handle, Acts(h), NEW p \in Path, p # PathOf(h)
  PROVE  LET i == local'[PathOf(h)] IN i \in {local[PathOf(h)], NULL} \/ local[p] # i
  <1> DEFINE q == PathOf(h)
  <1>1. q \in Path /\ local \in [Path -> Inode \cup {NULL}]
    BY AtPc, ActsPc DEF TypeOK, DiskTypeOK
  <1>2. Deed(h, q, fh[h])
    BY Deeds
  <1>3. CASE open_creat(h) \/ copy_download(h)
    <2>1. PICK i \in Inode, d \in {"empty", "partial"} : OpenTrunc(q, i, d)
      BY <1>2, <1>3 DEF open_creat, copy_download, Deed, OpenFails, Return, Goto, TypeOK,
         HandleTypeOK
    <2> QED BY <1>1, <2>1 DEF OpenTrunc, FreeInode
  <1>4. CASE ~open_creat(h) /\ ~copy_download(h)
    BY <1>2, <1>4 DEF Deed, Acts
  <1> QED BY <1>3, <1>4

(* The descriptor of the handle's cell leads to the path's file.           *)
LEMMA OwnDescriptor ==
  ASSUME Core, DraftInv, Faults = {}, NEW h \in Handle, HandlerStep(h), Acts(h)
  PROVE  LET p == PathOf(h) IN
         /\ hash'[p] = fh[h] /\ fh[h] # NULL
         /\ cell'[fh[h]].fd # NULL => cell'[fh[h]].fd.ino = local'[p]
  <1> DEFINE p == PathOf(h)
             x == fh[h]
  <1>1. pc[h] \notin NoCellPc /\ p \in Path /\ x \in Pe /\ x # NULL
    BY AtPc, ActsPc, PentryAssumption DEF Core
  <1>2. hash[p] = x /\ hash'[p] = x
    BY <1>1, ActsNoInsert, CellFrame DEF Core, OwnCellInv
  <1>3. Deed(h, p, x) /\ CopyInv(h)
    BY Deeds DEF Core, DraftInv
  <1>4. cell[x].fd # NULL => cell[x].fd.ino = local[p]
    BY <1>1, <1>2 DEF DraftInv, CellOf
  <1>5. cell'[x].fd # NULL => cell'[x].fd.ino = local'[p]
    <2>1. CASE open_creat(h)
      BY <1>3, <2>1 DEF Deed
    <2>2. CASE copy_discard(h) \/ copy_download(h)
      BY <1>3, <2>2 DEF Deed, CopyInv, copy_discard, copy_download
    <2>3. CASE open_set_fd(h)
      BY <1>3, <2>3 DEF Deed, CopyInv, open_set_fd
    <2>4. CASE open_lock(h) \/ copy_fetch(h) \/ create_mknod(h) \/ dfs_write(h)
               \/ release_send(h) \/ release_clean(h)
      BY <1>3, <1>4, <2>4 DEF Deed
    <2> QED BY <2>1, <2>2, <2>3, <2>4 DEF Acts
  <1> QED BY <1>1, <1>2, <1>5

(* A step of a handler keeps DraftInv.                                     *)
LEMMA DraftHandler ==
  ASSUME Core, TypeOK', DraftInv, Faults = {}, Excluded = {},
         NEW h \in Handle, HandlerStep(h)
  PROVE  DraftInv'
  <1>1. \A p \in Path : SameAt(p) \/ (Acts(h) /\ p = PathOf(h))
    BY SameCalm, SameApart DEF Core
  <1>2. \A p, q \in Path : local'[p] # NULL /\ local'[p] = local'[q] => p = q
    <2> SUFFICES ASSUME NEW p \in Path, NEW q \in Path, local'[p] # NULL,
                        local'[p] = local'[q], p # q
                 PROVE  FALSE
      OBVIOUS
    <2>1. \/ local'[p] = local[p]
          \/ Acts(h) /\ p = PathOf(h) /\ local[q] # local'[p]
      BY <1>1, LocalOwn DEF SameAt, Core
    <2>2. \/ local'[q] = local[q]
          \/ Acts(h) /\ q = PathOf(h) /\ local[p] # local'[q]
      BY <1>1, LocalOwn DEF SameAt, Core
    <2> QED BY <2>1, <2>2 DEF DraftInv
  <1>3. \A p \in Path :
          hash'[p] # NULL /\ cell'[hash'[p]].fd # NULL => cell'[hash'[p]].fd.ino = local'[p]
    <2> SUFFICES ASSUME NEW p \in Path, hash'[p] # NULL, cell'[hash'[p]].fd # NULL
                 PROVE  cell'[hash'[p]].fd.ino = local'[p]
      OBVIOUS
    <2>1. CASE Acts(h) /\ p = PathOf(h)
      BY <2>1, OwnDescriptor
    <2>2. CASE SameAt(p)
      <3>1. hash'[p] = hash[p]
        BY <2>2 DEF SameAt, pentry_new
      <3> QED BY <2>2, <3>1 DEF SameAt, DraftInv, CellOf
    <2> QED BY <1>1, <2>1, <2>2
  <1>4. \A x \in Pe : cell'[x].exclude = 0
    <2> SUFFICES ASSUME NEW x \in Pe PROVE cell'[x].exclude = 0
      OBVIOUS
    <2>1. CASE MarksKept(h, x)
      BY <2>1 DEF MarksKept, DraftInv
    <2>2. CASE cell'[x] = pentry_new
      BY <2>2 DEF pentry_new
    <2> QED BY <2>1, <2>2, CellsKept DEF Core
  <1>5. \A g \in Handle : CreateInv(g)' /\ CopyInv(g)' /\ CloseInv(g)'
    BY OtherHandle, OwnCreate, OwnCopy, OwnClose
  <1> QED BY <1>2, <1>3, <1>4, <1>5 DEF DraftInv, CellOf

(* Every step keeps DraftInv.                                              *)
LEMMA DraftStep ==
  ASSUME Core, TypeOK', DraftInv, Faults = {}, Excluded = {}, ~GcOn, [Next]_vars
  PROVE  DraftInv'
  <1> NoCollector
    BY DEF NoCollector, gc_callback
  <1>1. CASE \E h \in Handle : HandlerStep(h)
    BY <1>1, DraftHandler
  <1>2. CASE OtherStep
    <2>1. UNCHANGED <<hash, cell, local, data, remote, fh, lfd>>
      BY <1>2, OtherQuiet DEF Core
    <2>2. ASSUME NEW h \in Handle PROVE CreateInv(h)' /\ CopyInv(h)' /\ CloseInv(h)'
      <3>1. CASE pc'[h] = pc[h] /\ call'[h] = call[h]
        <4>1. PathOf(h)' = PathOf(h) /\ (Creating(h)' <=> Creating(h))
          BY <3>1 DEF PathOf, Creating, Flags
        <4>2. CreateInv(h) /\ CopyInv(h) /\ CloseInv(h)
          BY DEF DraftInv
        <4> QED BY <2>1, <3>1, <4>1, <4>2 DEF CreateInv, CopyInv, CloseInv, CellOf
      <3>2. CASE pc'[h] = "getattr" \/ (pc'[h] = "open" /\ ~Creating(h)')
        BY <3>2 DEF CreateInv, CopyInv, CloseInv
      <3> QED BY <1>2, <3>1, <3>2, KernelFrame DEF Core
    <2> QED BY <2>1, <2>2 DEF DraftInv, CellOf
  <1>3. CASE UNCHANGED vars
    BY <1>3 DEF vars, table, disk, store, private, DraftInv, CreateInv, CopyInv, CloseInv,
       CellOf, PathOf, Creating, Flags
  <1> QED BY <1>1, <1>2, <1>3, NextSplit

(* It holds at the start.                                                  *)
LEMMA DraftInit ==
  ASSUME Init
  PROVE  DraftInv
  BY DEF Init, HashInit, DraftInv, CreateInv, CopyInv, CloseInv, CellOf, pentry_free,
         pentry_new

-----------------------------------------------------------------------------
(* The refinement.                                                         *)

(* A path that looks as before has the same draft and the same holder.     *)
LEMMA SameDraft ==
  ASSUME TypeOK, DraftInv, NEW p \in Path, SameAt(p)
  PROVE  Draft(p)' = Draft(p) /\ Holder(p)' = Holder(p)
  <1>1. CASE hash[p] = NULL
    <2>1. pentry_new.fd = NULL /\ pentry_new.mutex = NULL
      BY DEF pentry_new
    <2> QED BY <1>1, <2>1 DEF SameAt, Draft, Holder, CellOf
  <1>2. CASE hash[p] # NULL
    <2>1. hash[p] \in Pe /\ cell[hash[p]].fd \in Descriptor \cup {NULL}
      BY <1>2 DEF TypeOK, HashTypeOK, Pentry
    <2>2. cell[hash[p]].fd # NULL => /\ cell[hash[p]].fd.ino = local[p]
                                     /\ local[p] # NULL
      BY <1>2, <2>1, PentryAssumption DEF DraftInv, CellOf, Descriptor
    <2> QED BY <1>2, <2>2 DEF SameAt, Draft, Holder, CellOf
  <1> QED BY <1>1, <1>2

(* What each action is at its path p, to the reader of ExclusiveFile.      *)
Seen(h, p) ==
    /\ open_lock(h) => /\ Holder(p) = NULL /\ Holder(p)' = h
                       /\ Draft(p)' = Draft(p) /\ remote' = remote
    /\ ~open_lock(h) => Holder(p) = h
    /\ ~open_lock(h) /\ ~release_clean(h) => Holder(p)' = h
    /\ open_creat(h) => Draft(p)' = "empty" /\ remote' = remote
    /\ copy_discard(h) \/ copy_download(h) \/ copy_fetch(h) =>
         Draft(p)' = Draft(p) /\ remote' = remote
    /\ open_set_fd(h) => /\ Draft(p) = NULL /\ remote[p] # NULL
                         /\ Draft(p)' = remote[p] /\ remote' = remote
    /\ dfs_write(h) => Draft(p) # NULL /\ Draft(p)' = h /\ remote' = remote
    /\ create_mknod(h) \/ release_send(h) =>
         /\ Draft(p) # NULL /\ Draft(p)' = Draft(p)
         /\ remote' = [remote EXCEPT ![p] = Draft(p)]
    /\ release_clean(h) => /\ remote[p] = Draft(p) /\ Holder(p)' = NULL
                           /\ Draft(p)' = Draft(p) /\ remote' = remote

(* The ten actions are that.                                               *)
LEMMA ActsSeen ==
  ASSUME Core, DraftInv, Faults = {}, NEW h \in Handle, HandlerStep(h), Acts(h),
         NEW p \in Path, p = PathOf(h)
  PROVE  Seen(h, p)
  <1> DEFINE x == fh[h]
  <1>1. /\ pc[h] \notin NoCellPc /\ x \in Pe /\ x # NULL
        /\ cell[x].fd \in Descriptor \cup {NULL}
    BY AtPc, ActsPc, PentryAssumption DEF Core, Pentry
  <1>2. hash[p] = x /\ hash'[p] = x /\ Live(x)
    BY <1>1, OwnDescriptor DEF Core, OwnCellInv, NoFreeInv
  <1>3. Deed(h, p, x) /\ CreateInv(h) /\ CopyInv(h) /\ CloseInv(h)
    BY Deeds DEF Core, DraftInv
  <1>4. /\ Draft(p) = IF cell[x].fd = NULL THEN NULL ELSE data[cell[x].fd.ino]
        /\ Draft(p)' = IF cell'[x].fd = NULL THEN NULL ELSE data'[cell'[x].fd.ino]
        /\ Holder(p) = cell[x].mutex /\ Holder(p)' = cell'[x].mutex
    BY <1>1, <1>2 DEF Draft, Holder, CellOf
  <1>5. /\ data \in [Inode -> Content] /\ NULL \notin Content
        /\ cell[x].fd # NULL => cell[x].fd.ino \in Inode
        /\ lfd \in [Handle -> Descriptor \cup {NULL}] /\ NULL \notin Descriptor
    BY <1>1, PentryAssumption DEF Core, TypeOK, DiskTypeOK, HandleTypeOK, Descriptor
  <1>6. ~open_lock(h) => Holder(p) = h
    <2>1. ~open_lock(h) => pc[h] \in OwnerPc
      BY ActsOwner
    <2> QED BY <1>2, <1>4, <2>1, AllLock DEF Core, LockInv
  <1>7. ~open_lock(h) /\ ~release_clean(h) => Holder(p)' = h
    <2>1. ~open_lock(h) /\ ~release_clean(h) => cell'[x].mutex = cell[x].mutex
      BY <1>3 DEF Deed, Acts
    <2> QED BY <1>4, <1>6, <2>1
  <1>8. open_lock(h) => /\ Holder(p) = NULL /\ Holder(p)' = h
                        /\ Draft(p)' = Draft(p) /\ remote' = remote
    BY <1>3, <1>4 DEF Deed
  <1>9. open_creat(h) => Draft(p)' = "empty" /\ remote' = remote
    <2> SUFFICES ASSUME open_creat(h) PROVE Draft(p)' = "empty" /\ remote' = remote
      OBVIOUS
    <2>1. /\ local'[p] \in Inode /\ data'[local'[p]] = "empty" /\ remote' = remote
          /\ cell'[x].fd = [ino |-> local'[p], mode |-> "O_RDWR"]
      BY <1>3 DEF Deed
    <2>2. cell'[x].fd \in Descriptor
      BY <2>1 DEF Descriptor
    <2> QED BY <1>4, <1>5, <2>1, <2>2
  <1>10. copy_discard(h) \/ copy_download(h) \/ copy_fetch(h) =>
           Draft(p)' = Draft(p) /\ remote' = remote
    BY <1>3, <1>4 DEF Deed, CopyInv, copy_discard, copy_download, copy_fetch
  <1>11. open_set_fd(h) => /\ Draft(p) = NULL /\ remote[p] # NULL
                           /\ Draft(p)' = remote[p] /\ remote' = remote
    <2> SUFFICES ASSUME open_set_fd(h)
                 PROVE  /\ Draft(p) = NULL /\ remote[p] # NULL
                        /\ Draft(p)' = remote[p] /\ remote' = remote
      OBVIOUS
    <2>1. cell[x].fd = NULL /\ data[lfd[h].ino] = remote[p]
      BY <1>3 DEF CopyInv, open_set_fd
    <2>2. /\ cell'[x].fd = lfd[h] /\ lfd[h] \in Descriptor
          /\ UNCHANGED <<data, remote>>
      BY <1>3 DEF Deed
    <2>3. data[lfd[h].ino] # NULL
      BY <1>5, <2>2 DEF Descriptor
    <2> QED BY <1>4, <1>5, <2>1, <2>2, <2>3
  <1>12. dfs_write(h) => Draft(p) # NULL /\ Draft(p)' = h /\ remote' = remote
    BY <1>3, <1>4, <1>5 DEF Deed
  <1>13. create_mknod(h) => Draft(p) = "empty"
    <2> SUFFICES ASSUME create_mknod(h) PROVE Draft(p) = "empty"
      OBVIOUS
    <2>1. pc[h] = "mknod" /\ cell[x].fd # NULL
      BY <1>2 DEF create_mknod, Core, OpenHasFd
    <2> QED BY <1>3, <1>4, <2>1 DEF CreateInv
  <1>14. release_send(h) => Draft(p) = data[lfd[h].ino] /\ cell[x].fd # NULL
    BY <1>3, <1>4, <1>5 DEF Deed, CloseInv, release_send
  <1>15. create_mknod(h) \/ release_send(h) =>
           /\ Draft(p) # NULL /\ Draft(p)' = Draft(p)
           /\ remote' = [remote EXCEPT ![p] = Draft(p)]
    BY <1>3, <1>4, <1>5, <1>13, <1>14 DEF Deed, Content
  <1>16. release_clean(h) => /\ remote[p] = Draft(p) /\ Holder(p)' = NULL
                             /\ Draft(p)' = Draft(p) /\ remote' = remote
    BY <1>3, <1>4 DEF Deed, CloseInv, release_clean
  <1> QED BY <1>6, <1>7, <1>8, <1>9, <1>10, <1>11, <1>12, <1>15, <1>16 DEF Seen

(* A step of a handler that acts is one of ExclusiveFile at its path, or a *)
(* stutter.                                                                *)
LEMMA ActsMap ==
  ASSUME Core, DraftInv, Faults = {}, NEW h \in Handle, HandlerStep(h), Acts(h)
  PROVE  [Exclusive!Next]_Exclusive!vars
  <1> DEFINE D == [q \in Path |-> Draft(q)]
             H == [q \in Path |-> Holder(q)]
  <1>1. PICK p \in Path : p = PathOf(h)
    BY AtPc, ActsPc DEF Core
  <1>2. Seen(h, p)
    BY <1>1, ActsSeen
  <1>3. \A q \in Path \ {p} : Draft(q)' = Draft(q) /\ Holder(q)' = Holder(q)
    BY <1>1, SameApart, SameDraft DEF Core
  <1>4. /\ D[p] = Draft(p) /\ H[p] = Holder(p)
        /\ D' = [D EXCEPT ![p] = Draft(p)'] /\ H' = [H EXCEPT ![p] = Holder(p)']
    BY <1>3
  <1>5. Draft(p)' = Draft(p) => D' = D
    BY <1>3
  <1>6. Holder(p)' = Holder(p) => H' = H
    BY <1>3
  <1> HIDE DEF D, H
  <1>7. CASE open_lock(h)
    <2>1. Exclusive!Begin(p, h)
      BY <1>2, <1>4, <1>5, <1>7 DEF Seen, Exclusive!Begin, D, H
    <2> QED BY <2>1 DEF Exclusive!Next
  <1>8. CASE open_creat(h)
    <2>1. ~open_lock(h) /\ ~release_clean(h)
      BY <1>8 DEF open_creat, open_lock, release_clean
    <2>2. Exclusive!Truncate(p, h)
      BY <1>2, <1>4, <1>6, <1>8, <2>1 DEF Seen, Exclusive!Truncate, Exclusive!Edit, D, H
    <2> QED BY <2>2 DEF Exclusive!Next
  <1>9. CASE copy_discard(h) \/ copy_download(h) \/ copy_fetch(h)
    <2>1. ~open_lock(h) /\ ~release_clean(h)
      BY <1>9 DEF copy_discard, copy_download, copy_fetch, open_lock, release_clean
    <2> QED BY <1>2, <1>5, <1>6, <1>9, <2>1 DEF Seen, Exclusive!vars, D, H
  <1>10. CASE open_set_fd(h)
    <2>1. ~open_lock(h) /\ ~release_clean(h)
      BY <1>10 DEF open_set_fd, open_lock, release_clean
    <2>2. Exclusive!Load(p, h)
      BY <1>2, <1>4, <1>6, <1>10, <2>1 DEF Seen, Exclusive!Load, Exclusive!Edit, D, H
    <2> QED BY <2>2 DEF Exclusive!Next
  <1>11. CASE dfs_write(h)
    <2>1. ~open_lock(h) /\ ~release_clean(h)
      BY <1>11 DEF dfs_write, open_lock, release_clean
    <2>2. Exclusive!Write(p, h)
      BY <1>2, <1>4, <1>6, <1>11, <2>1 DEF Seen, Exclusive!Write, Exclusive!Edit, D, H
    <2> QED BY <2>2 DEF Exclusive!Next
  <1>12. CASE create_mknod(h) \/ release_send(h)
    <2>1. ~open_lock(h) /\ ~release_clean(h)
      BY <1>12 DEF create_mknod, release_send, open_lock, release_clean
    <2>2. Exclusive!Publish(p, h)
      BY <1>2, <1>4, <1>5, <1>6, <1>12, <2>1 DEF Seen, Exclusive!Publish, D, H
    <2> QED BY <2>2 DEF Exclusive!Next
  <1>13. CASE release_clean(h)
    <2>1. ~open_lock(h)
      BY <1>13 DEF open_lock, release_clean
    <2>2. Exclusive!End(p, h)
      BY <1>2, <1>4, <1>5, <1>13, <2>1 DEF Seen, Exclusive!End, D, H
    <2> QED BY <2>2 DEF Exclusive!Next
  <1> QED BY <1>7, <1>8, <1>9, <1>10, <1>11, <1>12, <1>13 DEF Acts

(* Every step is one of ExclusiveFile or a stutter.                        *)
LEMMA StepMaps ==
  ASSUME Core, DraftInv, Faults = {}, ~GcOn, [Next]_vars
  PROVE  [Exclusive!Next]_Exclusive!vars
  <1> NoCollector
    BY DEF NoCollector, gc_callback
  <1>1. ASSUME remote' = remote,
               \A p \in Path : Draft(p)' = Draft(p) /\ Holder(p)' = Holder(p)
        PROVE  UNCHANGED Exclusive!vars
    BY <1>1 DEF Exclusive!vars
  <1>2. ASSUME NEW h \in Handle, HandlerStep(h), ~Acts(h)
        PROVE  UNCHANGED Exclusive!vars
    BY <1>1, <1>2, RestFrame, SameCalm, SameDraft DEF Core
  <1>3. CASE OtherStep
    <2>1. UNCHANGED <<hash, cell, local, data, remote>>
      BY <1>3, OtherQuiet DEF Core
    <2> QED BY <1>1, <2>1 DEF Draft, Holder, CellOf
  <1>4. CASE UNCHANGED vars
    BY <1>1, <1>4 DEF vars, table, disk, store, Draft, Holder, CellOf
  <1> QED BY <1>2, <1>3, <1>4, ActsMap, NextSplit

(* No descriptor is ever opened read-only when all calls write.            *)
LEMMA OnlyWritable == WritersOnly /\ Spec => []WritableInv
  <1> SUFFICES ASSUME WritersOnly PROVE Spec => []WritableInv
    OBVIOUS
  <1>1. Init => WritableInv
    BY DEF Init, HashInit, WritableInv, pentry_free, pentry_new
  <1>2. TypeOK /\ WritableInv /\ [Next]_vars => WritableInv'
    BY WritableStep
  <1> QED BY <1>1, <1>2, TypeCorrect, PTL DEF Spec

(* open.c, write.c, release.c: when nothing fails, nothing is excluded,    *)
(* the collector is off and calls write, FileCache implements              *)
(* ExclusiveFile: writers of one file take turns, each starts from what    *)
(* the store has or from nothing, and none unlocks the file before the     *)
(* store has what it left in the cache.                                    *)
THEOREM Implements == Undisturbed /\ Spec => Exclusive!Spec
  <1> SUFFICES ASSUME Undisturbed PROVE Spec => Exclusive!Spec
    OBVIOUS
  <1>1. Faults = {} /\ Excluded = {} /\ ~GcOn /\ WritersOnly /\ LockWorks
    BY DEF Undisturbed, LockWorks
  <1>2. Spec => []Core
    <2>1. /\ Spec => []OpenHasFd
          /\ Spec => []LockInv
          /\ Spec => []NoFreeInv /\ []OwnCellInv /\ []KnownInv /\ []WritableInv
      BY <1>1, DescriptorThere, Locks, NoneFreed, OwnCells, Known, OnlyWritable, PTL
    <2> QED BY <2>1, TypeCorrect, PTL DEF Core
  <1>3. Init => DraftInv
    BY DraftInit
  <1>4. Core /\ TypeOK' /\ DraftInv /\ [Next]_vars => DraftInv'
    BY <1>1, DraftStep
  <1>5. Init => Exclusive!Init
    <2> SUFFICES ASSUME Init PROVE Exclusive!Init
      OBVIOUS
    <2>1. remote \in [Path -> {"old", NULL}] /\ \A p \in Path : hash[p] = NULL
      BY DEF Init, HashInit
    <2> QED BY <2>1 DEF Exclusive!Init, Draft, Holder
  <1>6. Core /\ DraftInv /\ [Next]_vars => [Exclusive!Next]_Exclusive!vars
    BY <1>1, StepMaps
  <1> QED BY <1>2, <1>3, <1>4, <1>5, <1>6, TypeCorrect, PTL DEF Spec, Exclusive!Spec
=============================================================================
