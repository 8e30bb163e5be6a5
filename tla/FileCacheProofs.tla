-------------------------- MODULE FileCacheProofs --------------------------
(***************************************************************************)
(* Proofs about FileCache, for any number of paths, handles, cells,        *)
(* inodes, workers and calls.                                              *)
(*                                                                         *)
(* First types, descriptors, mutexes, counts and freed cells.  After type  *)
(* correctness comes what a step of a handler can do at all, to other      *)
(* handles' variables and to the fields of the cells; then, from these     *)
(* frame lemmas, that each inductive invariant is kept.                    *)
(*                                                                         *)
(* Second, what handles read, write and send: theorems about the contents  *)
(* of the cache files and of the objects of FileCache, and, with one       *)
(* worker, about what the collector takes away.                            *)
(*                                                                         *)
(* Then the placeholders and the exclusion marks, when garbage collection  *)
(* is off: what a lookup may do to a file that others open and create      *)
(* meanwhile, and which files are kept from the store.  Both rest on the   *)
(* kernel, which holds a name while it looks it up or creates it, and on   *)
(* the table, where nothing is freed: two handlers that point to the same  *)
(* cell use the same path.                                                 *)
(***************************************************************************)
EXTENDS FileCache, FiniteSetTheorems, TLAPS

(* Names for sets of program counters are always unfolded.                 *)
USE DEF GetattrPc, OpenPc, ReleasePc, IdlePc, NoCellPc, CopyPc, Pc, DerefPc

-----------------------------------------------------------------------------
(* Type correctness.                                                       *)

(* A freshly allocated cell and a freed one are cells.                     *)
LEMMA PentryNewType == pentry_new \in Pentry /\ pentry_free \in Pentry
  BY DEF pentry_new, pentry_free, Pentry, Content

(* Replacing one cell of the table by a cell keeps the table well typed.   *)
LEMMA UpdateType ==
  ASSUME HashTypeOK, NEW x \in Pe, NEW r \in Pentry, Update(x, r), hash' = hash
  PROVE  HashTypeOK'
  BY DEF HashTypeOK, Update

(* So do g_hash_table_insert and g_hash_table_remove.                      *)
LEMMA HashOpsType ==
  ASSUME HashTypeOK, NEW p \in Path
  PROVE  /\ \A x \in Pe : hash_insert(p, x) => HashTypeOK'
         /\ hash_remove(p) => HashTypeOK'
  BY PentryNewType DEF HashTypeOK, hash_insert, hash_remove

(* open with O_CREAT and O_TRUNC keeps the cache directory well typed.     *)
LEMMA OpenTruncType ==
  ASSUME DiskTypeOK, NEW p \in Path, NEW i \in Inode, NEW d \in Content,
         OpenTrunc(p, i, d)
  PROVE  DiskTypeOK'
  BY DEF DiskTypeOK, OpenTrunc

(* What the pc of a handler says of its call and of its pointer.           *)
LEMMA AtPc ==
  ASSUME TypeOK, NEW h \in Handle
  PROVE  /\ pc[h] # "closed" => call[h] \in Call /\ PathOf(h) \in Path
         /\ pc[h] \notin NoCellPc => fh[h] \in Pe /\ cell[fh[h]] \in Pentry
  BY DEF TypeOK, HandleTypeOK, HashTypeOK, LocalsOK, PathOf, Call

(* The part of TypeOK about handles: what a handler's own step may disturb. *)
HandlesOK == HandleTypeOK /\ \A h \in Handle : LocalsOK(h)

(* The ways a handler ends, or goes on after a lookup or a failed open,    *)
(* keep the part of the state that belongs to handles well typed.          *)
LEMMA ReturnType ==
  ASSUME TypeOK, NEW h \in Handle, Return(h), remote' = remote
  PROVE  HandlesOK'
  BY PentryAssumption, FileCacheAssumption
  DEF TypeOK, HandlesOK, HandleTypeOK, LocalsOK, Return, Goto, PathOf

(* dfs_open returns -1: to the kernel, or to dfs_create which goes on.     *)
LEMMA OpenFailsType ==
  ASSUME TypeOK, NEW h \in Handle, OpenFails(h), remote' = remote,
         pc[h] \in OpenPc, pc[h] # "populate"
  PROVE  HandlesOK'
  <1>1. CASE Creating(h)
    BY <1>1, PentryAssumption, FileCacheAssumption
    DEF TypeOK, HandlesOK, HandleTypeOK, LocalsOK, OpenFails, Goto, PathOf
  <1>2. CASE ~Creating(h)
    BY <1>2, ReturnType DEF OpenFails
  <1> QED BY <1>1, <1>2

(* A lookup that finds its file keeps the type, and remembers the name.    *)
LEMMA FoundType ==
  ASSUME TypeOK, NEW h \in Handle, Found(h), remote' = remote,
         pc[h] \in {"stat", "mark"}
  PROVE  HandlesOK' /\ dentry' \subseteq Path
  <1>1. CASE call[h].acc = "stat"
    BY <1>1, ReturnType DEF Found, TypeOK, StoreTypeOK
  <1>2. CASE call[h].acc # "stat"
    <2>1. /\ call[h] \in Call /\ PathOf(h) \in Path
          /\ [call[h] EXCEPT !.flags = Flags(h) \ {"O_CREAT"}] \in Call
      BY AtPc DEF Call, Flags
    <2>2. PICK c \in Call : call' = [call EXCEPT ![h] = c]
      BY <1>2, <2>1 DEF Found, TypeOK, HandleTypeOK
    <2>3. /\ Goto(h, "open")
          /\ fh' = [fh EXCEPT ![h] = NULL]
          /\ UNCHANGED private
          /\ dentry' = dentry \cup {PathOf(h)}
      BY <1>2 DEF Found
    <2>4. HandleTypeOK' /\ dentry' \subseteq Path
      BY <2>1, <2>2, <2>3 DEF TypeOK, HandleTypeOK, StoreTypeOK, Goto, private
    <2>5. \A g \in Handle : LocalsOK(g)'
      BY <2>2, <2>3, FileCacheAssumption
      DEF TypeOK, HandleTypeOK, LocalsOK, Goto, PathOf, private
    <2> QED BY <2>4, <2>5 DEF HandlesOK
  <1> QED BY <1>1, <1>2

(* A lookup that does not find its file keeps the type.                    *)
LEMMA NotFoundType ==
  ASSUME TypeOK, NEW h \in Handle, NotFound(h), remote' = remote, pc[h] = "unset"
  PROVE  HandlesOK'
  <1>1. CASE call[h].acc # "stat" /\ Creating(h)
    BY <1>1, PentryAssumption, FileCacheAssumption
    DEF TypeOK, HandlesOK, HandleTypeOK, LocalsOK, NotFound, Goto, PathOf, private
  <1>2. CASE ~(call[h].acc # "stat" /\ Creating(h))
    BY <1>2, ReturnType DEF NotFound
  <1> QED BY <1>1, <1>2

(* The initial states are well typed.                                      *)
LEMMA InitType == Init => TypeOK
  BY PentryAssumption, PentryNewType
  DEF Init, TypeOK, HashInit, HashTypeOK, Content, DiskTypeOK, StoreTypeOK,
      HandleTypeOK, LocalsOK, GcTypeOK

(* The rest of TypeOK.                                                     *)
RestOK == HashTypeOK /\ DiskTypeOK /\ StoreTypeOK /\ GcTypeOK

(* Steps of the kernel.                                                    *)
LEMMA KernelType ==
  ASSUME TypeOK, NEW h \in Handle, NEW c \in Calls,
         KernelLookup(h, c) \/ KernelStat(h, c)
  PROVE  TypeOK'
  <1>1. CASE KernelLookup(h, c)
    <2>1. RestOK'
      BY <1>1, AtPc
      DEF KernelLookup, TypeOK, RestOK, HashTypeOK, DiskTypeOK, StoreTypeOK,
          GcTypeOK, table, disk, store, gcvars, Goto
    <2>2. HandlesOK'
      BY <1>1, AtPc, PentryAssumption, FileCacheAssumption
      DEF KernelLookup, TypeOK, HandlesOK, HandleTypeOK, LocalsOK, Goto, PathOf,
          private, store, table
    <2> QED BY <2>1, <2>2 DEF TypeOK, HandlesOK, RestOK
  <1>2. CASE KernelStat(h, c)
    <2>1. RestOK'
      BY <1>2, AtPc
      DEF KernelStat, TypeOK, RestOK, HashTypeOK, DiskTypeOK, StoreTypeOK, GcTypeOK,
          table, disk, store, gcvars, Goto
    <2>2. HandlesOK'
      BY <1>2, AtPc, PentryAssumption, FileCacheAssumption
      DEF KernelStat, TypeOK, HandlesOK, HandleTypeOK, LocalsOK, Goto, PathOf,
          private, store, table
    <2> QED BY <2>1, <2>2 DEF TypeOK, HandlesOK, RestOK
  <1> QED BY <1>1, <1>2 DEF Kernel

(* An open of a remembered name keeps the type.                            *)
LEMMA KernelOpenType ==
  ASSUME TypeOK, NEW h \in Handle, NEW c \in Calls, KernelOpen(h, c)
  PROVE  TypeOK'
  <1>1. PICK d \in Call : call' = [call EXCEPT ![h] = d]
    <2>1. [c EXCEPT !.flags = c.flags \ {"O_CREAT"}] \in Call
      BY FileCacheAssumption DEF Call
    <2> QED BY <2>1 DEF KernelOpen
  <1>2. RestOK'
    BY DEF KernelOpen, TypeOK, RestOK, HashTypeOK, DiskTypeOK, StoreTypeOK, GcTypeOK,
        table, disk, store, gcvars
  <1>3. /\ pc[h] = "closed" /\ Goto(h, "open")
        /\ UNCHANGED <<fh, lfd, etag, wrote, remote>>
    BY DEF KernelOpen, private, store
  <1>4. HandleTypeOK'
    BY <1>1, <1>3 DEF TypeOK, HandleTypeOK, Goto
  <1>5. \A g \in Handle : LocalsOK(g)'
    BY <1>1, <1>3, FileCacheAssumption DEF TypeOK, HandleTypeOK, LocalsOK, Goto, PathOf
  <1> QED BY <1>2, <1>4, <1>5 DEF TypeOK, RestOK

(* Steps of dfs_getattr.                                                   *)
LEMMA GetattrType ==
  ASSUME TypeOK, NEW h \in Handle, Getattr(h)
  PROVE  TypeOK'
  <1>1. CASE dfs_getattr(h)
    <2>1. RestOK'
      BY <1>1, AtPc
      DEF dfs_getattr, TypeOK, RestOK, HashTypeOK, DiskTypeOK, StoreTypeOK, GcTypeOK,
          table, disk, store, gcvars, Goto
    <2>2. HandlesOK'
      BY <1>1, AtPc, PentryAssumption, FileCacheAssumption
      DEF dfs_getattr, TypeOK, HandlesOK, HandleTypeOK, LocalsOK, Goto, PathOf,
          private, store, table, HashTypeOK
    <2> QED BY <2>1, <2>2 DEF TypeOK, HandlesOK, RestOK
  <1>2. CASE getattr_insert(h)
    <2>1. RestOK'
      BY <1>2, AtPc, HashOpsType
      DEF getattr_insert, TypeOK, RestOK, HashTypeOK, DiskTypeOK, StoreTypeOK,
          GcTypeOK, table, disk, store, gcvars, Goto
    <2>2. HandlesOK'
      BY <1>2, AtPc, PentryAssumption, FileCacheAssumption, ReturnType
      DEF getattr_insert, TypeOK, HandlesOK, HandleTypeOK, LocalsOK, Goto, PathOf,
          private, store, table
    <2> QED BY <2>1, <2>2 DEF TypeOK, HandlesOK, RestOK
  <1>3. CASE getattr_dispatch(h)
    <2>1. RestOK'
      BY <1>3, AtPc, FoundType
      DEF getattr_dispatch, TypeOK, RestOK, HashTypeOK, DiskTypeOK, StoreTypeOK,
          GcTypeOK, table, disk, store, gcvars, Goto, Return
    <2>2. HandlesOK'
      BY <1>3, AtPc, PentryAssumption, FileCacheAssumption, ReturnType, FoundType
      DEF getattr_dispatch, TypeOK, HandlesOK, HandleTypeOK, LocalsOK, Goto, PathOf,
          private, store, table
    <2> QED BY <2>1, <2>2 DEF TypeOK, HandlesOK, RestOK
  <1>4. CASE getattr_unset(h)
    <2>1. RestOK'
      BY <1>4, AtPc
      DEF getattr_unset, TypeOK, RestOK, HashTypeOK, DiskTypeOK, StoreTypeOK,
          GcTypeOK, table, disk, store, gcvars, Goto
    <2>2. HandlesOK'
      BY <1>4, AtPc, PentryAssumption, FileCacheAssumption, ReturnType,
          NotFoundType
          DEF getattr_unset, TypeOK, HandlesOK, HandleTypeOK, LocalsOK, Goto, PathOf,
              private, store, table
    <2> QED BY <2>1, <2>2 DEF TypeOK, HandlesOK, RestOK
  <1>5. CASE getattr_mark(h)
    <2>1. RestOK'
      <3>1. fh[h] \in Pe /\ cell[fh[h]] \in Pentry
        BY <1>5, AtPc DEF getattr_mark, TypeOK, HashTypeOK, HandleTypeOK, LocalsOK
      <3>2. [cell[fh[h]] EXCEPT !.ondisk = "FILE_REMOTE"] \in Pentry
        BY <3>1 DEF Pentry
      <3> QED BY <1>5, AtPc, <3>1, <3>2, FoundType, UpdateType
        DEF getattr_mark, TypeOK, RestOK, HashTypeOK, DiskTypeOK, StoreTypeOK,
            GcTypeOK, disk, store, gcvars, pentry_set_placeholder
    <2>2. HandlesOK'
      BY <1>5, AtPc, PentryAssumption, FileCacheAssumption, FoundType
      DEF getattr_mark, TypeOK, HandlesOK, HandleTypeOK, LocalsOK, Goto, PathOf,
          private, store, table
    <2> QED BY <2>1, <2>2 DEF TypeOK, HandlesOK, RestOK
  <1> QED BY <1>1, <1>2, <1>3, <1>4, <1>5 DEF Getattr

(* Steps of dfs_open up to the choice of the mode.                         *)
LEMMA OpenType1 ==
  ASSUME TypeOK, NEW h \in Handle,
         \/ dfs_open(h) \/ create_namei(h) \/ populate_hash(h) \/ open_incref(h)
         \/ open_lock(h) \/ open_creat(h) \/ open_existing(h)
  PROVE  TypeOK'
  <1>1. CASE dfs_open(h)
    <2>1. RestOK'
      BY <1>1, AtPc
      DEF dfs_open, TypeOK, RestOK, HashTypeOK, DiskTypeOK, StoreTypeOK, GcTypeOK,
          table, disk, store, gcvars, Goto
    <2>2. HandlesOK'
      BY <1>1, AtPc, PentryAssumption, FileCacheAssumption
      DEF dfs_open, TypeOK, HandlesOK, HandleTypeOK, LocalsOK, Goto, PathOf, private,
          store, table, HashTypeOK
    <2> QED BY <2>1, <2>2 DEF TypeOK, HandlesOK, RestOK
  <1>2. CASE populate_hash(h)
    <2>1. RestOK'
      BY <1>2, AtPc, HashOpsType
      DEF populate_hash, TypeOK, RestOK, HashTypeOK, DiskTypeOK, StoreTypeOK,
          GcTypeOK, table, disk, store, gcvars, Goto
    <2>2. HandlesOK'
      BY <1>2, AtPc, PentryAssumption, FileCacheAssumption, ReturnType
      DEF populate_hash, TypeOK, HandlesOK, HandleTypeOK, LocalsOK, Goto, PathOf,
          private, store, table
    <2> QED BY <2>1, <2>2 DEF TypeOK, HandlesOK, RestOK
  <1>3. CASE open_incref(h)
    <2>1. RestOK'
      BY <1>3, AtPc, UpdateType
      DEF open_incref, TypeOK, RestOK, HashTypeOK, DiskTypeOK, StoreTypeOK, GcTypeOK,
          table, disk, store, gcvars, Goto, Pentry, pentry_inc_refcount
    <2>2. HandlesOK'
      BY <1>3, AtPc, PentryAssumption, FileCacheAssumption
      DEF open_incref, TypeOK, HandlesOK, HandleTypeOK, LocalsOK, Goto, PathOf,
          private, store, table, FirstStep
    <2> QED BY <2>1, <2>2 DEF TypeOK, HandlesOK, RestOK
  <1>4. CASE open_lock(h)
    <2>1. RestOK'
      BY <1>4, AtPc, UpdateType
      DEF open_lock, TypeOK, RestOK, HashTypeOK, DiskTypeOK, StoreTypeOK, GcTypeOK,
          table, disk, store, gcvars, Goto, Pentry, pentry_dec_refcount, pentry_lock
    <2>2. HandlesOK'
      BY <1>4, AtPc, PentryAssumption, FileCacheAssumption, OpenFailsType
      DEF open_lock, TypeOK, HandlesOK, HandleTypeOK, LocalsOK, Goto, PathOf,
          private, store, table, FirstStep
    <2> QED BY <2>1, <2>2 DEF TypeOK, HandlesOK, RestOK
  <1>5. CASE open_creat(h)
    <2>1. HashTypeOK'
      <3>1. fh[h] \in Pe /\ cell[fh[h]] \in Pentry
        BY <1>5, AtPc DEF open_creat
      <3>2. CASE cell' = cell
        BY <1>5, <3>2 DEF open_creat, TypeOK, HashTypeOK
      <3>3. ASSUME NEW i \in Inode,
                   Update(fh[h], [cell[fh[h]] EXCEPT !.fd = [ino |-> i,
                   mode |-> "O_RDWR"],
                                                     !.flag = "FLAG_DIRTY"])
            PROVE  HashTypeOK'
        <4> DEFINE d == [ino |-> i, mode |-> "O_RDWR"]
        <4>1. d \in Descriptor
          BY DEF Descriptor
        <4>2. Update(fh[h], [cell[fh[h]] EXCEPT !.fd = d, !.flag = "FLAG_DIRTY"])
          BY <3>3
        <4> HIDE DEF d
        <4>3. [cell[fh[h]] EXCEPT !.fd = d, !.flag = "FLAG_DIRTY"] \in Pentry
          BY <3>1, <4>1 DEF Pentry
        <4> QED BY <1>5, <3>1, <4>2, <4>3, UpdateType DEF open_creat, TypeOK
      <3> QED BY <1>5, <3>2, <3>3 DEF open_creat
    <2>2. DiskTypeOK' /\ StoreTypeOK' /\ GcTypeOK'
      <3>1. PathOf(h) \in Path /\ "empty" \in Content
        BY <1>5, AtPc DEF open_creat, Content
      <3>2. DiskTypeOK'
        BY <1>5, <3>1, OpenTruncType DEF open_creat, TypeOK, DiskTypeOK, disk
      <3> QED BY <1>5, <3>2 DEF open_creat, TypeOK, StoreTypeOK, GcTypeOK, store, gcvars
    <2>3. HandlesOK'
      <3>1. CASE OpenFails(h) /\ remote' = remote
        BY <1>5, <3>1, OpenFailsType DEF open_creat
      <3>2. CASE Goto(h, "placeholder") /\ UNCHANGED <<call, fh, private, remote>>
        BY <1>5, <3>2
        DEF open_creat, TypeOK, HandlesOK, HandleTypeOK, LocalsOK, Goto, PathOf, private
      <3> QED BY <1>5, <3>1, <3>2 DEF open_creat, store
    <2> QED BY <2>1, <2>2, <2>3 DEF TypeOK, HandlesOK
  <1>6. CASE open_existing(h)
    <2>1. HashTypeOK'
      <3>1. fh[h] \in Pe /\ cell[fh[h]] \in Pentry
        BY <1>6, AtPc DEF open_existing
      <3>2. OpenFlag(h) \in {"FLAG_CLEAN", "FLAG_DIRTY"}
        BY <3>1 DEF OpenFlag, Pentry
      <3>3. CASE cell' = cell
        BY <1>6, <3>3 DEF open_existing, TypeOK, HashTypeOK
      <3>4. CASE Update(fh[h], [cell[fh[h]] EXCEPT !.flag = OpenFlag(h)])
        <4>1. [cell[fh[h]] EXCEPT !.flag = OpenFlag(h)] \in Pentry
          BY <3>1, <3>2 DEF Pentry
        <4> QED BY <1>6, <3>1, <3>4, <4>1, UpdateType DEF open_existing, TypeOK
      <3> QED BY <1>6, <3>3, <3>4 DEF open_existing
    <2>2. DiskTypeOK' /\ StoreTypeOK' /\ GcTypeOK'
      BY <1>6, AtPc
      DEF open_existing, TypeOK, DiskTypeOK, StoreTypeOK, GcTypeOK, table, disk,
          store, gcvars, Goto, OpenTrunc, Content
    <2>3. HandlesOK'
      BY <1>6, AtPc, PentryAssumption, FileCacheAssumption, ReturnType,
          OpenFailsType
          DEF open_existing, TypeOK, HandlesOK, HandleTypeOK, LocalsOK, Goto, PathOf,
              private, store, table, Pentry
    <2> QED BY <2>1, <2>2, <2>3 DEF TypeOK, HandlesOK
  <1>7. CASE create_namei(h)
    <2>1. RestOK'
      BY <1>7
      DEF create_namei, TypeOK, RestOK, HashTypeOK, DiskTypeOK, StoreTypeOK, GcTypeOK,
          table, disk, store, gcvars
    <2>2. HandlesOK'
      BY <1>7, ReturnType DEF create_namei, store
    <2> QED BY <2>1, <2>2 DEF TypeOK, HandlesOK, RestOK
  <1> QED BY <1>1, <1>2, <1>3, <1>4, <1>5, <1>6, <1>7 DEF Open

(* Steps of dfs_get_local_copy.                                            *)
LEMMA OpenType2 ==
  ASSUME TypeOK, NEW h \in Handle,
         \/ download_headers(h) \/ compare_digests(h) \/ copy_discard(h)
         \/ copy_download(h) \/ copy_fetch(h) \/ copy_reopen(h)
  PROVE  TypeOK'
  <1>1. CASE download_headers(h)
    <2>1. RestOK'
      BY <1>1, AtPc
      DEF download_headers, TypeOK, RestOK, HashTypeOK, DiskTypeOK, StoreTypeOK,
          GcTypeOK, table, disk, store, gcvars, Goto
    <2>2. HandlesOK'
      BY <1>1, AtPc, PentryAssumption, FileCacheAssumption, OpenFailsType
      DEF download_headers, TypeOK, HandlesOK, HandleTypeOK, LocalsOK, Goto, PathOf,
          private, store, table, StoreTypeOK
    <2> QED BY <2>1, <2>2 DEF TypeOK, HandlesOK, RestOK
  <1>2. CASE compare_digests(h)
    <2>1. HashTypeOK'
      <3>1. fh[h] \in Pe /\ cell[fh[h]] \in Pentry
        BY <1>2, AtPc DEF compare_digests
      <3>2. etag[h] \in Content
        BY <1>2 DEF compare_digests, TypeOK, HandleTypeOK, LocalsOK
      <3>3. CASE cell' = cell
        BY <1>2, <3>3 DEF compare_digests, TypeOK, HashTypeOK
      <3>4. ASSUME NEW e \in {etag[h], cell[fh[h]].digest},
                   Update(fh[h], [cell[fh[h]] EXCEPT !.digest = e])
            PROVE  HashTypeOK'
        <4>1. [cell[fh[h]] EXCEPT !.digest = e] \in Pentry
          BY <3>1, <3>2 DEF Pentry
        <4> QED BY <1>2, <3>1, <3>4, <4>1, UpdateType DEF compare_digests, TypeOK
      <3> QED BY <1>2, <3>3, <3>4 DEF compare_digests
    <2>2. DiskTypeOK' /\ StoreTypeOK' /\ GcTypeOK'
      BY <1>2, AtPc
      DEF compare_digests, TypeOK, DiskTypeOK, StoreTypeOK, GcTypeOK, table, disk,
          store, gcvars, Goto, OpenTrunc, Content
    <2>3. HandlesOK'
      BY <1>2, AtPc, PentryAssumption, FileCacheAssumption, ReturnType,
          OpenFailsType
          DEF compare_digests, TypeOK, HandlesOK, HandleTypeOK, LocalsOK, Goto,
              PathOf, private, store, table, Pentry
    <2> QED BY <2>1, <2>2, <2>3 DEF TypeOK, HandlesOK
  <1>3. CASE copy_discard(h)
    <2>1. RestOK'
      BY <1>3, AtPc
      DEF copy_discard, TypeOK, RestOK, HashTypeOK, DiskTypeOK, StoreTypeOK,
          GcTypeOK, table, disk, store, gcvars, Goto
    <2>2. HandlesOK'
      BY <1>3, AtPc, PentryAssumption, FileCacheAssumption
      DEF copy_discard, TypeOK, HandlesOK, HandleTypeOK, LocalsOK, Goto, PathOf,
          private, store, table
    <2> QED BY <2>1, <2>2 DEF TypeOK, HandlesOK, RestOK
  <1>4. CASE copy_download(h)
    <2>1. RestOK'
      BY <1>4, AtPc
      DEF copy_download, TypeOK, RestOK, HashTypeOK, DiskTypeOK, StoreTypeOK,
          GcTypeOK, table, disk, store, gcvars, Goto, OpenTrunc, Content
    <2>2. HandlesOK'
      BY <1>4, AtPc, PentryAssumption, FileCacheAssumption, OpenFailsType
      DEF copy_download, TypeOK, HandlesOK, HandleTypeOK, LocalsOK, Goto, PathOf,
          private, store, table, Descriptor
    <2> QED BY <2>1, <2>2 DEF TypeOK, HandlesOK, RestOK
  <1>5. CASE copy_fetch(h)
    <2>1. RestOK'
      BY <1>5, AtPc
      DEF copy_fetch, TypeOK, RestOK, HashTypeOK, DiskTypeOK, StoreTypeOK, GcTypeOK,
          table, disk, store, gcvars, Goto, HandleTypeOK, LocalsOK, Descriptor
    <2>2. HandlesOK'
      BY <1>5, AtPc, PentryAssumption, FileCacheAssumption, OpenFailsType
      DEF copy_fetch, TypeOK, HandlesOK, HandleTypeOK, LocalsOK, Goto, PathOf,
          private, store, table
    <2> QED BY <2>1, <2>2 DEF TypeOK, HandlesOK, RestOK
  <1>6. CASE copy_reopen(h)
    <2>1. RestOK'
      BY <1>6, AtPc
      DEF copy_reopen, TypeOK, RestOK, HashTypeOK, DiskTypeOK, StoreTypeOK, GcTypeOK,
          table, disk, store, gcvars, Goto
    <2>2. HandlesOK'
      BY <1>6, AtPc, PentryAssumption, FileCacheAssumption, OpenFailsType
      DEF copy_reopen, TypeOK, HandlesOK, HandleTypeOK, LocalsOK, Goto, PathOf,
          private, store, table, Descriptor, open_flags, DiskTypeOK
    <2> QED BY <2>1, <2>2 DEF TypeOK, HandlesOK, RestOK
  <1> QED BY <1>1, <1>2, <1>3, <1>4, <1>5, <1>6 DEF Open

(* The end of dfs_open, dfs_create and dfs_write.                          *)
LEMMA OpenType3 ==
  ASSUME TypeOK, NEW h \in Handle,
         \/ open_set_fd(h) \/ open_placeholder(h) \/ dfs_create(h)
         \/ create_mknod(h) \/ dfs_write(h)
  PROVE  TypeOK'
  <1>1. CASE open_set_fd(h)
    <2>1. HashTypeOK'
      <3>1. fh[h] \in Pe /\ cell[fh[h]] \in Pentry
        BY <1>1, AtPc DEF open_set_fd
      <3>2. lfd[h] \in Descriptor
        BY <1>1 DEF open_set_fd, TypeOK, HandleTypeOK, LocalsOK
      <3>3. OpenFlag(h) \in {"FLAG_CLEAN", "FLAG_DIRTY"}
        BY <3>1 DEF OpenFlag, Pentry
      <3>4. [cell[fh[h]] EXCEPT !.fd = lfd[h], !.flag = OpenFlag(h)] \in Pentry
        BY <3>1, <3>2, <3>3 DEF Pentry
      <3> QED BY <1>1, <3>1, <3>4, UpdateType DEF open_set_fd, TypeOK
    <2>2. DiskTypeOK' /\ StoreTypeOK' /\ GcTypeOK'
      BY <1>1, AtPc
      DEF open_set_fd, TypeOK, DiskTypeOK, StoreTypeOK, GcTypeOK, table, disk, store,
          gcvars, Goto, OpenTrunc, Content
    <2>3. HandlesOK'
      BY <1>1, AtPc, PentryAssumption, FileCacheAssumption, ReturnType,
          OpenFailsType
          DEF open_set_fd, TypeOK, HandlesOK, HandleTypeOK, LocalsOK, Goto, PathOf,
              private, store, table, Pentry
    <2> QED BY <2>1, <2>2, <2>3 DEF TypeOK, HandlesOK
  <1>2. CASE open_placeholder(h)
    <2>1. RestOK'
      BY <1>2, AtPc, UpdateType
      DEF open_placeholder, TypeOK, RestOK, HashTypeOK, DiskTypeOK, StoreTypeOK,
          GcTypeOK, table, disk, store, gcvars, Goto, Pentry, pentry_set_placeholder
    <2>2. HandlesOK'
      BY <1>2, AtPc, PentryAssumption, FileCacheAssumption
      DEF open_placeholder, TypeOK, HandlesOK, HandleTypeOK, LocalsOK, Goto, PathOf,
          private, store, table
    <2> QED BY <2>1, <2>2 DEF TypeOK, HandlesOK, RestOK
  <1>3. CASE dfs_create(h)
    <2>1. RestOK'
      BY <1>3, AtPc, UpdateType
      DEF dfs_create, TypeOK, RestOK, HashTypeOK, DiskTypeOK, StoreTypeOK, GcTypeOK,
          table, disk, store, gcvars, Goto, Pentry
    <2>2. HandlesOK'
      BY <1>3, AtPc, PentryAssumption, FileCacheAssumption, ReturnType
      DEF dfs_create, TypeOK, HandlesOK, HandleTypeOK, LocalsOK, Goto, PathOf,
          private, store, table
    <2> QED BY <2>1, <2>2 DEF TypeOK, HandlesOK, RestOK
  <1>4. CASE create_mknod(h)
    <2>1. "empty" \in Content /\ PathOf(h) \in Path
      BY <1>4, AtPc
      DEF create_mknod, TypeOK, HandleTypeOK, LocalsOK, DiskTypeOK, Descriptor, Content
    <2>2. RestOK'
      BY <1>4, <2>1
      DEF create_mknod, TypeOK, RestOK, HashTypeOK, DiskTypeOK, StoreTypeOK,
          GcTypeOK, table, disk, store, gcvars
    <2>3. CASE Return(h) /\ remote' = remote
      BY <2>2, <2>3, ReturnType DEF TypeOK, HandlesOK, RestOK
    <2>4. CASE /\ Goto(h, "opened") /\ UNCHANGED <<call, fh, private>>
               /\ remote' \in {remote, [remote EXCEPT ![PathOf(h)] = "empty"]}
      <3>1. HandleTypeOK'
        BY <2>4 DEF TypeOK, HandleTypeOK, Goto, private
      <3>2. \A p \in Path : remote[p] # NULL => remote'[p] # NULL
        BY <2>1, <2>4, PentryAssumption DEF TypeOK, StoreTypeOK
      <3>3. \A g \in Handle : LocalsOK(g)'
        BY <1>4, <2>4, <3>2
        DEF create_mknod, TypeOK, HandleTypeOK, LocalsOK, Goto, PathOf, private, Call
      <3> QED BY <2>2, <3>1, <3>3 DEF TypeOK, RestOK
    <2> QED BY <1>4, <2>3, <2>4 DEF create_mknod, store
  <1>5. CASE dfs_write(h)
    <2>1. RestOK'
      BY <1>5, AtPc
      DEF dfs_write, TypeOK, RestOK, HashTypeOK, DiskTypeOK, StoreTypeOK, GcTypeOK,
          table, disk, store, gcvars, Goto, Pentry, Descriptor, Content
    <2>2. HandlesOK'
      BY <1>5, AtPc, PentryAssumption, FileCacheAssumption
      DEF dfs_write, TypeOK, HandlesOK, HandleTypeOK, LocalsOK, Goto, PathOf,
          private, store, table
    <2> QED BY <2>1, <2>2 DEF TypeOK, HandlesOK, RestOK
  <1> QED BY <1>1, <1>2, <1>3, <1>4, <1>5 DEF Open

(* Steps of dfs_release, and of a handler that follows a freed pointer.    *)
LEMMA ReleaseType ==
  ASSUME TypeOK, NEW h \in Handle,
         dfs_release(h) \/ Release(h) \/ UseAfterFree(h)
  PROVE  TypeOK'
  <1>1. CASE dfs_release(h)
    <2>1. RestOK'
      BY <1>1, AtPc
      DEF dfs_release, TypeOK, RestOK, HashTypeOK, DiskTypeOK, StoreTypeOK, GcTypeOK,
          table, disk, store, gcvars, Goto
    <2>2. HandlesOK'
      BY <1>1, AtPc, PentryAssumption, FileCacheAssumption
      DEF dfs_release, TypeOK, HandlesOK, HandleTypeOK, LocalsOK, Goto, PathOf,
          private, store, table, Pentry
    <2> QED BY <2>1, <2>2 DEF TypeOK, HandlesOK, RestOK
  <1>2. CASE release_decref(h)
    <2>1. RestOK'
      <3>1. fh[h] \in Pe /\ cell[fh[h]] \in Pentry /\ cell[fh[h]].refcount > 0
        BY <1>2, AtPc
        DEF release_decref, TypeOK, HashTypeOK, HandleTypeOK, LocalsOK,
            pentry_dec_refcount
      <3>2. [cell[fh[h]] EXCEPT !.refcount = cell[fh[h]].refcount - 1] \in Pentry
        BY <3>1 DEF Pentry
      <3> QED BY <1>2, <3>1, <3>2, UpdateType
        DEF release_decref, TypeOK, RestOK, HashTypeOK, DiskTypeOK, StoreTypeOK,
            GcTypeOK, disk, store, gcvars, pentry_dec_refcount
    <2>2. HandlesOK'
      BY <1>2, AtPc, PentryAssumption, FileCacheAssumption, ReturnType
      DEF release_decref, TypeOK, HandlesOK, HandleTypeOK, LocalsOK, Goto, PathOf,
          private, store, table
    <2> QED BY <2>1, <2>2 DEF TypeOK, HandlesOK, RestOK
  <1>3. CASE release_send(h)
    <2>1. data[lfd[h].ino] \in Content /\ PathOf(h) \in Path
      BY <1>3, AtPc
      DEF release_send, TypeOK, HandleTypeOK, LocalsOK, DiskTypeOK, Descriptor, Content
    <2>2. RestOK'
      BY <1>3, <2>1
      DEF release_send, TypeOK, RestOK, HashTypeOK, DiskTypeOK, StoreTypeOK,
          GcTypeOK, table, disk, store, gcvars
    <2>3. CASE Return(h) /\ remote' = remote
      BY <2>2, <2>3, ReturnType DEF TypeOK, HandlesOK, RestOK
    <2>4. CASE /\ Goto(h, "clean") /\ UNCHANGED <<call, fh, private>>
               /\ remote' \in {remote, [remote EXCEPT ![PathOf(h)] = data[lfd[h].ino]]}
      <3>1. HandleTypeOK'
        BY <2>4 DEF TypeOK, HandleTypeOK, Goto, private
      <3>2. \A p \in Path : remote[p] # NULL => remote'[p] # NULL
        BY <2>1, <2>4, PentryAssumption DEF TypeOK, StoreTypeOK
      <3>3. \A g \in Handle : LocalsOK(g)'
        BY <1>3, <2>4, <3>2
        DEF release_send, TypeOK, HandleTypeOK, LocalsOK, Goto, PathOf, private, Call
      <3> QED BY <2>2, <3>1, <3>3 DEF TypeOK, RestOK
    <2> QED BY <1>3, <2>3, <2>4 DEF release_send, store
  <1>4. CASE release_clean(h)
    <2>1. HashTypeOK'
      <3>1. fh[h] \in Pe /\ cell[fh[h]] \in Pentry
        BY <1>4, AtPc DEF release_clean
      <3>2. [cell[fh[h]] EXCEPT !.flag = "FLAG_CLEAN", !.mutex = NULL] \in Pentry
        BY <3>1 DEF Pentry
      <3> QED BY <1>4, <3>1, <3>2, UpdateType DEF release_clean, TypeOK
    <2>2. DiskTypeOK' /\ StoreTypeOK' /\ GcTypeOK'
      BY <1>4, AtPc
      DEF release_clean, TypeOK, DiskTypeOK, StoreTypeOK, GcTypeOK, table, disk,
          store, gcvars, Goto, OpenTrunc, Content
    <2>3. HandlesOK'
      BY <1>4, AtPc, PentryAssumption, FileCacheAssumption, ReturnType,
          OpenFailsType
          DEF release_clean, TypeOK, HandlesOK, HandleTypeOK, LocalsOK, Goto, PathOf,
              private, store, table, Pentry
    <2> QED BY <2>1, <2>2, <2>3 DEF TypeOK, HandlesOK
  <1>5. CASE UseAfterFree(h)
    <2>1. RestOK'
      BY <1>5, AtPc
      DEF UseAfterFree, TypeOK, RestOK, HashTypeOK, DiskTypeOK, StoreTypeOK,
          GcTypeOK, table, disk, store, gcvars, Goto
    <2>2. HandlesOK'
      BY <1>5, AtPc, PentryAssumption, FileCacheAssumption
      DEF UseAfterFree, TypeOK, HandlesOK, HandleTypeOK, LocalsOK, Goto, PathOf,
          private, store, table
    <2> QED BY <2>1, <2>2 DEF TypeOK, HandlesOK, RestOK
  <1> QED BY <1>1, <1>2, <1>3, <1>4, <1>5 DEF Release

(* Steps of the collector, of the kernel's name cache and of time.         *)
LEMMA GcType ==
  ASSUME TypeOK,
         \/ GcStep
         \/ \E p \in Path : KernelForget(p) \/ gc_callback(p)
         \/ \E i \in Inode : Age(i)
  PROVE  TypeOK'
  <1>1. CASE gc_trylock
    <2>1. gcpe \in Pe /\ cell[gcpe] \in Pentry
      BY <1>1 DEF gc_trylock, TypeOK, HashTypeOK, GcTypeOK
    <2>2. HashTypeOK'
      <3>1. [cell[gcpe] EXCEPT !.mutex = Gc] \in Pentry
        BY <2>1 DEF Pentry
      <3> QED BY <1>1, <2>1, <3>1, UpdateType DEF gc_trylock, TypeOK, HashTypeOK, pentry_lock
    <2>3. GcTypeOK'
      BY <1>1, <2>1, PentryAssumption DEF gc_trylock, GcReturn, TypeOK, GcTypeOK
    <2>4. DiskTypeOK' /\ StoreTypeOK'
      BY <1>1 DEF gc_trylock, TypeOK, DiskTypeOK, StoreTypeOK, disk, store
    <2>5. HandleTypeOK' /\ \A h \in Handle : LocalsOK(h)'
      BY <1>1 DEF gc_trylock, TypeOK, HandleTypeOK, LocalsOK, PathOf, store, private
    <2> QED BY <2>2, <2>3, <2>4, <2>5 DEF TypeOK
  <1>2. CASE gc_check
    <2>1. gcpe \in Pe /\ cell[gcpe] \in Pentry
      BY <1>2 DEF gc_check, TypeOK, HashTypeOK, GcTypeOK
    <2>2. HashTypeOK'
      <3>1. [cell[gcpe] EXCEPT !.mutex = NULL] \in Pentry
        BY <2>1 DEF Pentry
      <3> QED BY <1>2, <2>1, <3>1, UpdateType DEF gc_check, TypeOK, HashTypeOK, pentry_unlock
    <2>3. GcTypeOK'
      BY <1>2, <2>1, PentryAssumption DEF gc_check, GcReturn, TypeOK, GcTypeOK
    <2>4. DiskTypeOK' /\ StoreTypeOK'
      BY <1>2 DEF gc_check, TypeOK, DiskTypeOK, StoreTypeOK, disk, store
    <2>5. HandleTypeOK' /\ \A h \in Handle : LocalsOK(h)'
      BY <1>2 DEF gc_check, TypeOK, HandleTypeOK, LocalsOK, PathOf, store, private
    <2> QED BY <2>2, <2>3, <2>4, <2>5 DEF TypeOK
  <1>3. CASE gc_unlink
    BY <1>3, PentryAssumption
    DEF gc_unlink, GcReturn, TypeOK, HashTypeOK, DiskTypeOK, StoreTypeOK, GcTypeOK,
        HandleTypeOK, LocalsOK, PathOf, table, disk, store, private, gcvars
  <1>4. CASE gc_remove
    BY <1>4, PentryAssumption, HashOpsType
    DEF gc_remove, GcReturn, TypeOK, HashTypeOK, DiskTypeOK, StoreTypeOK, GcTypeOK,
        HandleTypeOK, LocalsOK, PathOf, table, disk, store, private, gcvars
  <1>5. CASE \E p \in Path : KernelForget(p)
    BY <1>5, PentryAssumption
    DEF GcReturn, TypeOK, HashTypeOK, DiskTypeOK, StoreTypeOK, GcTypeOK,
        HandleTypeOK, LocalsOK, PathOf, table, disk, store, private, gcvars,
        KernelForget
  <1>6. CASE \E p \in Path : gc_callback(p)
    BY <1>6, PentryAssumption
    DEF GcReturn, TypeOK, HashTypeOK, DiskTypeOK, StoreTypeOK, GcTypeOK,
        HandleTypeOK, LocalsOK, PathOf, table, disk, store, private, gcvars, gc_callback
  <1>7. CASE \E i \in Inode : Age(i)
    BY <1>7, PentryAssumption
    DEF GcReturn, TypeOK, HashTypeOK, DiskTypeOK, StoreTypeOK, GcTypeOK,
        HandleTypeOK, LocalsOK, PathOf, table, disk, store, private, gcvars, Age
  <1> QED BY <1>1, <1>2, <1>3, <1>4, <1>5, <1>6, <1>7 DEF GcStep

(* Every step keeps the types.                                             *)
LEMMA TypeStep ==
  ASSUME TypeOK, [Next]_vars
  PROVE  TypeOK'
  <1>1. CASE \E h \in Handle : Kernel(h)
    BY <1>1, KernelType, KernelOpenType DEF Kernel
  <1>2. ASSUME NEW h \in Handle,
               \/ dfs_open(h) \/ create_namei(h) \/ Working(h)
               \/ dfs_write(h) \/ dfs_release(h)
        PROVE  TypeOK'
    BY <1>2, GetattrType, OpenType1, OpenType2, OpenType3, ReleaseType
    DEF Working, Open
  <1>3. CASE \/ GcStep
             \/ \E p \in Path : KernelForget(p) \/ gc_callback(p)
             \/ \E i \in Inode : Age(i)
    BY <1>3, GcType
  <1>4. CASE UNCHANGED vars
    BY <1>4
    DEF vars, TypeOK, HashTypeOK, DiskTypeOK, StoreTypeOK, GcTypeOK, HandleTypeOK,
              LocalsOK, PathOf, table, disk, store, private, gcvars
  <1> QED BY <1>1, <1>2, <1>3, <1>4 DEF Next

(* Every reachable state of the file cache is well typed: the pointers,    *)
(* descriptors and headers its handlers use are there when they use them.  *)
THEOREM TypeCorrect == Spec => []TypeOK
  <1>1. TypeOK /\ [Next]_vars => TypeOK'
    BY TypeStep
  <1> QED BY <1>1, InitType, PTL DEF Spec

-----------------------------------------------------------------------------
(* The inductive invariants of the safety theorems.                        *)

(* A writer that has the cell open owns its mutex, the collector owns the  *)
(* one of the cell it inspects, and only a writer reaches the end of       *)
(* dfs_release, where the mutex is unlocked.                               *)
LockInv ==
    /\ \A h \in Handle : pc[h] \in OwnerPc /\ Writer(h) /\ Live(fh[h])
                           => cell[fh[h]].mutex = h
    /\ \A h \in Handle : pc[h] \in {"send", "clean"} => call[h].acc # "O_RDONLY"
    /\ gcpc = "check" /\ Live(gcpe) => cell[gcpe].mutex = Gc

(* Without the collector a path that was looked up keeps its entry, so no  *)
(* open has to insert one, and a lookup that inserts one is alone with the *)
(* name: nothing is ever freed.                                            *)
NoFreeInv ==
    /\ gcpc = "idle"
    /\ \A h \in Handle : fh[h] # NULL => Live(fh[h])
    /\ \A p \in Path : hash[p] # NULL => Live(hash[p])
    /\ \A p \in dentry : hash[p] # NULL
    /\ \A h \in Handle :
        /\ pc[h] \notin {"populate", "undefined"}
        /\ pc[h] \notin {"closed", "getattr", "getattr_insert"}
               => hash[PathOf(h)] # NULL
        /\ call[h] # NULL /\ call[h].acc = "stat" => hash[PathOf(h)] # NULL
        /\ pc[h] = "getattr_insert" => hash[PathOf(h)] = NULL
    /\ \A g, h \in Handle :
        HoldsName(g) /\ HoldsName(h) /\ PathOf(g) = PathOf(h) => g = h

-----------------------------------------------------------------------------
(* The steps of handlers, and the others.                                  *)

USE DEF OwnerPc, CountedPc

HandlerStep(h) ==
    \/ dfs_open(h) \/ create_namei(h) \/ Working(h) \/ dfs_write(h) \/ dfs_release(h)

(* The steps outside the handlers: the kernel, the collector and time.     *)
OtherStep == \/ \E h \in Handle : Kernel(h)
             \/ \E p \in Path : KernelForget(p) \/ gc_callback(p)
             \/ GcStep
             \/ \E i \in Inode : Age(i)

(* Every step is one or the other.                                         *)
LEMMA NextSplit ==
  ASSUME Next
  PROVE  OtherStep \/ \E h \in Handle : HandlerStep(h)
  BY DEF Next, OtherStep, HandlerStep

-----------------------------------------------------------------------------
(* Frame lemmas.                                                           *)

(* A new cell and a freed one.                                             *)
LEMMA NewCell ==
  /\ pentry_new.state = "live" /\ pentry_free.state = "free"
  /\ pentry_new.mutex = NULL /\ pentry_new.refcount = 0
  /\ pentry_new.ondisk # "FILE_LOCAL" /\ pentry_free.ondisk # "FILE_LOCAL"
  BY DEF pentry_new, pentry_free

(* What inserting and removing an entry does to the cells.                 *)
LEMMA InsertCells ==
  ASSUME HashTypeOK, NEW p \in Path, NEW x \in Pe, hash_insert(p, x)
  PROVE  /\ cell'[x] = pentry_new
         /\ \A y \in Pe \ {x} : cell'[y] \in {cell[y], pentry_free}
         /\ \A y \in Pe \ {x} : y # hash[p] => cell'[y] = cell[y]
  BY DEF hash_insert, HashTypeOK

(* A removal frees one cell and leaves the others as they are.             *)
LEMMA RemoveCells ==
  ASSUME HashTypeOK, NEW p \in Path, hash_remove(p)
  PROVE  \A y \in Pe : cell'[y] \in {cell[y], pentry_free}
  BY DEF hash_remove, HashTypeOK

(* A handler changes its own variables only, and none of the collector's.  *)
LEMMA HandlerFrame ==
  ASSUME TypeOK, NEW h \in Handle, HandlerStep(h)
  PROVE  /\ UNCHANGED gcvars
         /\ \A g \in Handle \ {h} : /\ pc'[g] = pc[g]
                                    /\ fh'[g] = fh[g]
                                    /\ call'[g] = call[g]
  <1>1. CASE Getattr(h)
    BY <1>1
    DEF Getattr, dfs_getattr, getattr_insert, getattr_dispatch, getattr_unset,
        getattr_mark, Found, NotFound, Return, Goto, TypeOK, HandleTypeOK
  <1>2. CASE Open(h)
    BY <1>2
    DEF Open, populate_hash, open_incref, open_lock, open_creat, open_existing,
        download_headers, compare_digests, copy_discard, copy_download, copy_fetch,
        copy_reopen, open_set_fd, open_placeholder, dfs_create, create_mknod,
        OpenFails, Return, Goto, TypeOK, HandleTypeOK
  <1>3. CASE \/ Release(h) \/ UseAfterFree(h)
             \/ dfs_open(h) \/ create_namei(h) \/ dfs_write(h) \/ dfs_release(h)
    BY <1>3
    DEF Release, release_decref, release_send, release_clean, UseAfterFree, dfs_open, create_namei,
        dfs_write, dfs_release, Return, Goto, TypeOK, HandleTypeOK
  <1> QED BY <1>1, <1>2, <1>3 DEF HandlerStep, Working

(* Inserting an entry: the cell was nobody's, and whatever else happens to *)
(* a cell is that it is freed.                                             *)
LEMMA InsertFrame ==
  ASSUME TypeOK, NEW h \in Handle, getattr_insert(h) \/ populate_hash(h)
  PROVE  \/ /\ UNCHANGED table
            /\ pc'[h] = "closed" /\ fh'[h] = NULL
         \/ \E x \in Pe : /\ FreePe(x)
                          /\ hash_insert(PathOf(h), x)
                          /\ fh'[h] = x /\ call'[h] = call[h]
                          /\ pc'[h] = IF getattr_insert(h) THEN "stat" ELSE "incref"
  BY DEF getattr_insert, populate_hash, Return, Goto, table, TypeOK, HandleTypeOK

(* Apart from that no handler makes a cell live or frees one; only locking *)
(* and the end of a release change a mutex; a descriptor may be replaced   *)
(* but not taken away; only the end of an open makes a cell FILE_LOCAL.    *)
CellKept(h, x) ==
    /\ cell'[x].state = cell[x].state
    /\ cell'[x].mutex # cell[x].mutex
         => x = fh[h] /\ (open_lock(h) \/ release_clean(h))
    /\ cell'[x].refcount # cell[x].refcount
         => x = fh[h] /\ (open_incref(h) \/ open_lock(h) \/ release_decref(h))
    /\ cell'[x].fd = NULL => cell[x].fd = NULL
    /\ cell'[x].ondisk = "FILE_LOCAL"
         => \/ cell[x].ondisk = "FILE_LOCAL"
            \/ x = fh[h] /\ open_placeholder(h)

(* Only the steps of CellKept change what a handler's cell says.           *)
LEMMA CellFrame ==
  ASSUME TypeOK, NEW h \in Handle, HandlerStep(h),
         ~getattr_insert(h), ~populate_hash(h)
  PROVE  /\ hash' = hash
         /\ \A x \in Pe : CellKept(h, x)
  <1>1. hash' = hash
    BY DEF HandlerStep, Working, Getattr, Open, Release, dfs_getattr, getattr_dispatch,
        getattr_unset, getattr_mark, open_incref, open_lock, open_creat, open_existing,
        download_headers, compare_digests, copy_discard, copy_download, copy_fetch,
        copy_reopen, open_set_fd, open_placeholder, dfs_create, create_mknod,
        release_decref, release_send, release_clean, UseAfterFree, dfs_open, create_namei, dfs_write,
        dfs_release, table
  <1>2. CASE UNCHANGED cell
    BY <1>1, <1>2 DEF CellKept
  <1>3. CASE ~UNCHANGED cell
    <2>1. fh[h] \in Pe /\ cell[fh[h]] \in Pentry /\ cell \in [Pe -> Pentry]
      BY <1>3, AtPc
      DEF HandlerStep, Working, Getattr, Open, Release, dfs_getattr, getattr_dispatch,
          getattr_unset, getattr_mark, open_incref, open_lock, open_creat,
          open_existing, download_headers, compare_digests, copy_discard,
          copy_download, copy_fetch, copy_reopen, open_set_fd, open_placeholder,
          dfs_create, create_mknod, release_decref, release_send, release_clean,
          UseAfterFree, dfs_open, create_namei, dfs_write, dfs_release, table, TypeOK, HashTypeOK
    <2>2. CASE open_lock(h)
      <3>1. ASSUME NEW v, \/ Update(fh[h], [cell[fh[h]] EXCEPT !.mutex = v])
                          \/ Update(fh[h], [cell[fh[h]] EXCEPT !.refcount = v])
            PROVE  \A x \in Pe : CellKept(h, x)
        BY <2>1, <2>2, <3>1 DEF Update, Pentry, CellKept
      <3> QED BY <2>2, <3>1 DEF open_lock, pentry_lock, pentry_dec_refcount
    <2>3. CASE release_clean(h)
      <3>1. ASSUME NEW f, NEW m,
                   Update(fh[h], [cell[fh[h]] EXCEPT !.flag = f, !.mutex = m])
            PROVE  \A x \in Pe : CellKept(h, x)
        BY <2>1, <2>3, <3>1 DEF Update, Pentry, CellKept
      <3> QED BY <2>3, <3>1 DEF release_clean
    <2>4. CASE open_incref(h) \/ release_decref(h)
      BY <2>1, <2>4
      DEF open_incref, release_decref, pentry_inc_refcount, pentry_dec_refcount,
          Update, Pentry, CellKept
    <2>5. CASE getattr_mark(h) \/ open_placeholder(h)
      BY <2>1, <2>5
      DEF getattr_mark, open_placeholder, pentry_set_placeholder, Update, Pentry, CellKept
    <2>6. CASE open_creat(h) \/ open_set_fd(h)
      <3>1. ASSUME NEW d \in Descriptor, NEW f,
                   Update(fh[h], [cell[fh[h]] EXCEPT !.fd = d, !.flag = f])
            PROVE  \A x \in Pe : CellKept(h, x)
        BY <2>1, <3>1, PentryAssumption DEF Update, Pentry, CellKept
      <3>2. \A i \in Inode : [ino |-> i, mode |-> "O_RDWR"] \in Descriptor
        BY DEF Descriptor
      <3>3. open_set_fd(h) => lfd[h] \in Descriptor
        BY DEF open_set_fd, TypeOK, HandleTypeOK, LocalsOK
      <3> QED BY <1>3, <2>6, <3>1, <3>2, <3>3 DEF open_creat, open_set_fd
    <2>7. CASE open_existing(h) \/ compare_digests(h) \/ dfs_create(h)
      <3>1. ASSUME NEW v, \/ Update(fh[h], [cell[fh[h]] EXCEPT !.flag = v])
                          \/ Update(fh[h], [cell[fh[h]] EXCEPT !.digest = v])
                          \/ Update(fh[h], [cell[fh[h]] EXCEPT !.exclude = v])
            PROVE  \A x \in Pe : CellKept(h, x)
        BY <2>1, <3>1 DEF Update, Pentry, CellKept
      <3>2. CASE open_existing(h)
        BY <1>3, <3>2, <3>1 DEF open_existing
      <3>3. CASE compare_digests(h)
        BY <1>3, <3>3, <3>1 DEF compare_digests
      <3>4. CASE dfs_create(h)
        BY <1>3, <3>4, <3>1 DEF dfs_create
      <3> QED BY <2>7, <3>2, <3>3, <3>4
    <2>8. \A x \in Pe : CellKept(h, x)
      BY <1>3, <2>2, <2>3, <2>4, <2>5, <2>6, <2>7
      DEF HandlerStep, Working, Getattr, Open, Release, dfs_getattr, getattr_dispatch,
          getattr_unset, download_headers, copy_discard, copy_download, copy_fetch,
          copy_reopen, create_mknod, release_send, UseAfterFree, dfs_open, create_namei, dfs_write,
          dfs_release, table
    <2> QED BY <1>1, <2>8
  <1> QED BY <1>2, <1>3

(* How a handler gets to where it owns a mutex or is counted, and that it  *)
(* keeps its call and its pointer there.                                   *)
LEMMA HeldFrame ==
  ASSUME TypeOK, NEW h \in Handle, HandlerStep(h),
         pc'[h] \in OwnerPc \cup CountedPc
  PROVE  /\ fh'[h] = fh[h] /\ call'[h] = call[h]
         /\ pc'[h] \in OwnerPc => \/ pc[h] \in OwnerPc
                                  \/ open_lock(h)
                                  \/ open_incref(h) /\ ~NeedsLock(h)
         /\ pc'[h] \in CountedPc => pc[h] \in CountedPc \/ open_incref(h)
  <1>1. CASE Getattr(h)
    BY <1>1
    DEF Getattr, dfs_getattr, getattr_insert, getattr_dispatch, getattr_unset,
        getattr_mark, Found, NotFound, Return, Goto, TypeOK, HandleTypeOK
  <1>2. CASE open_incref(h)
    BY <1>2 DEF open_incref, FirstStep, Goto, TypeOK, HandleTypeOK
  <1>3. CASE open_lock(h)
    BY <1>3 DEF open_lock, OpenFails, Return, FirstStep, Goto, private, TypeOK,
                HandleTypeOK
  <1>4. CASE populate_hash(h) \/ open_creat(h) \/ open_existing(h)
    BY <1>4
    DEF populate_hash, open_creat, open_existing, OpenFails, Return, Goto, TypeOK,
        HandleTypeOK
  <1>5. CASE \/ download_headers(h) \/ compare_digests(h) \/ copy_discard(h)
             \/ copy_download(h) \/ copy_fetch(h) \/ copy_reopen(h)
    BY <1>5
    DEF download_headers, compare_digests, copy_discard, copy_download, copy_fetch,
        copy_reopen, OpenFails, Return, Goto, TypeOK, HandleTypeOK
  <1>6. CASE open_set_fd(h) \/ open_placeholder(h) \/ dfs_create(h) \/ create_mknod(h)
    BY <1>6
    DEF open_set_fd, open_placeholder, dfs_create, create_mknod, Return, Goto, TypeOK,
        HandleTypeOK
  <1>7. CASE \/ Release(h) \/ UseAfterFree(h)
             \/ dfs_open(h) \/ create_namei(h) \/ dfs_write(h) \/ dfs_release(h)
    BY <1>7
    DEF Release, release_decref, release_send, release_clean, UseAfterFree, dfs_open, create_namei,
        dfs_write, dfs_release, Return, Goto, TypeOK, HandleTypeOK
  <1> QED
    BY <1>1, <1>2, <1>3, <1>4, <1>5, <1>6, <1>7 DEF HandlerStep, Working, Open

(* The kernel, the collector and time: no handler gets anywhere where it   *)
(* has a pointer, and cells change only by the collector's lock, its       *)
(* unlock and its removal.                                                 *)
LEMMA OtherFrame ==
  ASSUME TypeOK, OtherStep
  PROVE  /\ fh' = fh
         /\ \A h \in Handle : \/ pc'[h] \in {"getattr", "open"}
                              \/ pc'[h] = pc[h] /\ call'[h] = call[h]
         /\ \A x \in Pe :
              \/ cell'[x].state = "free" /\ cell'[x].ondisk # "FILE_LOCAL"
              \/ /\ cell'[x].state = cell[x].state
                 /\ cell'[x].refcount = cell[x].refcount
                 /\ cell'[x].fd = cell[x].fd
                 /\ cell'[x].ondisk = cell[x].ondisk
                 /\ \/ cell'[x].mutex = cell[x].mutex
                    \/ cell[x].mutex = NULL /\ cell'[x].mutex = Gc
                    \/ gcpc = "check" /\ gcpe = x
         /\ gcpc' = "check" => gcpe' \in Pe
  <1>1. CASE \E h \in Handle : Kernel(h)
    BY <1>1, AtPc
    DEF Kernel, KernelLookup, KernelStat, KernelOpen, Goto, table, gcvars, TypeOK,
        HandleTypeOK, GcTypeOK
  <1>2. CASE \/ \E p \in Path : KernelForget(p) \/ gc_callback(p)
             \/ gc_unlink
             \/ \E i \in Inode : Age(i)
    BY <1>2 DEF KernelForget, gc_callback, gc_unlink, Age, table,
                gcvars, TypeOK, GcTypeOK
  <1>3. CASE gc_trylock \/ gc_check
    <2>1. gcpe \in Pe /\ cell \in [Pe -> Pentry]
      BY <1>3 DEF gc_trylock, gc_check, TypeOK, GcTypeOK, HashTypeOK
    <2>2. /\ UNCHANGED <<pc, call, fh>>
          /\ gcpc' = "check" => gcpe' \in Pe
      BY <1>3, <2>1 DEF gc_trylock, gc_check, GcReturn
    <2>3. ASSUME NEW m, Update(gcpe, [cell[gcpe] EXCEPT !.mutex = m])
          PROVE  \A x \in Pe : /\ cell'[x].state = cell[x].state
                               /\ cell'[x].refcount = cell[x].refcount
                               /\ cell'[x].fd = cell[x].fd
                               /\ cell'[x].ondisk = cell[x].ondisk
                               /\ cell'[x].mutex = IF x = gcpe THEN m ELSE cell[x].mutex
      BY <2>1, <2>3 DEF Update, Pentry
    <2>4. CASE UNCHANGED cell
      BY <2>2, <2>4
    <2>5. CASE gc_trylock /\ pentry_lock(gcpe, Gc)
      BY <2>2, <2>3, <2>5 DEF pentry_lock
    <2>6. CASE gc_check /\ pentry_unlock(gcpe)
      BY <2>2, <2>3, <2>6 DEF gc_check, pentry_unlock
    <2> QED BY <1>3, <2>4, <2>5, <2>6 DEF gc_trylock, gc_check
  <1>4. CASE gc_remove
    <2>1. gcpath \in Path /\ HashTypeOK
      BY <1>4 DEF gc_remove, TypeOK, GcTypeOK
    <2> QED
      BY <1>4, <2>1, RemoveCells, NewCell DEF gc_remove, GcReturn
  <1> QED BY <1>1, <1>2, <1>3, <1>4 DEF OtherStep, GcStep

-----------------------------------------------------------------------------
(* A descriptor for every open handle.                                     *)

(* Whoever gets past the open of the cache file leaves a descriptor.       *)
LEMMA FdFrame ==
  ASSUME TypeOK, NEW h \in Handle, HandlerStep(h),
         pc'[h] \in {"placeholder", "mknod", "opened", "decref"}
  PROVE  \/ pc[h] \in {"placeholder", "mknod", "opened", "decref"}
         \/ cell'[fh[h]].fd # NULL
  <1>1. CASE open_creat(h) \/ open_set_fd(h)
    <2>1. fh[h] \in Pe /\ cell[fh[h]] \in Pentry /\ cell \in [Pe -> Pentry]
      BY <1>1, AtPc DEF open_creat, open_set_fd, TypeOK, HashTypeOK
    <2>2. ASSUME NEW d \in Descriptor, NEW f,
                 Update(fh[h], [cell[fh[h]] EXCEPT !.fd = d, !.flag = f])
          PROVE  cell'[fh[h]].fd # NULL
      BY <2>1, <2>2, PentryAssumption DEF Update, Pentry
    <2>3. \A i \in Inode : [ino |-> i, mode |-> "O_RDWR"] \in Descriptor
      BY DEF Descriptor
    <2>4. open_set_fd(h) => lfd[h] \in Descriptor
      BY DEF open_set_fd, TypeOK, HandleTypeOK, LocalsOK
    <2>5. open_creat(h) => ~OpenFails(h)
      BY DEF OpenFails, Return, Goto, TypeOK, HandleTypeOK
    <2> QED BY <1>1, <2>2, <2>3, <2>4, <2>5 DEF open_creat, open_set_fd
  <1>2. CASE open_existing(h) \/ dfs_create(h)
    <2>1. fh[h] \in Pe /\ cell[fh[h]].fd # NULL
      BY <1>2, AtPc
      DEF open_existing, dfs_create, Return, Goto, TypeOK, HandleTypeOK
    <2>2. ~getattr_insert(h) /\ ~populate_hash(h)
      BY <1>2 DEF open_existing, dfs_create, getattr_insert, populate_hash
    <2> QED BY <2>1, <2>2, CellFrame DEF CellKept
  <1>3. CASE Getattr(h) \/ populate_hash(h) \/ open_incref(h) \/ open_lock(h)
    BY <1>3
    DEF Getattr, dfs_getattr, getattr_insert, getattr_dispatch, getattr_unset,
        getattr_mark, Found, NotFound, populate_hash, open_incref, open_lock,
        FirstStep, OpenFails, Return, Goto, TypeOK, HandleTypeOK
  <1>4. CASE \/ download_headers(h) \/ compare_digests(h) \/ copy_discard(h)
             \/ copy_download(h) \/ copy_fetch(h) \/ copy_reopen(h)
    BY <1>4
    DEF download_headers, compare_digests, copy_discard, copy_download, copy_fetch,
        copy_reopen, OpenFails, Return, Goto, TypeOK, HandleTypeOK
  <1>5. CASE \/ open_placeholder(h) \/ create_mknod(h) \/ Release(h) \/ UseAfterFree(h)
             \/ dfs_open(h) \/ create_namei(h) \/ dfs_write(h) \/ dfs_release(h)
    BY <1>5
    DEF open_placeholder, create_mknod, Release, release_decref, release_send,
        release_clean, UseAfterFree, dfs_open, create_namei, dfs_write, dfs_release, Return, Goto,
        TypeOK, HandleTypeOK
  <1> QED
    BY <1>1, <1>2, <1>3, <1>4, <1>5 DEF HandlerStep, Working, Open

(* Every step keeps the descriptors where they are needed.                 *)
LEMMA FdStep ==
  ASSUME TypeOK, OpenHasFd, [Next]_vars
  PROVE  OpenHasFd'
  <1>0. \A h \in Handle : pc[h] \notin NoCellPc => fh[h] \in Pe
    BY AtPc
  <1>1. CASE UNCHANGED vars
    BY <1>1 DEF vars, table, OpenHasFd, Live
  <1>2. CASE OtherStep
    BY <1>0, <1>2, OtherFrame DEF OpenHasFd, Live
  <1>3. ASSUME NEW h \in Handle, getattr_insert(h) \/ populate_hash(h)
        PROVE  OpenHasFd'
    <2>1. HandlerStep(h) /\ PathOf(h) \in Path /\ HashTypeOK
      BY <1>3, AtPc DEF HandlerStep, Working, Getattr, Open, getattr_insert,
                        populate_hash, TypeOK
    <2>2. CASE UNCHANGED table /\ pc'[h] = "closed"
      BY <1>0, <2>1, <2>2, HandlerFrame DEF OpenHasFd, Live, table
    <2>3. ASSUME NEW x \in Pe, FreePe(x), hash_insert(PathOf(h), x),
                 pc'[h] \in {"stat", "incref"}
          PROVE  OpenHasFd'
      BY <1>0, <2>1, <2>3, HandlerFrame, InsertCells, NewCell
      DEF OpenHasFd, Live, FreePe
    <2> QED BY <1>3, <2>2, <2>3, InsertFrame
  <1>4. ASSUME NEW h \in Handle, HandlerStep(h), ~getattr_insert(h), ~populate_hash(h)
        PROVE  OpenHasFd'
    <2>1. /\ \A x \in Pe : CellKept(h, x)
          /\ \A g \in Handle \ {h} : pc'[g] = pc[g] /\ fh'[g] = fh[g]
      BY <1>4, CellFrame, HandlerFrame
    <2>2. pc'[h] \in {"placeholder", "mknod", "opened", "decref"} =>
              /\ fh'[h] = fh[h]
              /\ \/ pc[h] \in {"placeholder", "mknod", "opened", "decref"}
                 \/ cell'[fh[h]].fd # NULL
      BY <1>4, HeldFrame, FdFrame
    <2>3. open_placeholder(h) => /\ fh[h] \in Pe
                                 /\ cell[fh[h]].fd # NULL
      BY <1>0 DEF open_placeholder, OpenHasFd
    <2>4. \A x \in Pe : cell'[x].ondisk = "FILE_LOCAL" => cell'[x].fd # NULL
      BY <2>1, <2>3 DEF CellKept, OpenHasFd
    <2>5. ASSUME NEW g \in Handle, cell'[fh'[g]].state = "live",
                 pc'[g] \in {"placeholder", "mknod", "opened", "decref"}
          PROVE  cell'[fh'[g]].fd # NULL
      <3>1. CASE g = h
        <4>1. pc[h] \notin NoCellPc => fh[h] \in Pe
          BY <1>0
        <4>2. pc[h] \notin NoCellPc
          BY <1>4, <2>2, <2>5, <3>1, HeldFrame DEF open_incref, open_lock
        <4> QED BY <2>1, <2>2, <2>5, <3>1, <4>1, <4>2 DEF CellKept, OpenHasFd, Live
      <3>2. CASE g # h
        BY <1>0, <2>1, <2>5, <3>2 DEF CellKept, OpenHasFd, Live
      <3> QED BY <3>1, <3>2
    <2> QED BY <2>4, <2>5 DEF OpenHasFd, Live
  <1> QED BY <1>1, <1>2, <1>3, <1>4, NextSplit

(* In every reachable state, for any calls, faults and interleaving, an    *)
(* open handle finds a descriptor in its cell, and so does whoever reads   *)
(* FILE_LOCAL in a placeholder.                                            *)
THEOREM DescriptorThere == Spec => []OpenHasFd
  <1>1. Init => OpenHasFd
    BY NewCell DEF Init, OpenHasFd, HashInit
  <1>2. TypeOK /\ OpenHasFd /\ [Next]_vars => OpenHasFd'
    BY FdStep
  <1> QED BY <1>1, <1>2, TypeCorrect, PTL DEF Spec

-----------------------------------------------------------------------------
(* Writers exclude each other.                                             *)

(* pthread_mutex_lock and fstat do not fail.                               *)
LockWorks == Faults \cap {"lock", "fstat"} = {}

(* A file whose access mode is not read-only is opened in a mode that      *)
(* locks the cell: whoever dfs_release makes unlock has locked.            *)
LEMMA AccWriter ==
  ASSUME NEW h \in Handle, call[h] \in Call, call[h].acc # "O_RDONLY"
  PROVE  Writer(h)
  BY FileCacheAssumption DEF Writer, NeedsLock, Mode, get_mode_from_flags

(* A handler comes to the last steps of a release only when the access     *)
(* mode is not read-only.                                                  *)
LEMMA ReleaseFrame ==
  ASSUME TypeOK, OpenHasFd, LockWorks, NEW h \in Handle, HandlerStep(h),
         pc'[h] \in {"send", "clean"}
  PROVE  pc[h] \in {"send", "clean"} \/ call[h].acc # "O_RDONLY"
  <1>1. CASE dfs_release(h)
    BY <1>1 DEF dfs_release, OpenHasFd, LockWorks, Goto, TypeOK, HandleTypeOK
  <1>2. CASE release_decref(h)
    BY <1>2 DEF release_decref, ReadOnlyRelease, Return, Goto, TypeOK, HandleTypeOK
  <1>3. CASE Getattr(h)
    BY <1>3
    DEF Getattr, dfs_getattr, getattr_insert, getattr_dispatch, getattr_unset,
        getattr_mark, Found, NotFound, Return, Goto, TypeOK, HandleTypeOK
  <1>4. CASE Open(h)
    BY <1>4
    DEF Open, populate_hash, open_incref, open_lock, open_creat, open_existing,
        download_headers, compare_digests, copy_discard, copy_download, copy_fetch,
        copy_reopen, open_set_fd, open_placeholder, dfs_create, create_mknod,
        FirstStep, OpenFails, Return, Goto, TypeOK, HandleTypeOK
  <1>5. CASE \/ release_send(h) \/ release_clean(h) \/ UseAfterFree(h)
             \/ dfs_open(h) \/ create_namei(h) \/ dfs_write(h)
    BY <1>5
    DEF release_send, release_clean, UseAfterFree, dfs_open, create_namei, dfs_write, Return, Goto,
        TypeOK, HandleTypeOK
  <1> QED BY <1>1, <1>2, <1>3, <1>4, <1>5 DEF HandlerStep, Working, Release

(* The steps of a handler keep LockInv.                                    *)
LEMMA LockHandle ==
  ASSUME TypeOK, OpenHasFd, LockWorks, LockInv, NEW h \in Handle, HandlerStep(h)
  PROVE  LockInv'
  <1>1. /\ UNCHANGED gcvars
        /\ \A g \in Handle \ {h} : /\ pc'[g] = pc[g] /\ fh'[g] = fh[g]
                                   /\ call'[g] = call[g]
                                   /\ Writer(g)' <=> Writer(g)
    BY HandlerFrame DEF Writer, NeedsLock, Mode
  <1>2. \A g \in Handle : pc[g] \in OwnerPc => fh[g] \in Pe
    BY AtPc
  <1>3. pc'[h] \in OwnerPc =>
          /\ fh'[h] = fh[h] /\ call'[h] = call[h] /\ (Writer(h)' <=> Writer(h))
          /\ fh[h] \in Pe
    BY HeldFrame, AtPc DEF Writer, NeedsLock, Mode, open_lock, open_incref
  <1>4. \A g \in Handle : pc'[g] \in {"send", "clean"} => call'[g].acc # "O_RDONLY"
    BY <1>1, <1>3, ReleaseFrame DEF LockInv
  <1>5. gcpc = "check" => gcpe \in Pe
    BY DEF TypeOK, GcTypeOK
  <1>6. CASE getattr_insert(h) \/ populate_hash(h)
    <2>1. PathOf(h) \in Path /\ HashTypeOK
      BY <1>6, AtPc DEF getattr_insert, populate_hash, TypeOK
    <2>2. CASE UNCHANGED table /\ pc'[h] = "closed"
      BY <1>1, <1>2, <1>4, <2>2 DEF LockInv, Live, table, gcvars
    <2>3. ASSUME NEW x \in Pe, FreePe(x), hash_insert(PathOf(h), x),
                 pc'[h] \in {"stat", "incref"}
          PROVE  LockInv'
      <3>1. \A y \in Pe : y # x /\ cell'[y].state = "live" => cell'[y] = cell[y]
        BY <2>1, <2>3, InsertCells, NewCell
      <3> QED BY <1>1, <1>2, <1>4, <1>5, <2>3, <3>1 DEF LockInv, Live, gcvars, FreePe
    <2> QED BY <1>6, <2>2, <2>3, InsertFrame
  <1>7. CASE ~getattr_insert(h) /\ ~populate_hash(h)
    <2>1. \A x \in Pe : CellKept(h, x)
      BY <1>7, CellFrame
    <2>2. CASE open_lock(h)
      <3>1. /\ pc[h] = "lock" /\ pc'[h] \in {"creat", "existing"}
            /\ pentry_lock(fh[h], h)
        BY <2>2 DEF open_lock, LockWorks, FirstStep, Goto, TypeOK, HandleTypeOK
      <3>2. fh[h] \in Pe /\ cell[fh[h]] \in Pentry
        BY <3>1, AtPc
      <3>3. cell[fh[h]].mutex = NULL /\ cell'[fh[h]].mutex = h
        BY <3>1, <3>2 DEF pentry_lock, Update, TypeOK, HashTypeOK, Pentry
      <3>4. \A g \in Handle : pc[g] \in OwnerPc /\ Writer(g) /\ Live(fh[g])
                                => fh[g] # fh[h]
        BY <3>3, PentryAssumption DEF LockInv
      <3>5. gcpc = "check" /\ Live(gcpe) => gcpe # fh[h]
        BY <3>3, PentryAssumption DEF LockInv
      <3>6. \A x \in Pe : /\ cell'[x].state = cell[x].state
                          /\ x # fh[h] => cell'[x].mutex = cell[x].mutex
        BY <2>1 DEF CellKept
      <3>7. \A g \in Handle : pc'[g] \in OwnerPc /\ Writer(g)' /\ cell'[fh'[g]].state = "live"
                                => cell'[fh'[g]].mutex = g
        <4> SUFFICES ASSUME NEW g \in Handle, pc'[g] \in OwnerPc, Writer(g)',
                            cell'[fh'[g]].state = "live"
                     PROVE  cell'[fh'[g]].mutex = g
          OBVIOUS
        <4>1. CASE g = h
          BY <1>3, <3>1, <3>3, <4>1
        <4>2. CASE g # h
          BY <1>1, <1>2, <3>4, <3>6, <4>2 DEF LockInv, Live
        <4> QED BY <4>1, <4>2
      <3>8. gcpc' = "check" /\ cell'[gcpe'].state = "live" => cell'[gcpe'].mutex = Gc
        BY <1>1, <1>5, <3>5, <3>6 DEF LockInv, Live, gcvars
      <3> QED BY <1>4, <3>7, <3>8 DEF LockInv, Live
    <2>3. CASE release_clean(h)
      <3>1. pc[h] = "clean" /\ pc'[h] = "closed" /\ Live(fh[h])
        BY <2>3 DEF release_clean, Return, Goto, TypeOK, HandleTypeOK
      <3>2. cell[fh[h]].mutex = h
        BY <3>1, AtPc, AccWriter DEF LockInv
      <3>3. \A x \in Pe : /\ cell'[x].state = cell[x].state
                          /\ x # fh[h] => cell'[x].mutex = cell[x].mutex
        BY <2>1 DEF CellKept
      <3>4. \A g \in Handle \ {h} : pc[g] \in OwnerPc /\ Writer(g) /\ Live(fh[g])
                                      => fh[g] # fh[h]
        BY <3>2 DEF LockInv
      <3>5. gcpc = "check" /\ Live(gcpe) => gcpe # fh[h]
        BY <3>2, PentryAssumption DEF LockInv
      <3> QED
        BY <1>1, <1>2, <1>4, <1>5, <3>1, <3>3, <3>4, <3>5 DEF LockInv, Live, gcvars
    <2>4. CASE ~open_lock(h) /\ ~release_clean(h)
      <3>1. \A x \in Pe : /\ cell'[x].state = cell[x].state
                          /\ cell'[x].mutex = cell[x].mutex
        BY <2>1, <2>4 DEF CellKept
      <3>2. pc'[h] \in OwnerPc /\ Writer(h) => pc[h] \in OwnerPc
        BY <2>4, HeldFrame DEF Writer
      <3> QED
        BY <1>1, <1>2, <1>3, <1>4, <1>5, <3>1, <3>2 DEF LockInv, Live, gcvars
    <2> QED BY <2>2, <2>3, <2>4
  <1> QED BY <1>6, <1>7

(* So do the kernel, the collector and time.                               *)
LEMMA LockOther ==
  ASSUME TypeOK, LockInv, OtherStep
  PROVE  LockInv'
  <1>1. \A h \in Handle : pc[h] \in OwnerPc => fh[h] \in Pe
    BY AtPc
  <1>2. \A h \in Handle : pc'[h] \in OwnerPc =>
            /\ pc[h] \in OwnerPc /\ pc'[h] = pc[h] /\ fh'[h] = fh[h]
            /\ call'[h] = call[h] /\ (Writer(h)' <=> Writer(h))
    BY OtherFrame DEF Writer, NeedsLock, Mode
  <1>3. gcpc' = "check" /\ cell'[gcpe'].state = "live" => cell'[gcpe'].mutex = Gc
    <2>1. CASE gc_trylock
      <3>1. gcpe \in Pe /\ cell \in [Pe -> Pentry]
        BY <2>1 DEF gc_trylock, TypeOK, GcTypeOK, HashTypeOK
      <3>2. pentry_lock(gcpe, Gc) => cell'[gcpe].mutex = Gc
        BY <3>1 DEF pentry_lock, Update, Pentry
      <3> QED BY <2>1, <3>2 DEF gc_trylock, GcReturn
    <2>2. CASE \E h \in Handle : Kernel(h)
      BY <2>2 DEF Kernel, KernelLookup, KernelStat, KernelOpen, table, gcvars, LockInv,
                  Live
    <2>3. CASE \/ \E p \in Path : KernelForget(p) \/ gc_callback(p)
               \/ \E i \in Inode : Age(i)
      BY <2>3 DEF KernelForget, gc_callback, Age, table, gcvars, LockInv, Live
    <2>4. CASE gc_check \/ gc_unlink \/ gc_remove
      BY <2>4 DEF gc_check, gc_unlink, gc_remove, GcReturn, table
    <2> QED BY <2>1, <2>2, <2>3, <2>4 DEF OtherStep, GcStep
  <1>4. ASSUME NEW h \in Handle, pc'[h] \in OwnerPc, Writer(h)',
               cell'[fh'[h]].state = "live"
        PROVE  cell'[fh'[h]].mutex = h
    <2>1. /\ fh[h] \in Pe /\ fh'[h] = fh[h] /\ Live(fh[h]) /\ cell[fh[h]].mutex = h
          /\ \/ cell'[fh[h]].mutex = cell[fh[h]].mutex
             \/ cell[fh[h]].mutex = NULL
             \/ gcpc = "check" /\ gcpe = fh[h]
      BY <1>1, <1>2, <1>4, OtherFrame DEF LockInv, Live
    <2> QED BY <2>1, PentryAssumption DEF LockInv
  <1> QED BY <1>2, <1>3, <1>4 DEF LockInv, Live

(* Every step keeps LockInv.                                               *)
LEMMA LockStep ==
  ASSUME LockWorks, TypeOK, OpenHasFd, LockInv, [Next]_vars
  PROVE  LockInv'
  <1>1. CASE UNCHANGED vars
    BY <1>1 DEF vars, table, gcvars, LockInv, Live, Writer, NeedsLock, Mode
  <1> QED BY <1>1, LockHandle, LockOther, NextSplit

(* If pthread_mutex_lock and fstat do not fail, every mutex has the owner  *)
(* LockInv names.                                                          *)
LEMMA Locks == LockWorks /\ Spec => []LockInv
  <1> SUFFICES ASSUME LockWorks PROVE Spec => []LockInv
    OBVIOUS
  <1>1. Init => LockInv
    BY DEF Init, LockInv
  <1>2. TypeOK /\ OpenHasFd /\ LockInv /\ [Next]_vars => LockInv'
    BY LockStep
  <1> QED BY <1>1, <1>2, TypeCorrect, DescriptorThere, PTL DEF Spec

(* Two handlers do not own the same mutex.                                 *)
LEMMA LockExcludes == LockInv => WriterExclusion
  <1> SUFFICES ASSUME LockInv, NEW g \in Handle, NEW h \in Handle,
                      pc[g] \in OwnerPc, Writer(g), pc[h] \in OwnerPc, Writer(h),
                      fh[g] = fh[h], Live(fh[h])
               PROVE  g = h
    BY DEF WriterExclusion
  <1> QED BY DEF LockInv

(* If pthread_mutex_lock and fstat do not fail, then for any number of     *)
(* workers and with the collector running, two handles that may write      *)
(* never have the same live cell open at once.                             *)
THEOREM WritersExclude == LockWorks /\ Spec => []WriterExclusion
  BY LockExcludes, Locks, PTL

-----------------------------------------------------------------------------
(* The reference count covers the open handles.                            *)

(* If pthread_mutex_lock does not fail, the count gc_callback reads is at  *)
(* least the number of handles that have the cell open or are opening it,  *)
(* whatever else fails, so that the count is zero only for an unused cell. *)
THEOREM RefcountCovers == "lock" \notin Faults /\ Spec => []RefcountCoversHandles
  <1>1. Init => RefcountCoversHandles
    BY NewCell DEF Init, HashInit, RefcountCoversHandles, Live
  <1>2. "lock" \notin Faults /\ TypeOK /\ RefcountCoversHandles /\ [Next]_vars
          => RefcountCoversHandles'
    <2> SUFFICES ASSUME "lock" \notin Faults, TypeOK, RefcountCoversHandles, [Next]_vars,
                        NEW x \in Pe, cell'[x].state = "live"
                 PROVE  Cardinality(Counted(x)') <= cell'[x].refcount
      BY DEF RefcountCoversHandles, Live
    <2>1. /\ IsFiniteSet(Counted(x)) /\ Cardinality(Counted(x)) \in Nat
          /\ Live(x) => Cardinality(Counted(x)) <= cell[x].refcount
          /\ cell[x].refcount \in Nat
      BY FileCacheAssumption, FS_Subset, FS_CardinalityType
      DEF Counted, RefcountCoversHandles, TypeOK, HashTypeOK, Pentry
    <2>2. ASSUME Counted(x)' \subseteq Counted(x), Live(x),
                 cell'[x].refcount = cell[x].refcount
          PROVE  Cardinality(Counted(x)') <= cell'[x].refcount
      <3>1. Cardinality(Counted(x)') \in Nat /\ Cardinality(Counted(x)') <= Cardinality(Counted(x))
        BY <2>1, <2>2, FS_Subset, FS_CardinalityType
      <3> QED BY <2>1, <2>2, <3>1
    <2>3. CASE UNCHANGED vars
      BY <2>2, <2>3 DEF vars, table, Live, Counted
    <2>4. CASE OtherStep
      <3>1. Counted(x)' \subseteq Counted(x)
        BY <2>4, OtherFrame DEF Counted
      <3> QED BY <2>2, <2>4, <3>1, OtherFrame DEF Live
    <2>5. ASSUME NEW h \in Handle, getattr_insert(h) \/ populate_hash(h)
          PROVE  Cardinality(Counted(x)') <= cell'[x].refcount
      <3>1. HandlerStep(h) /\ PathOf(h) \in Path /\ HashTypeOK /\ pc[h] \notin CountedPc
        BY <2>5, AtPc DEF HandlerStep, Working, Getattr, Open, getattr_insert,
                          populate_hash, TypeOK
      <3>2. pc'[h] \notin CountedPc
        BY <2>5, InsertFrame
      <3>3. Counted(x)' \subseteq Counted(x)
        BY <3>1, <3>2, HandlerFrame DEF Counted
      <3>4. CASE UNCHANGED table
        BY <2>2, <3>3, <3>4 DEF table, Live
      <3>5. ASSUME NEW y \in Pe, FreePe(y), hash_insert(PathOf(h), y)
            PROVE  Cardinality(Counted(x)') <= cell'[x].refcount
        <4>1. CASE x = y
          <5>1. Counted(x)' = {}
            BY <3>3, <3>5, <4>1 DEF Counted, FreePe
          <5>2. cell'[x].refcount = 0
            BY <3>1, <3>5, <4>1, InsertCells, NewCell
          <5> QED BY <5>1, <5>2, FS_EmptySet
        <4>2. CASE x # y
          BY <2>2, <3>1, <3>3, <3>5, <4>2, InsertCells, NewCell DEF Live
        <4> QED BY <4>1, <4>2
      <3> QED BY <2>5, <3>4, <3>5, InsertFrame
    <2>6. ASSUME NEW h \in Handle, HandlerStep(h), ~getattr_insert(h), ~populate_hash(h)
          PROVE  Cardinality(Counted(x)') <= cell'[x].refcount
      <3>1. Live(x) /\ CellKept(h, x)
        BY <2>6, CellFrame DEF CellKept, Live
      <3>2. \A g \in Handle : g \in Counted(x)' =>
              \/ g \in Counted(x)
              \/ g = h /\ fh[h] = x /\ open_incref(h)
        BY <2>6, HandlerFrame, HeldFrame DEF Counted
      <3>3. CASE open_incref(h) /\ fh[h] = x
        <4>1. cell'[x].refcount = cell[x].refcount + 1
          BY <3>3 DEF open_incref, pentry_inc_refcount, Update, TypeOK, HashTypeOK, Pentry
        <4>2. Counted(x)' \subseteq Counted(x) \cup {h}
          BY <3>2 DEF Counted
        <4>3. /\ IsFiniteSet(Counted(x) \cup {h})
              /\ Cardinality(Counted(x) \cup {h}) = Cardinality(Counted(x)) + 1
          <5>1. h \notin Counted(x)
            BY <3>3 DEF open_incref, Counted
          <5> QED BY <2>1, <5>1, FS_AddElement
        <4>4. /\ Cardinality(Counted(x)') \in Nat
              /\ Cardinality(Counted(x) \cup {h}) \in Nat
              /\ Cardinality(Counted(x)') <= Cardinality(Counted(x) \cup {h})
          BY <4>2, <4>3, FS_Subset, FS_CardinalityType
        <4> QED BY <2>1, <3>1, <4>1, <4>3, <4>4
      <3>4. CASE release_decref(h) /\ fh[h] = x
        <4>1. cell'[x].refcount = cell[x].refcount - 1
          BY <3>4 DEF release_decref, pentry_dec_refcount, Update, TypeOK, HashTypeOK,
                      Pentry
        <4>2. h \in Counted(x)
          BY <3>4 DEF release_decref, Counted
        <4>3. h \notin Counted(x)'
          BY <3>4 DEF release_decref, Counted, Return, Goto, TypeOK, HandleTypeOK
        <4>4. ~open_incref(h)
          BY <3>4 DEF release_decref, open_incref
        <4>5. Counted(x)' \subseteq Counted(x) \ {h}
          BY <3>2, <4>3, <4>4 DEF Counted
        <4>6. /\ IsFiniteSet(Counted(x) \ {h})
              /\ Cardinality(Counted(x) \ {h}) = Cardinality(Counted(x)) - 1
          BY <2>1, <4>2, FS_RemoveElement
        <4>7. /\ Cardinality(Counted(x)') \in Nat
              /\ Cardinality(Counted(x) \ {h}) \in Nat
              /\ Cardinality(Counted(x)') <= Cardinality(Counted(x) \ {h})
          BY <4>5, <4>6, FS_Subset, FS_CardinalityType
        <4> QED BY <2>1, <3>1, <4>1, <4>6, <4>7
      <3>5. CASE ~((open_incref(h) \/ release_decref(h)) /\ fh[h] = x)
        <4>1. ASSUME open_lock(h)
              PROVE  cell'[x].refcount = cell[x].refcount
          <5>1. ASSUME NEW m, Update(fh[h], [cell[fh[h]] EXCEPT !.mutex = m])
                PROVE  cell'[x].refcount = cell[x].refcount
            BY <5>1 DEF Update, TypeOK, HashTypeOK, Pentry
          <5> QED BY <4>1, <5>1 DEF open_lock, pentry_lock
        <4>2. cell'[x].refcount = cell[x].refcount
          BY <3>1, <3>5, <4>1 DEF CellKept
        <4>3. Counted(x)' \subseteq Counted(x)
          BY <3>2, <3>5 DEF Counted
        <4> QED BY <2>2, <3>1, <4>2, <4>3
      <3> QED BY <3>3, <3>4, <3>5
    <2> QED BY <2>3, <2>4, <2>5, <2>6, NextSplit
  <1>3. "lock" \notin Faults => []("lock" \notin Faults)
    <2>1. "lock" \notin Faults => ("lock" \notin Faults)'
      OBVIOUS
    <2> QED BY <2>1, PTL
  <1> QED BY <1>1, <1>2, <1>3, TypeCorrect, PTL DEF Spec

-----------------------------------------------------------------------------
(* Without the collector nothing is freed under a handler's feet.          *)

(* A handler that goes on keeps the path and access mode of its call; the  *)
(* name it holds it held before; the kernel learns only a name that some   *)
(* handler has looked up.                                                  *)
LEMMA NameFrame ==
  ASSUME TypeOK, NEW h \in Handle, HandlerStep(h)
  PROVE  /\ pc[h] # "closed" /\ call[h] \in Call
         /\ pc'[h] # "closed" => /\ call'[h] \in Call
                                 /\ call'[h].path = call[h].path
                                 /\ call'[h].acc = call[h].acc
         /\ pc'[h] = "closed" => call'[h] = NULL /\ fh'[h] = NULL
         /\ HoldsName(h)' => HoldsName(h)
         /\ \A p \in dentry' : \/ p \in dentry
                               \/ /\ p = PathOf(h)
                                  /\ pc[h] \notin {"getattr", "getattr_insert"}
  <1>1. pc[h] # "closed" /\ call[h] \in Call
    <2>1. pc[h] # "closed"
      BY DEF HandlerStep, Working, Getattr, Open, Release, dfs_getattr, getattr_insert,
          getattr_dispatch, getattr_unset, getattr_mark, populate_hash, open_incref,
          open_lock, open_creat, open_existing, download_headers, compare_digests,
          copy_discard, copy_download, copy_fetch, copy_reopen, open_set_fd,
          open_placeholder, dfs_create, create_mknod, release_decref, release_send,
          release_clean, UseAfterFree, dfs_open, create_namei, dfs_write, dfs_release
    <2> QED BY <2>1, AtPc
  <1>2. CASE dfs_getattr(h) \/ getattr_insert(h)
    BY <1>1, <1>2
    DEF dfs_getattr, getattr_insert, Return, Goto, store, private, TypeOK,
        HandleTypeOK, HoldsName, Creating, Flags
  <1>3. ASSUME Found(h), pc[h] \in {"stat", "mark"}
        PROVE  /\ pc'[h] # "closed" => /\ call'[h] \in Call
                                       /\ call'[h].path = call[h].path
                                       /\ call'[h].acc = call[h].acc
               /\ pc'[h] = "closed" => call'[h] = NULL /\ fh'[h] = NULL
               /\ HoldsName(h)' => HoldsName(h)
               /\ \A p \in dentry' : p \in dentry \/ p = PathOf(h)
    <2>1. CASE call[h].acc = "stat"
      BY <1>1, <1>3, <2>1
      DEF Found, Return, Goto, TypeOK, HandleTypeOK, HoldsName, Creating, Flags
    <2>2. CASE call[h].acc # "stat"
      <3>1. /\ pc' = [pc EXCEPT ![h] = "open"] /\ dentry' = dentry \cup {PathOf(h)}
            /\ call' = [call EXCEPT ![h].flags = Flags(h) \ {"O_CREAT"}]
        BY <1>3, <2>2 DEF Found, Goto
      <3>2. /\ call'[h] \in Call /\ call'[h].path = call[h].path
            /\ call'[h].acc = call[h].acc /\ call'[h].flags = Flags(h) \ {"O_CREAT"}
        BY <1>1, <3>1 DEF TypeOK, HandleTypeOK, Call, Flags
      <3>3. ~HoldsName(h)'
        BY <3>1, <3>2 DEF HoldsName, Creating, Flags, TypeOK, HandleTypeOK
      <3> QED BY <3>1, <3>2, <3>3 DEF TypeOK, HandleTypeOK
    <2> QED BY <2>1, <2>2
  <1>4. CASE getattr_dispatch(h)
    <2>1. CASE Found(h)
      BY <1>1, <1>3, <1>4, <2>1 DEF getattr_dispatch
    <2>2. CASE Return(h) /\ UNCHANGED dentry
      BY <1>1, <2>2
      DEF Return, Goto, TypeOK, HandleTypeOK, HoldsName, Creating, Flags
    <2>3. CASE pc' = [pc EXCEPT ![h] = "unset"] /\ UNCHANGED <<call, dentry>>
      BY <1>1, <1>4, <2>3
      DEF getattr_dispatch, TypeOK, HandleTypeOK, HoldsName, Creating, Flags
    <2> QED BY <1>4, <2>1, <2>2, <2>3 DEF getattr_dispatch, Goto
  <1>5. CASE getattr_mark(h)
    BY <1>1, <1>3, <1>5 DEF getattr_mark
  <1>6. CASE getattr_unset(h)
    BY <1>1, <1>6
    DEF getattr_unset, NotFound, Return, Goto, store, private, TypeOK, HandleTypeOK,
        HoldsName, Creating, Flags
  <1>7. CASE \/ dfs_open(h) \/ create_namei(h) \/ populate_hash(h) \/ open_incref(h) \/ open_lock(h)
             \/ open_creat(h) \/ open_existing(h)
    BY <1>1, <1>7
    DEF dfs_open, create_namei, populate_hash, open_incref, open_lock, open_creat, open_existing,
        FirstStep, OpenFails, Return, Goto, store, private, TypeOK, HandleTypeOK,
        HoldsName, Creating, Flags
  <1>8. CASE \/ download_headers(h) \/ compare_digests(h) \/ copy_discard(h)
             \/ copy_download(h) \/ copy_fetch(h) \/ copy_reopen(h)
    BY <1>1, <1>8
    DEF download_headers, compare_digests, copy_discard, copy_download, copy_fetch,
        copy_reopen, OpenFails, Return, Goto, store, private, TypeOK, HandleTypeOK,
        HoldsName, Creating, Flags
  <1>9. CASE open_set_fd(h) \/ open_placeholder(h) \/ dfs_create(h) \/ create_mknod(h)
    BY <1>1, <1>9
    DEF open_set_fd, open_placeholder, dfs_create, create_mknod, Return, Goto, store,
        private, TypeOK, HandleTypeOK, HoldsName, Creating, Flags, PathOf
  <1>10. CASE \/ Release(h) \/ UseAfterFree(h) \/ dfs_write(h) \/ dfs_release(h)
    BY <1>1, <1>10
    DEF Release, release_decref, release_send, release_clean, UseAfterFree, dfs_write,
        dfs_release, Return, Goto, store, private, TypeOK, HandleTypeOK, HoldsName,
        Creating, Flags
  <1> QED
    BY <1>2, <1>4, <1>5, <1>6, <1>7, <1>8, <1>9, <1>10
    DEF HandlerStep, Working, Getattr, Open

(* Where a step of a handler may lead when nothing has been freed, and     *)
(* what happens to the table: it only grows, and by the handler that finds *)
(* no entry for its path.                                                  *)
LEMMA GrowFrame ==
  ASSUME TypeOK, NoFreeInv, NEW h \in Handle, HandlerStep(h)
  PROVE  /\ pc'[h] \notin {"populate", "undefined"}
         /\ pc'[h] = "getattr_insert" => hash'[PathOf(h)] = NULL
         /\ pc'[h] \notin {"closed", "getattr", "getattr_insert"}
              => hash'[PathOf(h)] # NULL
         /\ fh'[h] # NULL => fh'[h] \in Pe /\ cell'[fh'[h]].state = "live"
         /\ \A x \in Pe : Live(x) => cell'[x].state = "live"
         /\ \A p \in Path : \/ hash'[p] = hash[p]
                            \/ /\ p = PathOf(h) /\ pc[h] = "getattr_insert"
                               /\ hash'[p] \in Pe /\ cell'[hash'[p]].state = "live"
  <1>1. pc[h] # "closed" /\ call[h] \in Call /\ PathOf(h) \in Path
    BY NameFrame, AtPc
  <1>2. ~populate_hash(h) /\ ~UseAfterFree(h)
    BY PentryAssumption, AtPc DEF NoFreeInv, populate_hash, UseAfterFree
  <1>3. CASE getattr_insert(h)
    <2>1. hash[PathOf(h)] = NULL /\ HashTypeOK /\ pc[h] = "getattr_insert"
      BY <1>3 DEF getattr_insert, NoFreeInv, TypeOK
    <2>2. CASE UNCHANGED table /\ pc'[h] = "closed" /\ fh'[h] = NULL
      BY <2>2 DEF table, Live
    <2>3. ASSUME NEW x \in Pe, FreePe(x), hash_insert(PathOf(h), x),
                 fh'[h] = x, pc'[h] = "stat"
          PROVE  /\ cell'[x].state = "live"
                 /\ hash'[PathOf(h)] = x /\ x # NULL
                 /\ \A y \in Pe : Live(y) => cell'[y].state = "live"
                 /\ \A p \in Path : p # PathOf(h) => hash'[p] = hash[p]
      BY <1>1, <2>1, <2>3, InsertCells, NewCell, PentryAssumption
      DEF hash_insert, HashTypeOK, Live, FreePe
    <2> QED BY <1>1, <1>3, <2>1, <2>2, <2>3, InsertFrame
  <1>4. CASE ~getattr_insert(h)
    <2>1. hash' = hash /\ \A x \in Pe : cell'[x].state = cell[x].state
      BY <1>2, <1>4, CellFrame DEF CellKept
    <2>2. CASE dfs_getattr(h) \/ dfs_open(h)
      <3>1. hash[PathOf(h)] # NULL => hash[PathOf(h)] \in Pe /\ Live(hash[PathOf(h)])
        BY <1>1 DEF NoFreeInv, TypeOK, HashTypeOK
      <3>2. dfs_open(h) => hash[PathOf(h)] # NULL
        BY DEF dfs_open, NoFreeInv
      <3>3. \/ /\ pc'[h] = "getattr_insert" /\ fh'[h] = fh[h]
               /\ hash[PathOf(h)] = NULL
            \/ /\ pc'[h] \in {"stat", "incref"} /\ fh'[h] = hash[PathOf(h)]
               /\ hash[PathOf(h)] # NULL
        BY <2>2, <3>2 DEF dfs_getattr, dfs_open, Goto, TypeOK, HandleTypeOK
      <3>4. fh[h] = NULL
        BY <2>2 DEF dfs_getattr, dfs_open, TypeOK, LocalsOK
      <3> QED BY <2>1, <3>1, <3>3, <3>4 DEF Live
    <2>3. CASE ~dfs_getattr(h) /\ ~dfs_open(h)
      <3>1. /\ pc'[h] \notin {"populate", "undefined", "getattr", "getattr_insert"}
            /\ fh'[h] \in {fh[h], NULL}
            /\ pc[h] \notin {"getattr", "getattr_insert"}
        <4>1. CASE getattr_dispatch(h) \/ getattr_unset(h) \/ getattr_mark(h)
          BY <4>1
          DEF getattr_dispatch, getattr_unset, getattr_mark, Found, NotFound, Return,
              Goto, TypeOK, HandleTypeOK
        <4>2. CASE open_incref(h) \/ open_existing(h)
          BY <4>2 DEF open_incref, open_existing, FirstStep, Goto, TypeOK, HandleTypeOK
        <4>6. CASE open_lock(h)
          BY <4>6 DEF open_lock, FirstStep, OpenFails, Return, Goto, TypeOK, HandleTypeOK
        <4>7. CASE open_creat(h)
          <5>1. /\ pc[h] = "creat"
                /\ \/ OpenFails(h)
                   \/ Goto(h, "placeholder") /\ fh' = fh
            BY <4>7 DEF open_creat
          <5> QED BY <5>1 DEF OpenFails, Return, Goto, TypeOK, HandleTypeOK
        <4>3. CASE \/ download_headers(h) \/ compare_digests(h) \/ copy_discard(h)
                   \/ copy_download(h) \/ copy_fetch(h) \/ copy_reopen(h)
          BY <4>3
          DEF download_headers, compare_digests, copy_discard, copy_download,
              copy_fetch, copy_reopen, OpenFails, Return, Goto, TypeOK, HandleTypeOK
        <4>4. CASE \/ open_set_fd(h) \/ open_placeholder(h) \/ dfs_create(h)
                   \/ create_mknod(h)
          BY <4>4
          DEF open_set_fd, open_placeholder, dfs_create, create_mknod, Return, Goto,
              TypeOK, HandleTypeOK
        <4>5. CASE Release(h) \/ dfs_write(h) \/ dfs_release(h) \/ create_namei(h)
          BY <4>5
          DEF Release, create_namei, release_decref, release_send, release_clean, dfs_write,
              dfs_release, Return, Goto, TypeOK, HandleTypeOK
        <4> QED
          BY <1>2, <1>4, <2>3, <4>1, <4>2, <4>3, <4>4, <4>5, <4>6, <4>7
          DEF HandlerStep, Working, Getattr, Open
      <3>2. hash[PathOf(h)] # NULL
        BY <1>1, <3>1 DEF NoFreeInv
      <3>3. fh[h] # NULL => fh[h] \in Pe /\ Live(fh[h])
        BY DEF NoFreeInv, TypeOK, HandleTypeOK
      <3> QED BY <2>1, <3>1, <3>2, <3>3 DEF Live
    <2> QED BY <2>2, <2>3
  <1> QED BY <1>3, <1>4

(* The steps of a handler keep NoFreeInv.                                  *)
LEMMA NoFreeHandle ==
  ASSUME TypeOK, NoFreeInv, NEW h \in Handle, HandlerStep(h)
  PROVE  NoFreeInv'
  <1>1. /\ UNCHANGED gcvars
        /\ \A g \in Handle \ {h} : /\ pc'[g] = pc[g] /\ fh'[g] = fh[g]
                                   /\ call'[g] = call[g]
    BY HandlerFrame
  <1>2. /\ pc[h] # "closed" /\ call[h] \in Call
        /\ pc'[h] # "closed" => /\ call'[h] \in Call
                                /\ call'[h].path = call[h].path
                                /\ call'[h].acc = call[h].acc
        /\ pc'[h] = "closed" => call'[h] = NULL /\ fh'[h] = NULL
        /\ HoldsName(h)' => HoldsName(h)
        /\ \A p \in dentry' : \/ p \in dentry
                              \/ /\ p = PathOf(h)
                                 /\ pc[h] \notin {"getattr", "getattr_insert"}
    BY NameFrame
  <1>3. /\ pc'[h] \notin {"populate", "undefined"}
        /\ pc'[h] = "getattr_insert" => hash'[PathOf(h)] = NULL
        /\ pc'[h] \notin {"closed", "getattr", "getattr_insert"}
             => hash'[PathOf(h)] # NULL
        /\ fh'[h] # NULL => fh'[h] \in Pe /\ cell'[fh'[h]].state = "live"
        /\ \A x \in Pe : Live(x) => cell'[x].state = "live"
        /\ \A p \in Path : \/ hash'[p] = hash[p]
                           \/ /\ p = PathOf(h) /\ pc[h] = "getattr_insert"
                              /\ hash'[p] \in Pe /\ cell'[hash'[p]].state = "live"
    BY GrowFrame
  <1>4. /\ NULL \notin Pe /\ NULL \notin Call
        /\ \A p \in Path : hash[p] \in Pe \cup {NULL}
        /\ \A g \in Handle : /\ call[g] # NULL => call[g].path \in Path
                             /\ pc[g] # "closed" => call[g] # NULL
                             /\ fh[g] \in Pe \cup {NULL}
        /\ dentry \subseteq Path
    BY PentryAssumption, FileCacheAssumption, AtPc
    DEF TypeOK, HashTypeOK, HandleTypeOK, StoreTypeOK, LocalsOK, PathOf, Call
  <1>5. \A p \in Path : hash[p] # NULL => hash'[p] # NULL
    BY <1>3, <1>4
  <1>6. gcpc' = "idle"
    BY <1>1 DEF NoFreeInv, gcvars
  <1>7. \A g \in Handle : fh'[g] # NULL => cell'[fh'[g]].state = "live"
    BY <1>1, <1>3, <1>4 DEF NoFreeInv
  <1>8. \A p \in Path : hash'[p] # NULL => cell'[hash'[p]].state = "live"
    BY <1>3, <1>4 DEF NoFreeInv
  <1>9. \A p \in dentry' : hash'[p] # NULL
    BY <1>2, <1>4, <1>5 DEF NoFreeInv, PathOf
  <1>10. ASSUME NEW g \in Handle
         PROVE  /\ pc'[g] \notin {"populate", "undefined"}
                /\ pc'[g] \notin {"closed", "getattr", "getattr_insert"}
                      => hash'[call'[g].path] # NULL
                /\ call'[g] # NULL /\ call'[g].acc = "stat" => hash'[call'[g].path] # NULL
                /\ pc'[g] = "getattr_insert" => hash'[call'[g].path] = NULL
    <2>1. CASE g = h
      <3>1. pc'[h] # "closed" => call'[h].path = PathOf(h)
        BY <1>2 DEF PathOf
      <3>2. call'[h] # NULL /\ call'[h].acc = "stat" => hash'[call'[h].path] # NULL
        BY <1>2, <1>4, <1>5 DEF NoFreeInv, PathOf
      <3>3. pc'[h] # "closed" \/ pc'[h] = "closed"
        OBVIOUS
      <3> QED BY <1>3, <2>1, <3>1, <3>2
    <2>2. CASE g # h
      <3>1. pc'[g] = pc[g] /\ call'[g] = call[g]
        BY <1>1, <2>2
      <3>2. pc[g] = "getattr_insert" => hash'[call[g].path] = NULL
        <4> SUFFICES ASSUME pc[g] = "getattr_insert", hash'[call[g].path] # NULL
                     PROVE  FALSE
          OBVIOUS
        <4>1. call[g] # NULL /\ hash[PathOf(g)] = NULL /\ PathOf(g) \in Path
          BY <1>4 DEF NoFreeInv, PathOf
        <4>2. pc[h] = "getattr_insert" /\ PathOf(g) = PathOf(h)
          BY <1>3, <4>1 DEF PathOf
        <4>3. call[g].acc # "stat" /\ call[h].acc # "stat" /\ call[h] # NULL
          BY <1>2, <1>4, <4>1, <4>2 DEF NoFreeInv
        <4>4. HoldsName(g) /\ HoldsName(h)
          BY <4>1, <4>2, <4>3 DEF HoldsName
        <4> QED BY <2>2, <4>2, <4>4 DEF NoFreeInv
      <3> QED BY <1>4, <1>5, <3>1, <3>2 DEF NoFreeInv, PathOf
    <2> QED BY <2>1, <2>2
  <1>11. ASSUME NEW g \in Handle, HoldsName(g)'
         PROVE  HoldsName(g) /\ call'[g].path = PathOf(g)
    <2>1. CASE g = h
      BY <1>2, <1>11, <2>1 DEF HoldsName, PathOf
    <2>2. CASE g # h
      BY <1>1, <1>11, <2>2 DEF HoldsName, PathOf, Creating, Flags
    <2> QED BY <2>1, <2>2
  <1>12. \A f, g \in Handle :
           HoldsName(f)' /\ HoldsName(g)' /\ PathOf(f)' = PathOf(g)' => f = g
    BY <1>11 DEF NoFreeInv, PathOf
  <1> QED
    BY <1>6, <1>7, <1>8, <1>9, <1>10, <1>12 DEF NoFreeInv, Live, PathOf

(* In this step the collector does not begin on an entry.                  *)
NoCollector == \A p \in Path : ~gc_callback(p)

(* So do the kernel and time, the only other steps without a collector.    *)
LEMMA NoFreeOther ==
  ASSUME TypeOK, NoFreeInv, NoCollector, OtherStep
  PROVE  NoFreeInv'
  <1>1. CASE \E p \in Path : KernelForget(p)
    BY <1>1 DEF KernelForget, NoFreeInv, Live, HoldsName, PathOf, Creating, Flags, table,
                gcvars
  <1>2. CASE \E i \in Inode : Age(i)
    BY <1>2 DEF Age, NoFreeInv, Live, HoldsName, PathOf, Creating, Flags, table, store,
                gcvars
  <1>3. CASE GcStep \/ \E p \in Path : gc_callback(p)
    BY <1>3 DEF GcStep, gc_trylock, gc_check, gc_unlink, gc_remove,
                NoCollector, NoFreeInv
  <1>4. ASSUME NEW h \in Handle, NEW c \in Calls,
               KernelLookup(h, c) \/ KernelStat(h, c) \/ KernelOpen(h, c)
        PROVE  NoFreeInv'
    <2>1. c \in Call /\ NULL \notin Call
      BY FileCacheAssumption
    <2>2. PICK d \in Call, s \in {"getattr", "open"} :
            /\ pc' = [pc EXCEPT ![h] = s] /\ call' = [call EXCEPT ![h] = d]
            /\ d.path = c.path /\ d.acc = c.acc
            /\ s = "open" => "O_CREAT" \notin d.flags
            /\ s = "open" \/ d.acc = "stat" => d.path \in dentry
            /\ s = "getattr" /\ d.acc # "stat" => ~NameHeld(d.path)
      <3>1. CASE KernelLookup(h, c) \/ KernelStat(h, c)
        BY <2>1, <3>1 DEF KernelLookup, KernelStat, Goto
      <3>2. CASE KernelOpen(h, c)
        <4>1. [c EXCEPT !.flags = c.flags \ {"O_CREAT"}] \in Call
          BY <2>1 DEF Call
        <4>2. /\ [c EXCEPT !.flags = c.flags \ {"O_CREAT"}].path = c.path
              /\ [c EXCEPT !.flags = c.flags \ {"O_CREAT"}].acc = c.acc
              /\ [c EXCEPT !.flags = c.flags \ {"O_CREAT"}].flags = c.flags \ {"O_CREAT"}
          BY <2>1 DEF Call
        <4> QED BY <3>2, <4>1, <4>2 DEF KernelOpen, Goto
      <3> QED BY <1>4, <3>1, <3>2
    <2>3. UNCHANGED <<hash, cell, fh, dentry, gcpc>>
      BY <1>4 DEF KernelLookup, KernelStat, KernelOpen, table, store, gcvars
    <2>4. /\ pc'[h] = s /\ call'[h] = d
          /\ \A g \in Handle \ {h} : pc'[g] = pc[g] /\ call'[g] = call[g]
      BY <2>2 DEF TypeOK, HandleTypeOK
    <2>5. /\ d # NULL
          /\ \A g \in Handle \ {h} : HoldsName(g)' <=> HoldsName(g)
      BY <2>1, <2>4 DEF HoldsName, Creating, Flags
    <2>6. HoldsName(h)' => ~NameHeld(d.path)
      BY <2>2, <2>4 DEF HoldsName, Creating, Flags
    <2>7. \A f, g \in Handle :
            HoldsName(f)' /\ HoldsName(g)' /\ PathOf(f)' = PathOf(g)' => f = g
      BY <2>4, <2>5, <2>6 DEF NoFreeInv, NameHeld, PathOf
    <2>8. \A g \in Handle :
            /\ pc'[g] \notin {"populate", "undefined"}
            /\ pc'[g] \notin {"closed", "getattr", "getattr_insert"}
                  => hash[call'[g].path] # NULL
            /\ call'[g] # NULL /\ call'[g].acc = "stat" => hash[call'[g].path] # NULL
            /\ pc'[g] = "getattr_insert" => hash[call'[g].path] = NULL
      BY <2>2, <2>4 DEF NoFreeInv, PathOf
    <2> QED BY <2>3, <2>7, <2>8 DEF NoFreeInv, Live, PathOf
  <1> QED BY <1>1, <1>2, <1>3, <1>4 DEF OtherStep, Kernel

(* With garbage collection off no cell is ever freed.                      *)
LEMMA NoneFreed == ~GcOn /\ Spec => []NoFreeInv
  <1> SUFFICES ASSUME ~GcOn PROVE Spec => []NoFreeInv
    OBVIOUS
  <1>1. Init => NoFreeInv
    BY FileCacheAssumption DEF Init, HashInit, NoFreeInv, HoldsName
  <1>2. TypeOK /\ NoFreeInv /\ [Next]_vars => NoFreeInv'
    <2> SUFFICES ASSUME TypeOK, NoFreeInv, [Next]_vars
                 PROVE  NoFreeInv'
      OBVIOUS
    <2>1. CASE UNCHANGED vars
      BY <2>1 DEF vars, table, store, gcvars, NoFreeInv, Live, HoldsName, PathOf,
                  Creating, Flags
    <2>2. NoCollector
      BY DEF NoCollector, gc_callback
    <2> QED BY <2>1, <2>2, NoFreeHandle, NoFreeOther, NextSplit
  <1> QED BY <1>1, <1>2, TypeCorrect, PTL DEF Spec

(* With garbage collection off, no interleaving of lookups, opens, creates *)
(* and releases makes a handler follow a pointer to a freed cell: of two   *)
(* handlers that find no entry for a path, never both insert one.          *)
THEOREM NothingFreed == ~GcOn /\ Spec => []NoUseAfterFree
  <1>1. NoFreeInv => NoUseAfterFree
    BY DEF NoFreeInv, NoUseAfterFree
  <1> QED BY <1>1, NoneFreed, PTL

-----------------------------------------------------------------------------
(* The inductive invariants about contents.                                *)

(* A descriptor names a file that was truncated or fetched in this mount,  *)
(* and so does the name of a file from the moment its left-over is gone.   *)
FreshInv ==
    /\ \A x \in Pe : cell[x].fd # NULL => data[cell[x].fd.ino] # "stale"
    /\ \A h \in Handle :
        /\ lfd[h] # NULL => data[lfd[h].ino] # "stale"
        /\ pc[h] \in {"download", "fetch", "reopen"} /\ local[PathOf(h)] # NULL
             => data[local[PathOf(h)]] # "stale"
    /\ \A p \in Path : remote[p] # "stale"

(* All descriptors, of the cells and on the way there, can be written to,  *)
(* when no call opens a file in the mode that is read-only.                *)
WriterCall(c) == c.acc # "O_RDONLY" \/ "O_APPEND" \in c.flags
WritableInv ==
    /\ \A x \in Pe : cell[x].fd # NULL => cell[x].fd.mode = "O_RDWR"
    /\ \A h \in Handle :
        /\ lfd[h] # NULL => lfd[h].mode = "O_RDWR"
        /\ call[h] # NULL => WriterCall(call[h])

(* With one worker one request runs at a time: until it is complete a      *)
(* download goes to a file that no descriptor of a cell names.             *)
Solo == \A g, h \in Handle : pc[g] \notin IdlePc /\ pc[h] \notin IdlePc => g = h

WholeInv ==
    /\ \A x \in Pe : cell[x].fd # NULL => data[cell[x].fd.ino] # "partial"
    /\ \A h \in Handle :
        /\ pc[h] \in {"set_fd", "decref", "send"} => data[lfd[h].ino] # "partial"
        /\ pc[h] = "download" => local[PathOf(h)] = NULL
        /\ pc[h] = "fetch" => local[PathOf(h)] \in {NULL, lfd[h].ino}
        /\ pc[h] = "reopen" /\ local[PathOf(h)] # NULL
             => data[local[PathOf(h)]] # "partial"
    /\ \A p \in Path : remote[p] # "partial"

(* One request at a time inserts only where there is no entry, so that the *)
(* collector alone frees cells, and the one it has looked up is the path's *)
(* entry until it removes it, from the trylock on with its mutex.          *)
KeptInv ==
    /\ \A p \in Path : hash[p] # NULL => Live(hash[p])
    /\ \A p, q \in Path : hash[p] # NULL /\ hash[p] = hash[q] => p = q
    /\ \A h \in Handle :
        pc[h] \in {"getattr_insert", "populate"} => hash[PathOf(h)] = NULL
    /\ gcpc # "idle" => hash[gcpath] = gcpe
    /\ gcpc \in {"check", "unlink", "remove"} => cell[gcpe].mutex = Gc

-----------------------------------------------------------------------------
(* Frame lemmas about contents.                                            *)

(* A handler that fails or returns has no descriptor of its own any more.  *)
LEMMA EndFrame ==
  ASSUME TypeOK, NEW h \in Handle, OpenFails(h) \/ Return(h)
  PROVE  /\ pc'[h] \in {"create", "closed"}
         /\ lfd' = [lfd EXCEPT ![h] = NULL] /\ lfd'[h] = NULL
         /\ \A g \in Handle \ {h} : lfd'[g] = lfd[g] /\ pc'[g] = pc[g] /\ call'[g] = call[g]
         /\ call'[h] \in {call[h], NULL}
  BY DEF OpenFails, Return, Goto, TypeOK, HandleTypeOK

(* The descriptor of a cell is set by open_creat and open_set_fd; apart    *)
(* from that cells are only freed or newly inserted, without one.          *)
LEMMA FdKept ==
  ASSUME TypeOK, NEW h \in Handle, HandlerStep(h), ~open_creat(h), ~open_set_fd(h)
  PROVE  \A x \in Pe : cell'[x].fd \in {cell[x].fd, NULL}
  <1>1. CASE UNCHANGED cell
    BY <1>1
  <1>2. CASE getattr_insert(h) \/ populate_hash(h)
    <2>1. PathOf(h) \in Path /\ HashTypeOK
      BY <1>2, AtPc DEF getattr_insert, populate_hash, TypeOK
    <2>2. pentry_new.fd = NULL /\ pentry_free.fd = NULL
      BY DEF pentry_new, pentry_free
    <2>3. CASE UNCHANGED table
      BY <2>3 DEF table
    <2>4. ASSUME NEW x \in Pe, hash_insert(PathOf(h), x)
          PROVE  \A y \in Pe : cell'[y].fd \in {cell[y].fd, NULL}
      BY <2>1, <2>2, <2>4, InsertCells
    <2> QED BY <1>2, <2>3, <2>4, InsertFrame
  <1>3. CASE ~UNCHANGED cell /\ ~getattr_insert(h) /\ ~populate_hash(h)
    <2>1. fh[h] \in Pe /\ cell[fh[h]] \in Pentry /\ cell \in [Pe -> Pentry]
      BY <1>3, AtPc
      DEF HandlerStep, Working, Getattr, Open, Release, dfs_getattr, getattr_dispatch,
          getattr_unset, getattr_mark, open_incref, open_lock, open_existing,
          download_headers, compare_digests, copy_discard, copy_download, copy_fetch,
          copy_reopen, open_placeholder, dfs_create, create_mknod, release_decref,
          release_send, release_clean, UseAfterFree, dfs_open, create_namei, dfs_write,
          dfs_release, table, TypeOK, HashTypeOK
    <2>2. ASSUME NEW v, \/ Update(fh[h], [cell[fh[h]] EXCEPT !.ondisk = v])
                        \/ Update(fh[h], [cell[fh[h]] EXCEPT !.mutex = v])
                        \/ Update(fh[h], [cell[fh[h]] EXCEPT !.refcount = v])
                        \/ Update(fh[h], [cell[fh[h]] EXCEPT !.flag = v])
                        \/ Update(fh[h], [cell[fh[h]] EXCEPT !.digest = v])
                        \/ Update(fh[h], [cell[fh[h]] EXCEPT !.exclude = v])
          PROVE  \A x \in Pe : cell'[x].fd \in {cell[x].fd, NULL}
      BY <2>1, <2>2 DEF Update, Pentry
    <2>3. ASSUME NEW f, NEW m,
                 Update(fh[h], [cell[fh[h]] EXCEPT !.flag = f, !.mutex = m])
          PROVE  \A x \in Pe : cell'[x].fd \in {cell[x].fd, NULL}
      BY <2>1, <2>3 DEF Update, Pentry
    <2>4. CASE release_clean(h)
      BY <2>3, <2>4 DEF release_clean
    <2>5. CASE open_lock(h) \/ open_incref(h) \/ release_decref(h)
      BY <2>2, <2>5
      DEF open_lock, open_incref, release_decref, pentry_lock, pentry_inc_refcount,
          pentry_dec_refcount
    <2>6. CASE getattr_mark(h) \/ open_placeholder(h)
      BY <2>2, <2>6 DEF getattr_mark, open_placeholder, pentry_set_placeholder
    <2>7. CASE open_existing(h)
      BY <1>3, <2>2, <2>7 DEF open_existing
    <2>8. CASE compare_digests(h)
      BY <1>3, <2>2, <2>8 DEF compare_digests
    <2>9. CASE dfs_create(h)
      BY <1>3, <2>2, <2>9 DEF dfs_create
    <2> QED
      BY <1>3, <2>4, <2>5, <2>6, <2>7, <2>8, <2>9
      DEF HandlerStep, Working, Getattr, Open, Release, dfs_getattr, getattr_dispatch,
          getattr_unset, download_headers, copy_discard, copy_download, copy_fetch,
          copy_reopen, create_mknod, release_send, UseAfterFree, dfs_open, create_namei,
          dfs_write, dfs_release, table
  <1> QED BY <1>1, <1>2, <1>3

(* The steps that read or change a content or a descriptor.                *)
Moves(h) ==
    \/ open_creat(h) \/ compare_digests(h) \/ copy_discard(h) \/ copy_download(h)
    \/ copy_fetch(h) \/ copy_reopen(h) \/ open_set_fd(h) \/ create_mknod(h)
    \/ dfs_write(h) \/ dfs_release(h) \/ release_send(h)

(* Nothing of the sort happens in the others, nor outside the handlers,    *)
(* except that the collector unlinks a file.                               *)
Quiet ==
    /\ data' = data /\ remote' = remote
    /\ \A p \in Path : local'[p] \in {local[p], NULL}
    /\ \A x \in Pe : cell'[x].fd \in {cell[x].fd, NULL}
    /\ \A h \in Handle : lfd'[h] \in {lfd[h], NULL}
    /\ \A h \in Handle :
        pc'[h] \in {"download", "fetch", "reopen", "set_fd", "decref", "send"} =>
          /\ lfd'[h] = lfd[h] /\ call'[h] = call[h]
          /\ \/ pc'[h] = pc[h]
             \/ pc'[h] = "send" /\ pc[h] = "decref"

(* Every step that is none of Moves is quiet.                              *)
LEMMA QuietFrame ==
  ASSUME TypeOK, \/ OtherStep
                 \/ \E h \in Handle : HandlerStep(h) /\ ~Moves(h)
  PROVE  Quiet
  <1>1. CASE OtherStep
    <2>1. \A x \in Pe : cell'[x].fd \in {cell[x].fd, NULL}
      <3>1. CASE gc_remove
        <4>1. gcpath \in Path /\ HashTypeOK /\ pentry_free.fd = NULL
          BY <3>1 DEF gc_remove, TypeOK, GcTypeOK, pentry_free, pentry_new
        <4> QED BY <3>1, <4>1, RemoveCells DEF gc_remove
      <3>2. CASE ~gc_remove
        <4>1. CASE gc_trylock \/ gc_check
          <5>1. gcpe \in Pe /\ cell \in [Pe -> Pentry]
            BY <4>1 DEF gc_trylock, gc_check, TypeOK, GcTypeOK, HashTypeOK
          <5>2. ASSUME NEW m, Update(gcpe, [cell[gcpe] EXCEPT !.mutex = m])
                PROVE  \A x \in Pe : cell'[x].fd = cell[x].fd
            BY <5>1, <5>2 DEF Update, Pentry
          <5> QED BY <4>1, <5>2 DEF gc_trylock, gc_check, pentry_lock, pentry_unlock
        <4>2. CASE ~gc_trylock /\ ~gc_check
          BY <1>1, <3>2, <4>2
          DEF OtherStep, GcStep, Kernel, KernelLookup, KernelStat, KernelOpen,
              KernelForget, gc_callback, gc_unlink, Age, table
        <4> QED BY <4>1, <4>2
      <3> QED BY <3>1, <3>2
    <2>2. /\ data' = data /\ remote' = remote /\ lfd' = lfd
          /\ \A p \in Path : local'[p] \in {local[p], NULL}
      BY <1>1
      DEF OtherStep, GcStep, Kernel, KernelLookup, KernelStat, KernelOpen, KernelForget,
          gc_callback, gc_trylock, gc_check, gc_unlink, gc_remove, Age, disk, store,
          private, TypeOK, DiskTypeOK
    <2> QED BY <1>1, <2>1, <2>2, OtherFrame DEF Quiet
  <1>2. ASSUME NEW h \in Handle, HandlerStep(h), ~Moves(h)
        PROVE  Quiet
    <2>1. /\ data' = data /\ remote' = remote /\ local' = local
      BY <1>2
      DEF Moves, HandlerStep, Working, Getattr, Open, Release, dfs_getattr,
          getattr_insert, getattr_dispatch, getattr_unset, getattr_mark, populate_hash,
          open_incref, open_lock, open_existing, download_headers, open_placeholder,
          dfs_create, release_decref, release_clean, UseAfterFree, dfs_open,
          create_namei, disk, store
    <2>2. \A x \in Pe : cell'[x].fd \in {cell[x].fd, NULL}
      BY <1>2, FdKept DEF Moves
    <2>3. CASE Return(h) \/ OpenFails(h)
      BY <1>2, <2>1, <2>2, <2>3, EndFrame DEF Quiet
    <2>4. CASE ~Return(h) /\ ~OpenFails(h)
      <3>1. /\ \A g \in Handle \ {h} : pc'[g] = pc[g] /\ call'[g] = call[g]
        BY <1>2, HandlerFrame
      <3>2. /\ lfd' = lfd
            /\ \/ pc'[h] \notin {"download", "fetch", "reopen", "set_fd", "decref", "send"}
               \/ pc'[h] = "send" /\ pc[h] = "decref" /\ call'[h] = call[h]
        <4>1. CASE Getattr(h)
          BY <4>1, <2>4
          DEF Getattr, dfs_getattr, getattr_insert, getattr_dispatch, getattr_unset,
              getattr_mark, Found, NotFound, Goto, private, TypeOK, HandleTypeOK
        <4>2. CASE Open(h)
          BY <4>2, <1>2, <2>4
          DEF Moves, Open, populate_hash, open_incref, open_lock, open_existing,
              download_headers, open_placeholder, dfs_create, FirstStep, Goto, private,
              TypeOK, HandleTypeOK
        <4>3. CASE ~Getattr(h) /\ ~Open(h)
          BY <4>3, <1>2, <2>4
          DEF Moves, HandlerStep, Working, Release, release_decref, release_clean,
              UseAfterFree, dfs_open, create_namei, Goto, private, TypeOK, HandleTypeOK
        <4> QED BY <4>1, <4>2, <4>3
      <3> QED BY <2>1, <2>2, <3>1, <3>2 DEF Quiet
    <2> QED BY <2>3, <2>4
  <1> QED BY <1>1, <1>2

-----------------------------------------------------------------------------
(* What the steps that move contents do.                                   *)

(* A cell's descriptor is replaced, the other cells keep theirs.           *)
LEMMA SetFd ==
  ASSUME TypeOK, NEW x \in Pe, NEW d, NEW f,
         Update(x, [cell[x] EXCEPT !.fd = d, !.flag = f])
  PROVE  \A y \in Pe : cell'[y].fd = IF y = x THEN d ELSE cell[y].fd
  <1>1. cell \in [Pe -> Pentry]
    BY DEF TypeOK, HashTypeOK
  <1> QED BY <1>1 DEF Update, Pentry

(* open_creat: the path's file is empty, and it is the cell's.             *)
LEMMA CreatMoves ==
  ASSUME TypeOK, NEW h \in Handle, open_creat(h)
  PROVE  \/ /\ Quiet /\ pc'[h] \in {"create", "closed"}
         \/ \E i \in Inode :
              /\ OpenTrunc(PathOf(h), i, "empty")
              /\ \A x \in Pe : \/ cell'[x].fd = cell[x].fd
                               \/ cell'[x].fd = [ino |-> i, mode |-> "O_RDWR"]
              /\ pc'[h] = "placeholder" /\ call'[h] = call[h]
              /\ lfd' = lfd /\ remote' = remote
  <1>1. CASE OpenFails(h) /\ UNCHANGED <<cell, disk>>
    BY <1>1, EndFrame, HandlerFrame DEF open_creat, Quiet, disk, store
  <1>2. ASSUME NEW i \in Inode, OpenTrunc(PathOf(h), i, "empty"),
               Update(fh[h], [cell[fh[h]] EXCEPT
                                !.fd = [ino |-> i, mode |-> "O_RDWR"],
                                !.flag = "FLAG_DIRTY"]),
               Goto(h, "placeholder"), UNCHANGED <<call, fh, private>>
        PROVE  /\ \A x \in Pe : \/ cell'[x].fd = cell[x].fd
                                \/ cell'[x].fd = [ino |-> i, mode |-> "O_RDWR"]
               /\ pc'[h] = "placeholder" /\ call'[h] = call[h]
               /\ lfd' = lfd /\ remote' = remote
    <2>1. fh[h] \in Pe
      BY AtPc DEF open_creat
    <2> QED BY <1>2, <2>1, SetFd
            DEF open_creat, Goto, private, store, TypeOK, HandleTypeOK
  <1> QED BY <1>1, <1>2 DEF open_creat

(* The other steps: either quiet, or one of these.                         *)
MovesContent(h) ==
    \/ /\ copy_discard(h) /\ local' = [local EXCEPT ![PathOf(h)] = NULL]
       /\ pc' = [pc EXCEPT ![h] = "download"] /\ UNCHANGED <<data, lfd>>
    \/ \E i \in Inode :
       /\ copy_download(h) /\ OpenTrunc(PathOf(h), i, "partial")
       /\ lfd' = [lfd EXCEPT ![h] = [ino |-> i, mode |-> "O_RDWR"]]
       /\ pc' = [pc EXCEPT ![h] = "fetch"]
    \/ /\ copy_fetch(h) /\ data' = [data EXCEPT ![lfd[h].ino] = remote[PathOf(h)]]
       /\ lfd' = [lfd EXCEPT ![h] = NULL] /\ pc' = [pc EXCEPT ![h] = "reopen"]
       /\ UNCHANGED local
    \/ /\ copy_reopen(h) /\ local[PathOf(h)] # NULL
       /\ lfd' = [lfd EXCEPT ![h] = [ino  |-> local[PathOf(h)],
                                     mode |-> open_flags(Mode(h))]]
       /\ pc' = [pc EXCEPT ![h] = "set_fd"] /\ UNCHANGED <<local, data>>
    \/ /\ compare_digests(h) /\ cell[fh[h]].fd # NULL
       /\ lfd' = [lfd EXCEPT ![h] = cell[fh[h]].fd]
       /\ pc' = [pc EXCEPT ![h] = "set_fd"] /\ UNCHANGED <<local, data>>
    \/ /\ dfs_release(h) /\ cell[fh[h]].fd # NULL
       /\ lfd' = [lfd EXCEPT ![h] = cell[fh[h]].fd]
       /\ pc' = [pc EXCEPT ![h] = "decref"] /\ UNCHANGED <<local, data>>

(* These steps of dfs_get_local_copy and dfs_release, when they are not    *)
(* quiet, do one of the things MovesContent lists and nothing else.        *)
LEMMA CopyMoves ==
  ASSUME TypeOK, NEW h \in Handle,
         \/ copy_discard(h) \/ copy_download(h) \/ copy_fetch(h) \/ copy_reopen(h)
         \/ compare_digests(h) \/ dfs_release(h)
  PROVE  \/ Quiet
         \/ /\ MovesContent(h)
            /\ remote' = remote /\ call' = call
            /\ \A x \in Pe : cell'[x].fd \in {cell[x].fd, NULL}
  <1>1. HandlerStep(h)
    BY DEF HandlerStep, Working, Open
  <1>2. \A x \in Pe : cell'[x].fd \in {cell[x].fd, NULL}
    BY <1>1, FdKept
    DEF open_creat, open_set_fd, copy_discard, copy_download, copy_fetch, copy_reopen,
        compare_digests, dfs_release
  <1>3. remote' = remote
    BY DEF copy_discard, copy_download, copy_fetch, copy_reopen, compare_digests,
           dfs_release, store
  <1>4. CASE OpenFails(h) /\ UNCHANGED <<local, data>>
    BY <1>2, <1>3, <1>4, EndFrame DEF Quiet
  <1>5. CASE ~(OpenFails(h) /\ UNCHANGED <<local, data>>)
    <2>1. CASE copy_discard(h) \/ copy_download(h)
      BY <1>2, <1>3, <1>5, <2>1
      DEF copy_discard, copy_download, MovesContent, Goto, private, disk
    <2>2. CASE copy_fetch(h)
      BY <1>2, <1>3, <1>5, <2>2 DEF copy_fetch, MovesContent, Goto
    <2>3. CASE copy_reopen(h)
      BY <1>2, <1>3, <1>5, <2>3 DEF copy_reopen, MovesContent, Goto, disk
    <2>4. CASE compare_digests(h)
      <3>1. CASE lfd' = [lfd EXCEPT ![h] = cell[fh[h]].fd] /\ cell[fh[h]].fd # NULL /\ Goto(h, "set_fd") /\ call' = call
        BY <1>2, <1>3, <2>4, <3>1 DEF compare_digests, MovesContent, Goto, disk
      <3>2. CASE Goto(h, "discard") /\ UNCHANGED <<call, fh, private>>
        BY <1>2, <1>3, <2>4, <3>2
        DEF compare_digests, Quiet, Goto, disk, private, TypeOK, HandleTypeOK
      <3> QED BY <1>5, <2>4, <3>1, <3>2 DEF compare_digests, disk
    <2>5. CASE dfs_release(h)
      <3>1. CASE Goto(h, "decref")
        BY <1>2, <1>3, <2>5, <3>1 DEF dfs_release, MovesContent, Goto, disk, TypeOK, HandleTypeOK
      <3>2. CASE Goto(h, "clean") /\ UNCHANGED lfd
        BY <1>2, <1>3, <2>5, <3>2
        DEF dfs_release, Quiet, Goto, disk, TypeOK, HandleTypeOK
      <3> QED BY <2>5, <3>1, <3>2 DEF dfs_release
    <2> QED BY <2>1, <2>2, <2>3, <2>4, <2>5
  <1> QED BY <1>4, <1>5

(* A file made by open_creat.                                              *)
CreatsFile(h) ==
    \E i \in Inode :
        /\ OpenTrunc(PathOf(h), i, "empty")
        /\ \A x \in Pe : \/ cell'[x].fd = cell[x].fd
                         \/ cell'[x].fd = [ino |-> i, mode |-> "O_RDWR"]
        /\ pc'[h] = "placeholder" /\ lfd' = lfd

(* A step is quiet, or a handler moves a content, or a descriptor.         *)
MovesAt(h) ==
    \/ open_creat(h) /\ CreatsFile(h) /\ remote' = remote
    \/ /\ MovesContent(h) /\ remote' = remote
       /\ \A x \in Pe : cell'[x].fd \in {cell[x].fd, NULL}
    \/ open_set_fd(h) \/ create_mknod(h) \/ dfs_write(h) \/ release_send(h)

(* The case split of the proofs below; the other handlers stay where they  *)
(* are, with their calls.                                                  *)
LEMMA StepKinds ==
  ASSUME TypeOK, [Next]_vars
  PROVE  \/ Quiet
         \/ \E h \in Handle : /\ MovesAt(h) /\ HandlerStep(h)
                              /\ call'[h] \in {call[h], NULL}
                              /\ \A g \in Handle \ {h} : pc'[g] = pc[g] /\ call'[g] = call[g]
  <1>1. CASE UNCHANGED vars
    BY <1>1 DEF vars, table, disk, store, private, Quiet
  <1>2. CASE OtherStep
    BY <1>2, QuietFrame
  <1>3. ASSUME NEW h \in Handle, HandlerStep(h)
        PROVE  \/ Quiet
               \/ /\ MovesAt(h) /\ call'[h] \in {call[h], NULL}
                  /\ \A g \in Handle \ {h} : pc'[g] = pc[g] /\ call'[g] = call[g]
    <2>1. \A g \in Handle \ {h} : pc'[g] = pc[g] /\ call'[g] = call[g]
      BY <1>3, HandlerFrame
    <2>2. CASE ~Moves(h)
      BY <1>3, <2>2, QuietFrame
    <2>3. CASE open_creat(h)
      BY <2>1, <2>3, CreatMoves DEF MovesAt, CreatsFile
    <2>4. CASE \/ copy_discard(h) \/ copy_download(h) \/ copy_fetch(h) \/ copy_reopen(h)
               \/ compare_digests(h) \/ dfs_release(h)
      BY <2>1, <2>4, CopyMoves DEF MovesAt
    <2>5. CASE open_set_fd(h) \/ create_mknod(h) \/ dfs_write(h) \/ release_send(h)
      <3>1. call'[h] \in {call[h], NULL}
        BY <2>5 DEF open_set_fd, create_mknod, dfs_write, release_send, Return, TypeOK,
                    HandleTypeOK
      <3> QED BY <2>1, <2>5, <3>1 DEF MovesAt
    <2> QED BY <2>2, <2>3, <2>4, <2>5 DEF Moves
  <1> QED BY <1>1, <1>2, <1>3, NextSplit

(* The remaining steps that move a content, as far as contents go.         *)
LEMMA OtherMoves ==
  ASSUME TypeOK, NEW h \in Handle, HandlerStep(h)
  PROVE  /\ open_set_fd(h) =>
              /\ UNCHANGED <<local, data, remote>> /\ pc'[h] = "placeholder"
              /\ lfd' = [lfd EXCEPT ![h] = NULL]
              /\ \A x \in Pe : cell'[x].fd \in {cell[x].fd, lfd[h]}
         /\ create_mknod(h) =>
              /\ UNCHANGED <<local, data, cell>> /\ pc'[h] \in {"opened", "closed"}
              /\ \A p \in Path : remote'[p] \in {remote[p], "empty"}
              /\ \A g \in Handle : lfd'[g] \in {lfd[g], NULL}
         /\ dfs_write(h) =>
              /\ UNCHANGED <<local, cell, pc, call, lfd, remote>>
              /\ \A i \in Inode : data'[i] \in {data[i], h}
         /\ release_send(h) =>
              /\ UNCHANGED <<local, data, cell, lfd>> /\ pc'[h] = "clean"
              /\ \A p \in Path : remote'[p] \in {remote[p], data[lfd[h].ino]}
  <1>1. fh[h] \in Pe \/ ~open_set_fd(h)
    BY AtPc DEF open_set_fd
  <1>2. open_set_fd(h) =>
              /\ UNCHANGED <<local, data, remote>> /\ pc'[h] = "placeholder"
              /\ lfd' = [lfd EXCEPT ![h] = NULL]
              /\ \A x \in Pe : cell'[x].fd \in {cell[x].fd, lfd[h]}
    BY <1>1, SetFd DEF open_set_fd, disk, store, Goto, TypeOK, HandleTypeOK
  <1>3. create_mknod(h) =>
              /\ UNCHANGED <<local, data, cell>> /\ pc'[h] \in {"opened", "closed"}
              /\ \A p \in Path : remote'[p] \in {remote[p], "empty"}
              /\ \A g \in Handle : lfd'[g] \in {lfd[g], NULL}
    BY DEF create_mknod, table, disk, store, private, Return, Goto, TypeOK, HandleTypeOK,
           StoreTypeOK
  <1>4. dfs_write(h) =>
              /\ UNCHANGED <<local, cell, pc, call, lfd, remote>>
              /\ \A i \in Inode : data'[i] \in {data[i], h}
    BY DEF dfs_write, table, store, TypeOK, DiskTypeOK
  <1>5. release_send(h) =>
              /\ UNCHANGED <<local, data, cell, lfd>> /\ pc'[h] = "clean"
              /\ \A p \in Path : remote'[p] \in {remote[p], data[lfd[h].ino]}
    BY DEF release_send, table, disk, private, Goto, TypeOK, HandleTypeOK, StoreTypeOK
  <1> QED BY <1>2, <1>3, <1>4, <1>5

-----------------------------------------------------------------------------
(* Nothing stale is served.                                                *)

(* The invariant that says so is kept by every step.                       *)
LEMMA FreshStep ==
  ASSUME TypeOK, FreshInv, [Next]_vars
  PROVE  FreshInv'
  <1>0. /\ local \in [Path -> Inode \cup {NULL}] /\ data \in [Inode -> Content]
        /\ lfd \in [Handle -> Descriptor \cup {NULL}]
        /\ \A x \in Pe : cell[x].fd \in Descriptor \cup {NULL}
        /\ \A h \in Handle : pc[h] \notin NoCellPc => fh[h] \in Pe
        /\ \A h \in Handle : pc[h] # "closed" => PathOf(h) \in Path
        /\ \A d \in Descriptor : d.ino \in Inode /\ d # NULL
    BY AtPc, PentryAssumption
    DEF TypeOK, DiskTypeOK, HandleTypeOK, HashTypeOK, Pentry, Descriptor
  <1>1. CASE Quiet
    BY <1>0, <1>1 DEF FreshInv, Quiet, PathOf
  <1>2. ASSUME NEW h \in Handle, MovesAt(h), HandlerStep(h), call'[h] \in {call[h], NULL},
               \A g \in Handle \ {h} : pc'[g] = pc[g] /\ call'[g] = call[g]
        PROVE  FreshInv'
    <2>1. ASSUME NEW i \in Inode, NEW c \in {"empty", "partial"},
                 OpenTrunc(PathOf(h), i, c), pc[h] # "closed"
          PROVE  /\ data'[i] # "stale"
                 /\ \A j \in Inode : data[j] # "stale" => data'[j] # "stale"
                 /\ \A p \in Path : local'[p] \in {local[p], i}
      BY <1>0, <2>1 DEF OpenTrunc
    <2>2. CASE open_creat(h) /\ CreatsFile(h) /\ remote' = remote
      <3>1. PICK i \in Inode :
              /\ OpenTrunc(PathOf(h), i, "empty")
              /\ \A x \in Pe : \/ cell'[x].fd = cell[x].fd
                               \/ cell'[x].fd = [ino |-> i, mode |-> "O_RDWR"]
              /\ pc'[h] = "placeholder" /\ lfd' = lfd
        BY <2>2 DEF CreatsFile
      <3>2. pc[h] # "closed"
        BY <2>2 DEF open_creat
      <3> QED BY <1>0, <1>2, <2>1, <2>2, <3>1, <3>2 DEF FreshInv, PathOf
    <2>3. CASE MovesContent(h) /\ remote' = remote
               /\ \A x \in Pe : cell'[x].fd \in {cell[x].fd, NULL}
      <3>1. CASE copy_discard(h) /\ local' = [local EXCEPT ![PathOf(h)] = NULL]
                 /\ UNCHANGED <<data, lfd>>
        <4>1. call' = call /\ pc[h] # "closed"
          BY <3>1 DEF copy_discard
        <4> QED BY <1>0, <1>2, <2>3, <3>1, <4>1 DEF FreshInv, PathOf
      <3>2. ASSUME NEW i \in Inode, copy_download(h), OpenTrunc(PathOf(h), i, "partial"),
                   lfd' = [lfd EXCEPT ![h] = [ino |-> i, mode |-> "O_RDWR"]],
                   pc' = [pc EXCEPT ![h] = "fetch"]
            PROVE  FreshInv'
        <4>1. pc[h] = "download" /\ pc'[h] = "fetch"
          BY <3>2 DEF copy_download, TypeOK, HandleTypeOK
        <4>2. call' = call
          BY <3>2, <4>1, EndFrame DEF copy_download
        <4>3. local'[PathOf(h)] = i
          BY <1>0, <3>2, <4>1 DEF OpenTrunc
        <4>4. /\ data'[i] # "stale"
              /\ \A j \in Inode : data[j] # "stale" => data'[j] # "stale"
              /\ \A p \in Path : local'[p] \in {local[p], i}
          BY <2>1, <3>2, <4>1
        <4>5. \A x \in Pe : cell'[x].fd # NULL => data'[cell'[x].fd.ino] # "stale"
          BY <1>0, <2>3, <4>4 DEF FreshInv
        <4>6. ASSUME NEW g \in Handle
              PROVE  /\ lfd'[g] # NULL => data'[lfd'[g].ino] # "stale"
                     /\ pc'[g] \in {"download", "fetch", "reopen"} /\ local'[PathOf(g)] # NULL
                          => data'[local'[PathOf(g)]] # "stale"
          <5>1. CASE g = h
            BY <1>0, <3>2, <4>3, <4>4, <5>1
          <5>2. CASE g # h
            BY <1>0, <1>2, <3>2, <4>4, <5>2 DEF FreshInv
          <5> QED BY <5>1, <5>2
        <4> QED BY <2>3, <4>2, <4>5, <4>6 DEF FreshInv, PathOf
      <3>3. CASE copy_fetch(h) /\ data' = [data EXCEPT ![lfd[h].ino] = remote[PathOf(h)]]
                 /\ lfd' = [lfd EXCEPT ![h] = NULL] /\ UNCHANGED local
                 /\ pc' = [pc EXCEPT ![h] = "reopen"]
        <4>1. /\ pc[h] = "fetch" /\ lfd[h].ino \in Inode /\ call' = call
              /\ remote[PathOf(h)] # "stale"
          BY <1>0, <3>3, EndFrame
          DEF copy_fetch, TypeOK, HandleTypeOK, LocalsOK, FreshInv
        <4>2. \A j \in Inode : data[j] # "stale" => data'[j] # "stale"
          BY <1>0, <3>3, <4>1
        <4> QED BY <1>0, <1>2, <2>3, <3>3, <4>1, <4>2 DEF FreshInv, PathOf
      <3>4. CASE /\ UNCHANGED <<local, data>> /\ pc'[h] \in {"set_fd", "decref"}
                 /\ \E d \in Descriptor : /\ lfd' = [lfd EXCEPT ![h] = d]
                                          /\ data[d.ino] # "stale"
        BY <1>0, <1>2, <2>3, <3>4 DEF FreshInv, PathOf
      <3>5. CASE copy_reopen(h) /\ local[PathOf(h)] # NULL
        <4>1. pc[h] = "reopen" /\ open_flags(Mode(h)) \in {"O_RDONLY", "O_RDWR"}
          BY <3>5 DEF copy_reopen, open_flags
        <4>2. [ino |-> local[PathOf(h)], mode |-> open_flags(Mode(h))] \in Descriptor
          BY <1>0, <3>5, <4>1 DEF Descriptor
        <4>3. data[local[PathOf(h)]] # "stale"
          BY <3>5, <4>1 DEF FreshInv
        <4> QED BY <2>3, <3>4, <3>5, <4>1, <4>2, <4>3, <1>0
                DEF MovesContent, copy_reopen, copy_discard, copy_download, copy_fetch,
                    compare_digests, dfs_release, TypeOK, HandleTypeOK
      <3>6. CASE (compare_digests(h) \/ dfs_release(h)) /\ cell[fh[h]].fd # NULL
        <4>1. cell[fh[h]].fd \in Descriptor /\ data[cell[fh[h]].fd.ino] # "stale"
          BY <1>0, <3>6 DEF compare_digests, dfs_release, FreshInv
        <4> QED BY <2>3, <3>4, <3>6, <4>1
                DEF MovesContent, copy_reopen, copy_discard, copy_download, copy_fetch,
                    compare_digests, dfs_release, TypeOK, HandleTypeOK
      <3> QED BY <2>3, <3>1, <3>2, <3>3, <3>5, <3>6 DEF MovesContent
    <2>4. CASE open_set_fd(h)
      BY <1>0, <1>2, <2>4, OtherMoves DEF FreshInv, PathOf
    <2>5. CASE create_mknod(h)
      BY <1>0, <1>2, <2>5, OtherMoves DEF FreshInv, PathOf
    <2>6. CASE dfs_write(h)
      <3>1. h # "stale"
        BY PentryAssumption
      <3> QED BY <1>0, <1>2, <2>6, <3>1, OtherMoves DEF FreshInv, PathOf
    <2>7. CASE release_send(h)
      <3>1. data[lfd[h].ino] # "stale"
        BY <2>7 DEF release_send, FreshInv, TypeOK, LocalsOK
      <3> QED BY <1>0, <1>2, <2>7, <3>1, OtherMoves DEF FreshInv, PathOf
    <2> QED BY <1>2, <2>2, <2>3, <2>4, <2>5, <2>6, <2>7 DEF MovesAt
  <1> QED BY <1>1, <1>2, StepKinds

(* Before the first open of a mount no descriptor names a left-over.       *)
LEMMA FreshInit == Init => FreshInv
  BY PentryAssumption DEF Init, FreshInv, HashInit, pentry_free, pentry_new, Content

(* What a handle that is open reads is then no left-over.                  *)
LEMMA FreshServed ==
  ASSUME TypeOK, OpenHasFd, FreshInv
  PROVE  NoStaleServed
  <1> SUFFICES ASSUME NEW h \in Handle, pc[h] = "opened", Live(fh[h])
               PROVE  data[cell[fh[h]].fd.ino] # "stale"
    BY DEF NoStaleServed
  <1>1. fh[h] \in Pe /\ cell[fh[h]].fd # NULL
    BY AtPc DEF OpenHasFd
  <1> QED BY <1>1 DEF FreshInv

(* file.c, open.c: what an earlier mount left in the cache directory is    *)
(* never served, for any faults, workers and collections.                  *)
THEOREM NothingStale == Spec => []NoStaleServed
  <1>1. TypeOK /\ FreshInv /\ [Next]_vars => FreshInv'
    BY FreshStep
  <1>2. TypeOK /\ OpenHasFd /\ FreshInv => NoStaleServed
    BY FreshServed
  <1> QED BY <1>1, <1>2, FreshInit, TypeCorrect, DescriptorThere, PTL DEF Spec

-----------------------------------------------------------------------------
(* Writers can write.                                                      *)

(* A handler has the call the kernel gave it, perhaps without O_CREAT.     *)
LEMMA CallFrame ==
  ASSUME TypeOK, [Next]_vars, NEW h \in Handle, call'[h] # NULL
  PROVE  \E c \in Calls \cup ({call[h]} \ {NULL}) :
           call'[h] \in {c, [c EXCEPT !.flags = c.flags \ {"O_CREAT"}]}
  <1> DEFINE Same == call'[h] # NULL => call'[h] = call[h]
  <1>1. CASE UNCHANGED vars
    BY <1>1 DEF vars
  <1>2. CASE OtherStep
    <2>1. CASE \E g \in Handle : Kernel(g)
      BY <2>1 DEF Kernel, KernelLookup, KernelStat, KernelOpen, TypeOK, HandleTypeOK
    <2>2. CASE ~ \E g \in Handle : Kernel(g)
      <3>1. call' = call
        BY <1>2, <2>2 DEF OtherStep, GcStep, KernelForget, gc_callback, gc_trylock, gc_check,
                    gc_unlink, gc_remove, Age
      <3> QED BY <3>1
    <2> QED BY <2>1, <2>2
  <1>3. ASSUME NEW g \in Handle, HandlerStep(g), g # h
        PROVE  Same
    BY <1>3, HandlerFrame
  <1>4. CASE HandlerStep(h)
    <2>1. CASE Return(h) \/ OpenFails(h)
      BY <2>1, EndFrame
    <2>2. CASE (getattr_dispatch(h) \/ getattr_mark(h)) /\ Found(h)
      <3>1. call[h] # NULL
        BY <2>2 DEF getattr_dispatch, getattr_mark, TypeOK, LocalsOK
      <3>2. \/ Return(h)
            \/ call'[h] = [call[h] EXCEPT !.flags = Flags(h) \ {"O_CREAT"}]
        BY <2>2 DEF Found, TypeOK, HandleTypeOK
      <3> QED BY <2>1, <3>1, <3>2 DEF Flags
    <2>3. CASE /\ ~Return(h) /\ ~OpenFails(h)
               /\ ~(getattr_dispatch(h) \/ getattr_mark(h)) \/ ~Found(h)
      <3>1. CASE Getattr(h)
        BY <2>3, <3>1
        DEF Getattr, dfs_getattr, getattr_insert, getattr_dispatch, getattr_unset,
            getattr_mark, NotFound
      <3>2. CASE Open(h)
        BY <2>3, <3>2
        DEF Open, populate_hash, open_incref, open_lock, open_creat, open_existing,
            download_headers, compare_digests, copy_discard, copy_download, copy_fetch,
            copy_reopen, open_set_fd, open_placeholder, dfs_create, create_mknod
      <3>3. CASE ~Getattr(h) /\ ~Open(h)
        BY <1>4, <2>3, <3>3
        DEF HandlerStep, Working, Release, release_decref, release_send, release_clean,
            UseAfterFree, dfs_open, create_namei, dfs_write, dfs_release
      <3> QED BY <3>1, <3>2, <3>3
    <2> QED BY <2>1, <2>2, <2>3
  <1> QED BY <1>1, <1>2, <1>3, <1>4, NextSplit

(* All applications open files for writing.                                *)
WritersOnly == \A c \in Calls : WriterCall(c)

(* Then no descriptor is opened read-only, by any step.                    *)
LEMMA WritableStep ==
  ASSUME WritersOnly, TypeOK, WritableInv, [Next]_vars
  PROVE  WritableInv'
  <1>0. /\ lfd \in [Handle -> Descriptor \cup {NULL}]
        /\ \A h \in Handle : pc[h] \notin NoCellPc => fh[h] \in Pe
        /\ \A h \in Handle : pc[h] # "closed" => call[h] # NULL
    BY AtPc DEF TypeOK, HandleTypeOK, LocalsOK
  <1>1. ASSUME NEW h \in Handle, call'[h] # NULL
        PROVE  WriterCall(call'[h])
    <2>1. PICK c \in Calls \cup ({call[h]} \ {NULL}) :
            call'[h] \in {c, [c EXCEPT !.flags = c.flags \ {"O_CREAT"}]}
      BY <1>1, CallFrame
    <2>2. c \in Call /\ WriterCall(c)
      BY <2>1, FileCacheAssumption DEF WritersOnly, WritableInv, TypeOK, HandleTypeOK
    <2> QED BY <2>1, <2>2 DEF WriterCall, Call
  <1>2. ASSUME NEW h \in Handle, call[h] # NULL
        PROVE  open_flags(Mode(h)) = "O_RDWR"
    BY <1>2 DEF WritableInv, WriterCall, Mode, get_mode_from_flags, open_flags
  <1>3. CASE Quiet
    BY <1>1, <1>3 DEF WritableInv, Quiet
  <1>4. ASSUME NEW h \in Handle, MovesAt(h), HandlerStep(h)
        PROVE  WritableInv'
    <2>1. CASE open_creat(h) /\ CreatsFile(h)
      <3>1. /\ lfd' = lfd
            /\ \A x \in Pe : cell'[x].fd = cell[x].fd \/ cell'[x].fd.mode = "O_RDWR"
        BY <2>1 DEF CreatsFile
      <3> QED BY <1>1, <3>1 DEF WritableInv
    <2>2. CASE MovesContent(h) /\ \A x \in Pe : cell'[x].fd \in {cell[x].fd, NULL}
      <3>1. \A g \in Handle : lfd'[g] # NULL => lfd'[g].mode = "O_RDWR"
        <4>1. pc[h] # "closed" /\ pc[h] \notin NoCellPc
          BY <2>2
          DEF MovesContent, copy_reopen, copy_discard, copy_download, copy_fetch,
              compare_digests, dfs_release
        <4>2. open_flags(Mode(h)) = "O_RDWR" /\ fh[h] \in Pe
          BY <1>0, <1>2, <4>1
        <4> QED BY <1>0, <2>2, <4>2 DEF MovesContent, WritableInv
      <3> QED BY <1>1, <2>2, <3>1 DEF WritableInv
    <2>3. CASE open_set_fd(h) \/ create_mknod(h)
      BY <1>0, <1>1, <1>4, <2>3, OtherMoves DEF WritableInv
    <2>4. CASE dfs_write(h) \/ release_send(h)
      BY <1>0, <1>1, <1>4, <2>4, OtherMoves DEF WritableInv
    <2> QED BY <1>4, <2>1, <2>2, <2>3, <2>4 DEF MovesAt
  <1> QED BY <1>3, <1>4, StepKinds

(* write.c: when all applications open for writing the descriptor dfs_write *)
(* uses can be written to, whatever handle put it into the cell.           *)
THEOREM Writable == WritersOnly /\ Spec => []WritersCanWrite
  <1> SUFFICES ASSUME WritersOnly PROVE Spec => []WritersCanWrite
    OBVIOUS
  <1>1. Init => WritableInv
    BY DEF Init, WritableInv, HashInit, pentry_free, pentry_new
  <1>2. TypeOK /\ WritableInv /\ [Next]_vars => WritableInv'
    BY WritableStep
  <1>3. TypeOK /\ OpenHasFd /\ WritableInv => WritersCanWrite
    <2> SUFFICES ASSUME TypeOK, OpenHasFd, WritableInv, NEW h \in Handle,
                        pc[h] = "opened", Live(fh[h])
                 PROVE  cell[fh[h]].fd.mode = "O_RDWR"
      BY DEF WritersCanWrite
    <2>1. fh[h] \in Pe /\ cell[fh[h]].fd # NULL
      BY AtPc DEF OpenHasFd
    <2> QED BY <2>1 DEF WritableInv
  <1> QED BY <1>1, <1>2, <1>3, TypeCorrect, DescriptorThere, PTL DEF Spec

-----------------------------------------------------------------------------
(* One worker thread, or -s: what handles read is whole.                   *)

(* A request that starts when the only worker is free finds no other.      *)
LEMMA AloneAtStart ==
  ASSUME Workers = 1, WorkerFree
  PROVE  \A h \in Handle : pc[h] \in IdlePc
  <1> DEFINE S == {h \in Handle : pc[h] \notin IdlePc}
  <1>1. IsFiniteSet(S) /\ Cardinality(S) \in Nat /\ Cardinality(S) < 1
    BY FileCacheAssumption, FS_Subset, FS_CardinalityType DEF WorkerFree
  <1>2. S = {}
    BY <1>1, FS_EmptySet
  <1> QED BY <1>2

(* A handler that is at work was at work, or has just started.             *)
LEMMA WorkFrame ==
  ASSUME TypeOK, NEW h \in Handle, HandlerStep(h) \/ Kernel(h), pc'[h] \notin IdlePc
  PROVE  pc[h] \notin IdlePc \/ WorkerFree
  <1>1. CASE Kernel(h)
    BY <1>1 DEF Kernel, KernelLookup, KernelStat, KernelOpen, Goto, TypeOK, HandleTypeOK
  <1>2. CASE Getattr(h) \/ Open(h) \/ Release(h)
    BY <1>2
    DEF Getattr, dfs_getattr, getattr_insert, getattr_dispatch, getattr_unset, getattr_mark,
        Open, populate_hash, open_incref, open_lock, open_creat, open_existing,
        download_headers, compare_digests, copy_discard, copy_download, copy_fetch,
        copy_reopen, open_set_fd, open_placeholder, dfs_create, create_mknod,
        Release, release_decref, release_send, release_clean
  <1>3. CASE \/ UseAfterFree(h) \/ dfs_open(h) \/ create_namei(h) \/ dfs_write(h)
             \/ dfs_release(h)
    BY <1>3
    DEF UseAfterFree, dfs_open, create_namei, dfs_write, dfs_release, Goto, TypeOK,
        HandleTypeOK
  <1> QED BY <1>1, <1>2, <1>3 DEF HandlerStep, Working

(* One worker runs one request.                                            *)
LEMMA SoloStep ==
  ASSUME Workers = 1, TypeOK, Solo, [Next]_vars
  PROVE  Solo'
  <1>1. CASE \E h \in Handle : HandlerStep(h) \/ Kernel(h)
    <2>1. PICK h \in Handle : HandlerStep(h) \/ Kernel(h)
      BY <1>1
    <2>2. \A g \in Handle \ {h} : pc'[g] = pc[g]
      BY <2>1, HandlerFrame
      DEF Kernel, KernelLookup, KernelStat, KernelOpen, Goto, TypeOK, HandleTypeOK
    <2>3. pc'[h] \notin IdlePc => \A g \in Handle \ {h} : pc[g] \in IdlePc
      BY <2>1, WorkFrame, AloneAtStart DEF Solo
    <2> QED BY <2>2, <2>3 DEF Solo
  <1>2. CASE pc' = pc
    BY <1>2 DEF Solo
  <1>3. CASE ~ \E h \in Handle : HandlerStep(h) \/ Kernel(h)
    <2>1. pc' = pc
      BY <1>3, NextSplit
      DEF vars, OtherStep, GcStep, KernelForget, gc_callback, gc_trylock, gc_check, gc_unlink,
          gc_remove, Age
    <2> QED BY <1>2, <2>1
  <1> QED BY <1>1, <1>3

(* Every step keeps what descriptors name whole.                           *)
LEMMA WholeStep ==
  ASSUME TypeOK, Solo, WholeInv, [Next]_vars
  PROVE  WholeInv'
  <1>0. /\ local \in [Path -> Inode \cup {NULL}] /\ data \in [Inode -> Content]
        /\ lfd \in [Handle -> Descriptor \cup {NULL}]
        /\ \A x \in Pe : cell[x].fd \in Descriptor \cup {NULL}
        /\ \A h \in Handle : pc[h] \notin NoCellPc => fh[h] \in Pe
        /\ \A h \in Handle : pc[h] # "closed" => PathOf(h) \in Path
        /\ \A d \in Descriptor : d.ino \in Inode /\ d # NULL
    BY AtPc, PentryAssumption
    DEF TypeOK, DiskTypeOK, HandleTypeOK, HashTypeOK, Pentry, Descriptor
  <1>1. CASE Quiet
    BY <1>0, <1>1 DEF WholeInv, Quiet, PathOf
  <1>2. ASSUME NEW h \in Handle, MovesAt(h), HandlerStep(h), call'[h] \in {call[h], NULL},
               \A g \in Handle \ {h} : pc'[g] = pc[g] /\ call'[g] = call[g]
        PROVE  WholeInv'
    <2>0. pc[h] \notin IdlePc => \A g \in Handle \ {h} : pc'[g] \in IdlePc
      BY <1>2 DEF Solo
    <2>1. CASE open_creat(h) /\ CreatsFile(h) /\ remote' = remote
      <3>1. PICK i \in Inode :
              /\ OpenTrunc(PathOf(h), i, "empty")
              /\ \A x \in Pe : \/ cell'[x].fd = cell[x].fd
                               \/ cell'[x].fd = [ino |-> i, mode |-> "O_RDWR"]
              /\ pc'[h] = "placeholder" /\ lfd' = lfd
        BY <2>1 DEF CreatsFile
      <3>2. pc[h] = "creat"
        BY <2>1 DEF open_creat
      <3>3. data'[i] = "empty" /\ \A j \in Inode : j # i => data'[j] = data[j]
        BY <1>0, <3>1 DEF OpenTrunc
      <3>4. \A x \in Pe : cell'[x].fd # NULL => data'[cell'[x].fd.ino] # "partial"
        BY <1>0, <3>1, <3>3 DEF WholeInv
      <3>5. \A g \in Handle : pc'[g] \in IdlePc \cup {"placeholder"}
        BY <2>0, <3>1, <3>2
      <3> QED BY <2>1, <3>4, <3>5 DEF WholeInv
    <2>2. CASE MovesContent(h) /\ remote' = remote
               /\ \A x \in Pe : cell'[x].fd \in {cell[x].fd, NULL}
      <3>1. CASE copy_discard(h) /\ local' = [local EXCEPT ![PathOf(h)] = NULL]
                 /\ UNCHANGED <<data, lfd>>
        <4>1. call' = call /\ pc[h] = "discard" /\ pc'[h] = "download"
          BY <3>1 DEF copy_discard, Goto, TypeOK, HandleTypeOK
        <4> QED BY <1>0, <2>0, <2>2, <3>1, <4>1 DEF WholeInv, PathOf
      <3>2. ASSUME NEW i \in Inode, copy_download(h), OpenTrunc(PathOf(h), i, "partial"),
                   lfd' = [lfd EXCEPT ![h] = [ino |-> i, mode |-> "O_RDWR"]],
                   pc' = [pc EXCEPT ![h] = "fetch"]
            PROVE  WholeInv'
        <4>1. pc[h] = "download" /\ pc'[h] = "fetch"
          BY <3>2 DEF copy_download, TypeOK, HandleTypeOK
        <4>2. call' = call
          BY <3>2, <4>1, EndFrame DEF copy_download
        <4>3. local[PathOf(h)] = NULL /\ FreeInode(i)
          BY <3>2, <4>1 DEF OpenTrunc, WholeInv
        <4>4. /\ local'[PathOf(h)] = i
              /\ \A j \in Inode : j # i => data'[j] = data[j]
          BY <1>0, <3>2, <4>1 DEF OpenTrunc
        <4>5. \A x \in Pe : cell'[x].fd # NULL => data'[cell'[x].fd.ino] # "partial"
          BY <1>0, <2>2, <4>3, <4>4 DEF FreeInode, WholeInv
        <4>6. lfd'[h].ino = i
          BY <1>0, <3>2
        <4> QED BY <2>0, <2>2, <4>1, <4>2, <4>4, <4>5, <4>6 DEF WholeInv, PathOf
      <3>3. CASE copy_fetch(h) /\ data' = [data EXCEPT ![lfd[h].ino] = remote[PathOf(h)]]
                 /\ lfd' = [lfd EXCEPT ![h] = NULL] /\ UNCHANGED local
                 /\ pc' = [pc EXCEPT ![h] = "reopen"]
        <4>1. /\ pc[h] = "fetch" /\ lfd[h].ino \in Inode /\ call' = call
              /\ remote[PathOf(h)] # "partial" /\ local[PathOf(h)] \in {NULL, lfd[h].ino}
          BY <1>0, <3>3, EndFrame
          DEF copy_fetch, TypeOK, HandleTypeOK, LocalsOK, WholeInv
        <4>2. /\ \A j \in Inode : data[j] # "partial" => data'[j] # "partial"
              /\ data'[lfd[h].ino] # "partial"
          BY <1>0, <3>3, <4>1
        <4>3. pc'[h] = "reopen"
          BY <3>3 DEF TypeOK, HandleTypeOK
        <4> QED BY <1>0, <2>0, <2>2, <3>3, <4>1, <4>2, <4>3 DEF WholeInv, PathOf
      <3>4. CASE /\ UNCHANGED <<local, data>> /\ pc'[h] \in {"set_fd", "decref"}
                 /\ \E d \in Descriptor : /\ lfd' = [lfd EXCEPT ![h] = d]
                                          /\ data[d.ino] # "partial"
        BY <1>0, <1>2, <2>2, <3>4 DEF WholeInv, PathOf
      <3>5. CASE copy_reopen(h) /\ local[PathOf(h)] # NULL
        <4>1. pc[h] = "reopen" /\ open_flags(Mode(h)) \in {"O_RDONLY", "O_RDWR"}
          BY <3>5 DEF copy_reopen, open_flags
        <4>2. [ino |-> local[PathOf(h)], mode |-> open_flags(Mode(h))] \in Descriptor
          BY <1>0, <3>5, <4>1 DEF Descriptor
        <4>3. data[local[PathOf(h)]] # "partial"
          BY <3>5, <4>1 DEF WholeInv
        <4> QED BY <2>2, <3>4, <3>5, <4>1, <4>2, <4>3, <1>0
                DEF MovesContent, copy_reopen, copy_discard, copy_download, copy_fetch,
                    compare_digests, dfs_release, TypeOK, HandleTypeOK
      <3>6. CASE (compare_digests(h) \/ dfs_release(h)) /\ cell[fh[h]].fd # NULL
        <4>1. cell[fh[h]].fd \in Descriptor /\ data[cell[fh[h]].fd.ino] # "partial"
          BY <1>0, <3>6 DEF compare_digests, dfs_release, WholeInv
        <4> QED BY <2>2, <3>4, <3>6, <4>1
                DEF MovesContent, copy_reopen, copy_discard, copy_download, copy_fetch,
                    compare_digests, dfs_release, TypeOK, HandleTypeOK
      <3> QED BY <2>2, <3>1, <3>2, <3>3, <3>5, <3>6 DEF MovesContent
    <2>3. CASE open_set_fd(h)
      <3>1. pc[h] = "set_fd" /\ data[lfd[h].ino] # "partial"
        BY <2>3 DEF open_set_fd, WholeInv
      <3> QED BY <1>0, <1>2, <2>0, <2>3, <3>1, OtherMoves DEF WholeInv, PathOf
    <2>4. CASE create_mknod(h)
      BY <1>0, <1>2, <2>4, <2>0, OtherMoves DEF WholeInv, PathOf, create_mknod
    <2>5. CASE dfs_write(h)
      <3>1. /\ h # "partial"
            /\ \A g \in Handle : pc[g] \in {"set_fd", "decref", "send"} => lfd[g] # NULL
        BY PentryAssumption DEF TypeOK, LocalsOK
      <3>2. /\ UNCHANGED <<local, cell, pc, call, lfd, remote>>
            /\ \A i \in Inode : data[i] # "partial" => data'[i] # "partial"
        BY <1>2, <2>5, <3>1, OtherMoves
      <3> QED BY <1>0, <3>1, <3>2 DEF WholeInv, PathOf
    <2>6. CASE release_send(h)
      <3>1. data[lfd[h].ino] # "partial"
        BY <2>6 DEF release_send, WholeInv
      <3> QED BY <1>0, <1>2, <2>6, <3>1, OtherMoves DEF WholeInv, PathOf
    <2> QED BY <1>2, <2>1, <2>2, <2>3, <2>4, <2>5, <2>6 DEF MovesAt
  <1> QED BY <1>1, <1>2, StepKinds

(* With one worker, in every reachable state.                              *)
LEMMA Wholes == Workers = 1 /\ Spec => [](Solo /\ WholeInv)
  <1> SUFFICES ASSUME Workers = 1 PROVE Spec => [](Solo /\ WholeInv)
    OBVIOUS
  <1>1. Init => Solo /\ WholeInv
    BY PentryAssumption
    DEF Init, Solo, WholeInv, HashInit, pentry_free, pentry_new, Content
  <1>2. TypeOK /\ Solo /\ WholeInv /\ [Next]_vars => Solo' /\ WholeInv'
    BY SoloStep, WholeStep
  <1> QED BY <1>1, <1>2, TypeCorrect, PTL DEF Spec

(* file.c: with one worker an open handle reads a whole file, whatever     *)
(* downloads failed half way and whatever the collector does meanwhile.    *)
THEOREM HandlesReadWhole == Workers = 1 /\ Spec => []WholeFile
  <1> SUFFICES ASSUME Workers = 1 PROVE Spec => []WholeFile
    OBVIOUS
  <1>1. TypeOK /\ OpenHasFd /\ WholeInv => WholeFile
    <2> SUFFICES ASSUME TypeOK, OpenHasFd, WholeInv, NEW h \in Handle,
                        pc[h] = "opened", Live(fh[h])
                 PROVE  data[cell[fh[h]].fd.ino] # "partial"
      BY DEF WholeFile
    <2>1. fh[h] \in Pe /\ cell[fh[h]].fd # NULL
      BY AtPc DEF OpenHasFd
    <2> QED BY <2>1 DEF WholeInv
  <1> QED BY <1>1, Wholes, TypeCorrect, DescriptorThere, PTL

(* release.c: with one worker no release sends an unfinished download or a *)
(* left-over to the store.                                                 *)
THEOREM SendsWhole == Workers = 1 /\ Spec => []RemoteWhole
  <1> SUFFICES ASSUME Workers = 1 PROVE Spec => []RemoteWhole
    OBVIOUS
  <1>1. FreshInv /\ WholeInv => RemoteWhole
    BY DEF FreshInv, WholeInv, RemoteWhole
  <1>2. TypeOK /\ FreshInv /\ [Next]_vars => FreshInv'
    BY FreshStep
  <1> QED BY <1>1, <1>2, FreshInit, Wholes, TypeCorrect, PTL DEF Spec

-----------------------------------------------------------------------------
(* One worker thread: what the collector takes away.                       *)

(* The collector, the kernel and time keep KeptInv, and free no cell that  *)
(* a writer has open.                                                      *)
LEMMA KeptOther ==
  ASSUME TypeOK, LockInv, KeptInv, OpenWriterKept, OtherStep
  PROVE  KeptInv' /\ OpenWriterKept'
  <1>0. /\ hash \in [Path -> Pe \cup {NULL}] /\ cell \in [Pe -> Pentry]
        /\ gcpc # "idle" => gcpe \in Pe /\ gcpath \in Path /\ gcpe # NULL
        /\ \A h \in Handle : pc[h] # "closed" => PathOf(h) \in Path
        /\ \A h \in Handle : pc[h] \in OwnerPc => fh[h] \in Pe
        /\ \A h \in Handle : h # Gc
        /\ NULL \notin Pe
    BY AtPc, PentryAssumption DEF TypeOK, HashTypeOK, GcTypeOK
  <1>1. /\ fh' = fh
        /\ \A h \in Handle :
             /\ pc'[h] \in OwnerPc \cup {"getattr_insert", "populate"}
                  => pc'[h] = pc[h] /\ call'[h] = call[h]
             /\ Writer(h)' <=> call'[h] # NULL /\ get_mode_from_flags(call'[h]) # "MODE_RDONLY"
             /\ Writer(h) <=> call[h] # NULL /\ get_mode_from_flags(call[h]) # "MODE_RDONLY"
    BY OtherFrame DEF Writer, NeedsLock, Mode
  <1>2. CASE \E h \in Handle : Kernel(h)
    <2>1. UNCHANGED <<hash, cell, gcpc, gcpe, gcpath>>
      BY <1>2 DEF Kernel, KernelLookup, KernelStat, KernelOpen, table, gcvars
    <2> QED BY <1>1, <2>1 DEF KeptInv, OpenWriterKept, Live, PathOf
  <1>3. CASE \E p \in Path : KernelForget(p) \/ gc_callback(p)
    <2>1. /\ UNCHANGED <<hash, cell>>
          /\ \/ UNCHANGED <<gcpc, gcpe, gcpath>>
             \/ gcpc' = "trylock" /\ \E p \in Path : gcpath' = p /\ gcpe' = hash[p]
      BY <1>3 DEF KernelForget, gc_callback, table, gcvars
    <2> QED BY <1>1, <2>1 DEF KeptInv, OpenWriterKept, Live, PathOf
  <1>4. CASE gc_trylock \/ gc_check
    <2>1. ASSUME NEW m, Update(gcpe, [cell[gcpe] EXCEPT !.mutex = m]), gcpe \in Pe
          PROVE  /\ \A x \in Pe : cell'[x].state = cell[x].state
                 /\ cell'[gcpe].mutex = m
      BY <1>0, <2>1 DEF Update, Pentry
    <2>2. hash' = hash /\ gcpe \in Pe
      BY <1>0, <1>4 DEF gc_trylock, gc_check
    <2>3. \A x \in Pe : cell'[x].state = cell[x].state
      BY <1>4, <2>1, <2>2 DEF gc_trylock, gc_check, pentry_lock, pentry_unlock
    <2>4. /\ gcpc' # "idle" => gcpe' = gcpe /\ gcpath' = gcpath /\ gcpc # "idle"
          /\ gcpc' \in {"check", "unlink", "remove"} => cell'[gcpe].mutex = Gc
      BY <1>4, <2>1, <2>2 DEF gc_trylock, gc_check, pentry_lock, GcReturn, KeptInv
    <2> QED BY <1>0, <1>1, <2>2, <2>3, <2>4 DEF KeptInv, OpenWriterKept, Live, PathOf
  <1>5. CASE gc_unlink
    <2>1. /\ UNCHANGED <<hash, cell, gcpe, gcpath>>
          /\ gcpc = "unlink" /\ gcpc' = "remove"
      BY <1>5 DEF gc_unlink, table
    <2> QED BY <1>1, <2>1 DEF KeptInv, OpenWriterKept, Live, PathOf
  <1>7. CASE \E i \in Inode : Age(i)
    <2>1. UNCHANGED <<hash, cell, gcpc, gcpe, gcpath>>
      BY <1>7 DEF Age, table, gcvars
    <2> QED BY <1>1, <2>1 DEF KeptInv, OpenWriterKept, Live, PathOf
  <1>6. CASE gc_remove
    <2>1. /\ gcpc = "remove" /\ gcpc' = "idle" /\ hash[gcpath] = gcpe
          /\ gcpe \in Pe /\ gcpath \in Path /\ cell[gcpe].mutex = Gc
          /\ hash' = [hash EXCEPT ![gcpath] = NULL]
          /\ \A y \in Pe \ {gcpe} : cell'[y] = cell[y]
      BY <1>0, <1>6 DEF gc_remove, GcReturn, hash_remove, KeptInv
    <2>2. \A p \in Path : hash'[p] # NULL => p # gcpath /\ hash'[p] = hash[p]
      BY <1>0, <2>1
    <2>3. \A p \in Path : hash'[p] # NULL => hash[p] \in Pe \ {gcpe}
      BY <1>0, <2>1, <2>2 DEF KeptInv
    <2>4. \A h \in Handle : pc[h] \in OwnerPc /\ Writer(h) => fh[h] # gcpe
      BY <1>0, <2>1 DEF LockInv, OpenWriterKept
    <2>5. OpenWriterKept'
      BY <1>0, <1>1, <2>1, <2>4 DEF OpenWriterKept, Live
    <2>6. /\ \A p \in Path : hash'[p] # NULL => cell'[hash'[p]].state = "live"
          /\ \A p, q \in Path : hash'[p] # NULL /\ hash'[p] = hash'[q] => p = q
      BY <2>1, <2>2, <2>3 DEF KeptInv, Live
    <2>7. \A h \in Handle :
            pc'[h] \in {"getattr_insert", "populate"} => hash'[PathOf(h)'] = NULL
      BY <1>0, <1>1, <2>1 DEF KeptInv, PathOf
    <2> QED BY <2>1, <2>5, <2>6, <2>7 DEF KeptInv, Live
  <1> QED BY <1>2, <1>3, <1>4, <1>5, <1>6, <1>7 DEF OtherStep, GcStep

(* So do the handlers, which insert entries only where there is none.      *)
LEMMA KeptHandle ==
  ASSUME TypeOK, LockInv, Solo, KeptInv, OpenWriterKept,
         NEW h \in Handle, HandlerStep(h)
  PROVE  KeptInv' /\ OpenWriterKept'
  <1>0. /\ hash \in [Path -> Pe \cup {NULL}] /\ cell \in [Pe -> Pentry]
        /\ gcpc # "idle" => gcpe \in Pe /\ gcpath \in Path /\ gcpe # NULL
        /\ \A g \in Handle : pc[g] # "closed" => PathOf(g) \in Path
        /\ \A g \in Handle : pc[g] \in OwnerPc => fh[g] \in Pe
        /\ \A g \in Handle : g # Gc
        /\ NULL \notin Pe
    BY AtPc, PentryAssumption DEF TypeOK, HashTypeOK, GcTypeOK
  <1>1. /\ UNCHANGED <<gcpc, gcpe, gcpath>>
        /\ \A g \in Handle \ {h} : /\ pc'[g] = pc[g] /\ fh'[g] = fh[g]
                                   /\ call'[g] = call[g]
                                   /\ Writer(g)' <=> Writer(g)
    BY HandlerFrame DEF gcvars, Writer, NeedsLock, Mode
  <1>2. CASE getattr_insert(h) \/ populate_hash(h)
    <2>1. PathOf(h) \in Path /\ HashTypeOK /\ hash[PathOf(h)] = NULL
      BY <1>0, <1>2 DEF getattr_insert, populate_hash, TypeOK, KeptInv
    <2>2. \A g \in Handle \ {h} : pc[g] \in IdlePc
      BY <1>2 DEF Solo, getattr_insert, populate_hash
    <2>3. CASE UNCHANGED table /\ pc'[h] = "closed"
      BY <1>1, <2>3 DEF KeptInv, OpenWriterKept, Live, PathOf, table
    <2>4. ASSUME NEW x \in Pe, FreePe(x), hash_insert(PathOf(h), x),
                 pc'[h] \in {"stat", "incref"}
          PROVE  KeptInv' /\ OpenWriterKept'
      <3>1. /\ hash' = [hash EXCEPT ![PathOf(h)] = x]
            /\ cell'[x].state = "live"
            /\ \A y \in Pe \ {x} : cell'[y] = cell[y]
        BY <1>0, <2>1, <2>4, InsertCells, NewCell DEF hash_insert
      <3>2. /\ hash'[PathOf(h)] = x
            /\ \A p \in Path : p # PathOf(h) => hash'[p] = hash[p] /\ hash[p] # x
        BY <1>0, <2>1, <2>4, <3>1 DEF FreePe, KeptInv
      <3>3. \A p \in Path : hash'[p] # NULL => cell'[hash'[p]].state = "live"
        BY <1>0, <3>1, <3>2 DEF KeptInv, Live
      <3>4. \A p, q \in Path : hash'[p] # NULL /\ hash'[p] = hash'[q] => p = q
        BY <2>1, <3>2 DEF KeptInv
      <3>5. \A g \in Handle : pc'[g] \notin {"getattr_insert", "populate"}
        BY <1>1, <2>2, <2>4
      <3>6. /\ gcpc # "idle" => hash'[gcpath] = gcpe
            /\ gcpc \in {"check", "unlink", "remove"} => cell'[gcpe].mutex = Gc
        BY <1>0, <2>1, <2>4, <3>1, <3>2 DEF KeptInv, FreePe
      <3>7. \A g \in Handle : pc'[g] \in OwnerPc /\ Writer(g)' => cell'[fh'[g]].state = "live"
        <4> SUFFICES ASSUME NEW g \in Handle, pc'[g] \in OwnerPc, Writer(g)'
                     PROVE  cell'[fh'[g]].state = "live"
          OBVIOUS
        <4>1. g # h /\ fh[g] \in Pe /\ fh[g] # x /\ Live(fh[g]) /\ fh'[g] = fh[g]
          BY <1>0, <1>1, <2>4 DEF OpenWriterKept, FreePe
        <4> QED BY <3>1, <4>1 DEF Live
      <3> QED BY <1>1, <3>3, <3>4, <3>5, <3>6, <3>7 DEF KeptInv, OpenWriterKept, Live
    <2> QED BY <1>2, <2>3, <2>4, InsertFrame
  <1>3. CASE ~getattr_insert(h) /\ ~populate_hash(h)
    <2>1. hash' = hash /\ \A x \in Pe : CellKept(h, x)
      BY <1>3, CellFrame
    <2>2. pc'[h] \in {"getattr_insert", "populate"} =>
            hash[PathOf(h)] = NULL /\ call'[h] = call[h]
      <3>1. CASE Getattr(h)
        BY <3>1
        DEF Getattr, dfs_getattr, getattr_insert, getattr_dispatch, getattr_unset,
            getattr_mark, Found, NotFound, Return, Goto, TypeOK, HandleTypeOK
      <3>2. CASE Open(h)
        BY <3>2
        DEF Open, populate_hash, open_incref, open_lock, open_creat, open_existing,
            download_headers, compare_digests, copy_discard, copy_download, copy_fetch,
            copy_reopen, open_set_fd, open_placeholder, dfs_create, create_mknod,
            FirstStep, OpenFails, Return, Goto, TypeOK, HandleTypeOK
      <3>3. CASE \/ Release(h) \/ UseAfterFree(h) \/ dfs_open(h)
                 \/ create_namei(h) \/ dfs_write(h) \/ dfs_release(h)
        BY <3>3
        DEF Release, release_decref, release_send, release_clean, UseAfterFree, dfs_open,
            create_namei, dfs_write, dfs_release, Return, Goto, TypeOK, HandleTypeOK
      <3> QED BY <3>1, <3>2, <3>3 DEF HandlerStep, Working
    <2>3. gcpc \in {"check", "unlink", "remove"} => cell'[gcpe].mutex = Gc
      <3> SUFFICES ASSUME gcpc \in {"check", "unlink", "remove"},
                          cell'[gcpe].mutex # cell[gcpe].mutex
                   PROVE  FALSE
        BY DEF KeptInv
      <3>1. gcpe \in Pe /\ gcpe = fh[h] /\ cell[gcpe].mutex = Gc
            /\ (open_lock(h) \/ release_clean(h))
        BY <1>0, <2>1 DEF CellKept, KeptInv
      <3>2. CASE open_lock(h)
        <4>1. pentry_lock(fh[h], h) => Gc = NULL
          BY <3>1 DEF pentry_lock
        <4>2. \A v : Update(fh[h], [cell[fh[h]] EXCEPT !.refcount = v])
                       => cell'[fh[h]].mutex = cell[fh[h]].mutex
          BY <1>0, <3>1 DEF Update, Pentry
        <4> QED BY <3>1, <3>2, <4>1, <4>2, PentryAssumption
                DEF open_lock, pentry_dec_refcount
      <3>3. CASE release_clean(h)
        <4>1. pc[h] = "clean" /\ call[h] \in Call /\ call[h].acc # "O_RDONLY" /\ Live(fh[h])
          BY <3>3, AtPc DEF release_clean, LockInv
        <4>2. cell[fh[h]].mutex = h
          BY <4>1, AccWriter DEF LockInv
        <4> QED BY <1>0, <3>1, <4>2
      <3> QED BY <3>1, <3>2, <3>3
    <2>4. \A g \in Handle : pc'[g] \in OwnerPc /\ Writer(g)' => cell'[fh'[g]].state = "live"
      <3> SUFFICES ASSUME NEW g \in Handle, pc'[g] \in OwnerPc, Writer(g)'
                   PROVE  cell'[fh'[g]].state = "live"
        OBVIOUS
      <3>1. CASE g # h
        BY <1>0, <1>1, <2>1, <3>1 DEF OpenWriterKept, CellKept, Live
      <3>2. CASE g = h
        <4>1. /\ fh'[h] = fh[h] /\ call'[h] = call[h] /\ Writer(h)
              /\ pc[h] \in OwnerPc \/ open_lock(h)
          BY <3>2, HeldFrame DEF Writer, NeedsLock, Mode
        <4>2. Live(fh[h]) /\ fh[h] \in Pe
          BY <1>0, <4>1, AtPc DEF OpenWriterKept, open_lock
        <4> QED BY <2>1, <3>2, <4>1, <4>2 DEF CellKept, Live
      <3> QED BY <3>1, <3>2
    <2>5. \A p \in Path : hash'[p] # NULL => cell'[hash'[p]].state = "live"
      BY <1>0, <2>1 DEF CellKept, KeptInv, Live
    <2>6. \A g \in Handle :
            pc'[g] \in {"getattr_insert", "populate"} => hash'[PathOf(g)'] = NULL
      BY <1>1, <2>1, <2>2 DEF KeptInv, PathOf
    <2> QED BY <1>1, <2>1, <2>3, <2>4, <2>5, <2>6 DEF KeptInv, OpenWriterKept, Live
  <1> QED BY <1>2, <1>3

(* With one worker, when pthread_mutex_lock and fstat do not fail.         *)
LEMMA Keeps ==
  Workers = 1 /\ LockWorks /\ Spec => [](LockInv /\ KeptInv /\ OpenWriterKept)
  <1> SUFFICES ASSUME Workers = 1, LockWorks
               PROVE  Spec => [](LockInv /\ KeptInv /\ OpenWriterKept)
    OBVIOUS
  <1>1. Init => KeptInv /\ OpenWriterKept
    BY DEF Init, KeptInv, OpenWriterKept, HashInit, Live
  <1>2. TypeOK /\ LockInv /\ Solo /\ KeptInv /\ OpenWriterKept /\ [Next]_vars
          => KeptInv' /\ OpenWriterKept'
    <2> SUFFICES ASSUME TypeOK, LockInv, Solo, KeptInv, OpenWriterKept, [Next]_vars
                 PROVE  KeptInv' /\ OpenWriterKept'
      OBVIOUS
    <2>1. CASE UNCHANGED vars
      BY <2>1 DEF vars, table, gcvars, KeptInv, OpenWriterKept, Live, PathOf, Writer,
                  NeedsLock, Mode
    <2> QED BY <2>1, KeptOther, KeptHandle, NextSplit
  <1> QED BY <1>1, <1>2, Wholes, Locks, TypeCorrect, PTL DEF Spec

(* gc.c: with one worker, if pthread_mutex_lock and fstat do not fail, the *)
(* collector removes the cell it has locked, still the path's entry, and   *)
(* never one that a handle which may write has open.                       *)
THEOREM CollectsLocked == Workers = 1 /\ LockWorks /\ Spec => []GcRemovesWhatItLocked
  <1>1. TypeOK /\ LockInv /\ KeptInv => GcRemovesWhatItLocked
    <2> SUFFICES ASSUME TypeOK, LockInv, KeptInv, gcpc \in {"unlink", "remove"}
                 PROVE  /\ hash[gcpath] = gcpe
                        /\ cell[gcpe].mutex = Gc
                        /\ \A h \in Handle : ~(pc[h] \in OwnerPc /\ Writer(h) /\ fh[h] = gcpe)
      BY DEF GcRemovesWhatItLocked
    <2>1. /\ hash[gcpath] = gcpe /\ cell[gcpe].mutex = Gc /\ Live(gcpe)
      BY DEF KeptInv, TypeOK, GcTypeOK
    <2>2. ASSUME NEW h \in Handle, pc[h] \in OwnerPc, Writer(h), fh[h] = gcpe
          PROVE  FALSE
      BY <2>1, <2>2, PentryAssumption DEF LockInv
    <2> QED BY <2>1, <2>2
  <1> QED BY <1>1, Keeps, TypeCorrect, PTL

(* gc.c, open.c: under the same conditions the cell of a handle that may   *)
(* write is never freed, by the collector or by another handler's insert.  *)
THEOREM WritersKept == Workers = 1 /\ LockWorks /\ Spec => []OpenWriterKept
  BY Keeps, PTL

-----------------------------------------------------------------------------
(* The inductive invariants about placeholders and exclusion marks.        *)

(* Without the collector a pointer to a cell is the one the path has in    *)
(* the table.                                                              *)
OwnCellInv ==
    /\ \A h \in Handle : fh[h] # NULL => hash[PathOf(h)] = fh[h]
    /\ \A p, q \in Path : hash[p] # NULL /\ hash[p] = hash[q] => p = q

(* What the kernel remembers, and what is opened without being created,    *)
(* has a placeholder.  One that is not set belongs to nobody but a handler *)
(* that holds the name, whose lookup may set it to FILE_REMOTE, or is that *)
(* of a cell that is not in use.                                           *)
Reopens(h) == pc[h] \in OpenPc \cup {"open"} /\ ~Creating(h)
Stats(h)   == call[h] # NULL /\ call[h].acc = "stat"

KnownInv ==
    /\ \A x \in Pe : ~Live(x) => cell[x].ondisk = "FILE_UNSET"
    /\ \A p \in dentry : cell[hash[p]].ondisk # "FILE_UNSET"
    /\ \A h \in Handle :
        /\ Reopens(h) \/ Stats(h) \/ pc[h] = "mknod"
             => cell[hash[PathOf(h)]].ondisk # "FILE_UNSET"
        /\ Stats(h) => pc[h] \in GetattrPc
        /\ pc[h] \in {"unset", "mark"} => cell[fh[h]].ondisk = "FILE_UNSET"
    /\ \A x \in Pe : cell[x].fd # NULL /\ cell[x].ondisk = "FILE_UNSET" =>
        \E h \in Handle : pc[h] = "placeholder" /\ Creating(h) /\ fh[h] = x

(* A file that matches the exclusion pattern and is not in the store was   *)
(* created in this mount: its cell says so as soon as anybody but the      *)
(* creating handler can open it.                                           *)
Excludes(p) == p \in Excluded /\ remote[p] = NULL
ExcludeInv ==
    /\ \A p \in dentry : Excludes(p) => cell[hash[p]].exclude = 1
    /\ \A h \in Handle : pc[h] # "closed" /\ Excludes(PathOf(h)) =>
        /\ pc[h] \notin {"mark", "mknod", "send"}
        /\ Reopens(h) \/ pc[h] \in {"opened", "decref"}
             => cell[hash[PathOf(h)]].exclude = 1
    /\ \A p \in Path :
        Excludes(p) /\ hash[p] # NULL /\ cell[hash[p]].ondisk # "FILE_UNSET"
        => \/ cell[hash[p]].exclude = 1
           \/ \E h \in Handle : pc[h] = "create" /\ Creating(h) /\ fh[h] = hash[p]

-----------------------------------------------------------------------------
(* Frame lemmas about placeholders and marks.                              *)

(* Who changes the placeholder, the exclusion mark and the descriptor of a *)
(* cell that is in use.                                                    *)
MarksKept(h, x) ==
    /\ cell'[x].state = cell[x].state
    /\ \/ cell'[x].ondisk = cell[x].ondisk
       \/ x = fh[h] /\ getattr_mark(h) /\ cell'[x].ondisk = "FILE_REMOTE"
       \/ x = fh[h] /\ open_placeholder(h) /\ cell'[x].ondisk = "FILE_LOCAL"
    /\ \/ cell'[x].exclude = cell[x].exclude /\ ~(dfs_create(h) /\ x = fh[h])
       \/ /\ x = fh[h] /\ dfs_create(h)
          /\ cell'[x].exclude = IF PathOf(h) \in Excluded THEN 1 ELSE 0
    /\ \/ cell'[x].fd = cell[x].fd
       \/ x = fh[h] /\ (open_creat(h) \/ open_set_fd(h)) /\ pc'[h] = "placeholder"

(* A handler that inserts no entry changes these marks of its cell only.   *)
LEMMA MarksFrame ==
  ASSUME TypeOK, NEW h \in Handle, HandlerStep(h),
         ~getattr_insert(h), ~populate_hash(h)
  PROVE  \A x \in Pe : MarksKept(h, x)
  <1>1. CASE UNCHANGED cell /\ ~dfs_create(h)
    BY <1>1 DEF MarksKept
  <1>2. CASE ~UNCHANGED cell \/ dfs_create(h)
    <2>1. fh[h] \in Pe /\ cell[fh[h]] \in Pentry /\ cell \in [Pe -> Pentry]
      BY <1>2, AtPc
      DEF HandlerStep, Working, Getattr, Open, Release, dfs_getattr, getattr_dispatch,
          getattr_unset, getattr_mark, open_incref, open_lock, open_creat,
          open_existing, download_headers, compare_digests, copy_discard,
          copy_download, copy_fetch, copy_reopen, open_set_fd, open_placeholder,
          dfs_create, create_mknod, release_decref, release_send, release_clean,
          UseAfterFree, dfs_open, create_namei, dfs_write, dfs_release, table, TypeOK,
          HashTypeOK
    <2>2. ASSUME NEW v, ~dfs_create(h),
                 \/ Update(fh[h], [cell[fh[h]] EXCEPT !.mutex = v])
                 \/ Update(fh[h], [cell[fh[h]] EXCEPT !.refcount = v])
                 \/ Update(fh[h], [cell[fh[h]] EXCEPT !.flag = v])
                 \/ Update(fh[h], [cell[fh[h]] EXCEPT !.digest = v])
          PROVE  \A x \in Pe : MarksKept(h, x)
      BY <2>1, <2>2 DEF Update, Pentry, MarksKept
    <2>3. CASE open_lock(h) \/ open_incref(h) \/ release_decref(h)
      <3>1. ~dfs_create(h)
        BY <2>3 DEF open_lock, open_incref, release_decref, dfs_create
      <3> QED BY <2>2, <2>3, <3>1
              DEF open_lock, open_incref, release_decref, pentry_lock,
                  pentry_inc_refcount, pentry_dec_refcount
    <2>4. CASE open_existing(h)
      <3>1. ~dfs_create(h)
        BY <2>4 DEF open_existing, dfs_create
      <3> QED BY <1>2, <2>2, <2>4, <3>1 DEF open_existing
    <2>5. CASE compare_digests(h)
      <3>1. ~dfs_create(h)
        BY <2>5 DEF compare_digests, dfs_create
      <3> QED BY <1>2, <2>2, <2>5, <3>1 DEF compare_digests
    <2>6. CASE release_clean(h)
      <3>1. ASSUME NEW f, NEW m, ~dfs_create(h),
                   Update(fh[h], [cell[fh[h]] EXCEPT !.flag = f, !.mutex = m])
            PROVE  \A x \in Pe : MarksKept(h, x)
        BY <2>1, <3>1 DEF Update, Pentry, MarksKept
      <3>2. ~dfs_create(h)
        BY <2>6 DEF release_clean, dfs_create
      <3> QED BY <2>6, <3>1, <3>2 DEF release_clean
    <2>7. CASE getattr_mark(h) \/ open_placeholder(h)
      <3>1. ~dfs_create(h)
        BY <2>7 DEF getattr_mark, open_placeholder, dfs_create
      <3> QED BY <2>1, <2>7, <3>1
              DEF getattr_mark, open_placeholder, pentry_set_placeholder, Update,
                  Pentry, MarksKept
    <2>8. CASE open_creat(h) \/ open_set_fd(h)
      <3>1. ASSUME NEW d, NEW f, pc'[h] = "placeholder", ~dfs_create(h),
                   Update(fh[h], [cell[fh[h]] EXCEPT !.fd = d, !.flag = f])
            PROVE  \A x \in Pe : MarksKept(h, x)
        BY <2>1, <2>8, <3>1 DEF Update, Pentry, MarksKept
      <3>2. ~dfs_create(h)
        BY <2>8 DEF open_creat, open_set_fd, dfs_create
      <3> QED BY <1>2, <2>8, <3>1, <3>2
              DEF open_creat, open_set_fd, Goto, TypeOK, HandleTypeOK
    <2>9. CASE dfs_create(h)
      <3>1. ASSUME NEW v, v = (IF PathOf(h) \in Excluded THEN 1 ELSE 0),
                   Update(fh[h], [cell[fh[h]] EXCEPT !.exclude = v])
            PROVE  \A x \in Pe : MarksKept(h, x)
        BY <2>1, <2>9, <3>1 DEF Update, Pentry, MarksKept
      <3> QED BY <2>9, <3>1 DEF dfs_create
    <2> QED
      BY <1>2, <2>3, <2>4, <2>5, <2>6, <2>7, <2>8, <2>9
      DEF HandlerStep, Working, Getattr, Open, Release, dfs_getattr, getattr_dispatch,
          getattr_unset, download_headers, copy_discard, copy_download, copy_fetch,
          copy_reopen, create_mknod, release_send, UseAfterFree, dfs_open, create_namei,
          dfs_write, dfs_release, table
  <1> QED BY <1>1, <1>2

(* A cell of the table keeps its marks or is changed as MarksKept says; an *)
(* entry that is inserted gets a cell that was free.                       *)
LEMMA CellsKept ==
  ASSUME TypeOK, NoFreeInv, NEW h \in Handle, HandlerStep(h)
  PROVE  /\ \A x \in Pe : MarksKept(h, x) \/ (~Live(x) /\ cell'[x] = pentry_new)
         /\ \A p \in Path : hash[p] # NULL => hash'[p] = hash[p]
         /\ \A p \in Path : hash'[p] # hash[p] =>
              /\ p = PathOf(h) /\ hash'[p] \in Pe
              /\ ~Live(hash'[p]) /\ cell'[hash'[p]] = pentry_new
  <1>1. ~populate_hash(h)
    BY DEF populate_hash, NoFreeInv
  <1>2. CASE getattr_insert(h)
    <2>1. /\ PathOf(h) \in Path /\ HashTypeOK /\ hash[PathOf(h)] = NULL
          /\ NULL \notin Pe /\ ~dfs_create(h)
      BY <1>2, AtPc, PentryAssumption DEF getattr_insert, dfs_create, NoFreeInv, TypeOK
    <2>2. CASE UNCHANGED table
      BY <2>1, <2>2 DEF table, MarksKept
    <2>3. ASSUME NEW x \in Pe, FreePe(x), hash_insert(PathOf(h), x)
          PROVE  /\ ~Live(x) /\ cell'[x] = pentry_new
                 /\ \A y \in Pe \ {x} : cell'[y] = cell[y]
                 /\ hash' = [hash EXCEPT ![PathOf(h)] = x]
      BY <2>1, <2>3, InsertCells DEF hash_insert, FreePe
    <2>4. ASSUME NEW x \in Pe, FreePe(x), hash_insert(PathOf(h), x)
          PROVE  \A y \in Pe : MarksKept(h, y) \/ (~Live(y) /\ cell'[y] = pentry_new)
      BY <2>1, <2>3, <2>4 DEF MarksKept
    <2>5. ASSUME NEW x \in Pe, FreePe(x), hash_insert(PathOf(h), x)
          PROVE  /\ \A p \in Path : hash[p] # NULL => hash'[p] = hash[p]
                 /\ \A p \in Path : hash'[p] # hash[p] =>
                      /\ p = PathOf(h) /\ hash'[p] \in Pe
                      /\ ~Live(hash'[p]) /\ cell'[hash'[p]] = pentry_new
      BY <2>1, <2>3, <2>5 DEF HashTypeOK
    <2> QED BY <1>2, <2>2, <2>4, <2>5, InsertFrame
  <1>3. CASE ~getattr_insert(h)
    BY <1>1, <1>3, MarksFrame, CellFrame
  <1> QED BY <1>2, <1>3

(* The pointer a handler has after a step: none, the one it had, or the    *)
(* path's entry.                                                           *)
LEMMA PointerFrame ==
  ASSUME TypeOK, NEW h \in Handle, HandlerStep(h)
  PROVE  fh'[h] \in {NULL, fh[h], hash'[PathOf(h)]}
  <1>1. CASE dfs_getattr(h) \/ dfs_open(h)
    BY <1>1 DEF dfs_getattr, dfs_open, table, TypeOK, HandleTypeOK
  <1>2. CASE getattr_insert(h) \/ populate_hash(h)
    <2>1. PathOf(h) \in Path /\ HashTypeOK
      BY <1>2, AtPc DEF getattr_insert, populate_hash, TypeOK
    <2> QED BY <1>2, <2>1, InsertFrame DEF hash_insert, HashTypeOK
  <1>3. CASE \/ getattr_dispatch(h) \/ getattr_unset(h) \/ getattr_mark(h)
             \/ open_incref(h) \/ open_lock(h) \/ open_existing(h)
    BY <1>3
    DEF getattr_dispatch, getattr_unset, getattr_mark, Found, NotFound, open_incref,
        open_lock, open_existing, OpenFails, Return, Goto, TypeOK, HandleTypeOK
  <1>4. CASE \/ download_headers(h) \/ compare_digests(h) \/ copy_discard(h)
             \/ copy_download(h) \/ copy_fetch(h) \/ copy_reopen(h)
    BY <1>4
    DEF download_headers, compare_digests, copy_discard, copy_download, copy_fetch,
        copy_reopen, OpenFails, Return, Goto, TypeOK, HandleTypeOK
  <1>5. CASE \/ open_set_fd(h) \/ open_placeholder(h) \/ dfs_create(h) \/ create_mknod(h)
             \/ Release(h) \/ UseAfterFree(h) \/ create_namei(h) \/ dfs_write(h)
             \/ dfs_release(h)
    BY <1>5
    DEF open_set_fd, open_placeholder, dfs_create, create_mknod, Release,
        release_decref, release_send, release_clean, UseAfterFree, create_namei,
        dfs_write, dfs_release, Return, Goto, TypeOK, HandleTypeOK
  <1>6. CASE open_creat(h)
    <2>1. OpenFails(h) \/ fh' = fh
      BY <1>6 DEF open_creat
    <2> QED BY <2>1 DEF OpenFails, Return, Goto, TypeOK, HandleTypeOK
  <1> QED BY <1>1, <1>2, <1>3, <1>4, <1>5, <1>6 DEF HandlerStep, Working, Getattr, Open

(* What the kernel learns of a name: that a lookup found the file, or that *)
(* a create made it.                                                       *)
LooksUp(h) ==
    /\ pc'[h] = "open"
    /\ \/ getattr_dispatch(h) /\ cell[fh[h]].ondisk # "FILE_UNSET"
       \/ getattr_mark(h)
Makes(h) == \/ dfs_create(h) /\ cell[fh[h]].fd # NULL /\ PathOf(h) \in Excluded
            \/ create_mknod(h)

(* How a handler that goes on gets where placeholders and marks matter.    *)
Route(h) ==
    /\ dentry' # dentry => /\ dentry' = dentry \cup {PathOf(h)}
                           /\ LooksUp(h) \/ Makes(h)
    /\ Stats(h) /\ pc[h] \in GetattrPc => pc'[h] \in GetattrPc \cup {"closed"}
    /\ pc'[h] # "closed" /\ ~LooksUp(h) => Flags(h)' = Flags(h)
    /\ pc'[h] \in OpenPc \cup {"open"} =>
         \/ pc[h] \in OpenPc \cup {"open"}
         \/ LooksUp(h)
         \/ getattr_unset(h) /\ Creating(h)
    /\ pc'[h] = "unset" => /\ getattr_dispatch(h) /\ fh'[h] = fh[h]
                           /\ cell[fh[h]].ondisk = "FILE_UNSET"
    /\ pc'[h] = "mark" => getattr_unset(h) /\ fh'[h] = fh[h] /\ remote[PathOf(h)] # NULL
    /\ pc'[h] = "mknod" => /\ dfs_create(h) /\ cell[fh[h]].fd # NULL
                           /\ PathOf(h) \notin Excluded
    /\ pc'[h] = "send" => release_decref(h) /\ cell[fh[h]].exclude # 1
    /\ pc'[h] = "clean" => pc[h] \in ReleasePc \cup {"opened"}
    /\ pc'[h] = "set_fd" => pc[h] \in {"digest", "reopen"}
    /\ pc'[h] = "decref" => dfs_release(h)
    /\ pc'[h] = "opened" => \/ dfs_write(h)
                            \/ open_placeholder(h) /\ ~Creating(h)
                            \/ Makes(h)
    /\ pc[h] = "placeholder" => /\ open_placeholder(h) /\ fh'[h] = fh[h]
                                /\ Creating(h) => pc'[h] = "create"
    /\ pc[h] = "create" => dfs_create(h)
    /\ \A p \in Path : remote'[p] # remote[p] =>
         p = PathOf(h) /\ pc[h] \in {"mknod", "send"} /\ remote'[p] # NULL

(* Every step of a handler that follows no freed pointer is such a step.   *)
LEMMA RouteStep ==
  ASSUME TypeOK, NEW h \in Handle, HandlerStep(h), ~UseAfterFree(h)
  PROVE  Route(h)
  <1>1. /\ pc[h] # "closed" => call[h] \in Call
        /\ Stats(h) => call[h].acc = "stat"
    BY AtPc DEF Stats
  <1>2. CASE getattr_dispatch(h) \/ getattr_mark(h)
    <2>1. CASE Found(h) /\ call[h].acc # "stat"
      BY <1>1, <1>2, <2>1
      DEF getattr_dispatch, getattr_mark, Found, Route, LooksUp, Goto, TypeOK,
          HandleTypeOK
    <2>2. CASE Return(h) /\ UNCHANGED dentry
      BY <1>1, <1>2, <2>2
      DEF getattr_dispatch, getattr_mark, Return, Route, Goto, TypeOK, HandleTypeOK
    <2>3. CASE /\ getattr_dispatch(h) /\ cell[fh[h]].ondisk = "FILE_UNSET"
               /\ Goto(h, "unset") /\ UNCHANGED <<call, fh, private, dentry>>
      BY <1>1, <1>2, <2>3
      DEF getattr_dispatch, getattr_mark, Route, Goto, Flags, TypeOK, HandleTypeOK
    <2> QED BY <1>2, <2>1, <2>2, <2>3 DEF getattr_dispatch, getattr_mark, Found
  <1>3. CASE dfs_getattr(h) \/ getattr_insert(h) \/ getattr_unset(h)
    BY <1>1, <1>3
    DEF dfs_getattr, getattr_insert, getattr_unset, NotFound, Return, Route, Flags, Goto,
        store, TypeOK, HandleTypeOK
  <1>4. CASE \/ dfs_open(h) \/ open_incref(h) \/ open_lock(h) \/ open_creat(h)
             \/ open_existing(h) \/ create_namei(h) \/ populate_hash(h)
    BY <1>1, <1>4
    DEF dfs_open, open_incref, open_lock, open_creat, open_existing, create_namei,
        populate_hash, FirstStep, OpenFails, Return, Route, Flags, Goto, store, TypeOK,
        HandleTypeOK
  <1>5. CASE \/ download_headers(h) \/ compare_digests(h) \/ copy_discard(h)
             \/ copy_download(h) \/ copy_fetch(h) \/ copy_reopen(h)
    BY <1>1, <1>5
    DEF download_headers, compare_digests, copy_discard, copy_download, copy_fetch,
        copy_reopen, OpenFails, Return, Route, Flags, Goto, store, TypeOK, HandleTypeOK
  <1>6. CASE open_set_fd(h) \/ open_placeholder(h)
    BY <1>1, <1>6
    DEF open_set_fd, open_placeholder, Route, Flags, Goto, store, TypeOK, HandleTypeOK
  <1>7. CASE dfs_create(h)
    BY <1>1, <1>7
    DEF dfs_create, Return, Route, Makes, Flags, Goto, TypeOK, HandleTypeOK
  <1>8. CASE create_mknod(h)
    BY <1>1, <1>8, PentryAssumption
    DEF create_mknod, Return, Route, Makes, Flags, Goto, store, Content, TypeOK,
        HandleTypeOK, StoreTypeOK
  <1>9. CASE release_send(h)
    <2>1. lfd[h].ino \in Inode /\ data[lfd[h].ino] # NULL
      BY <1>9, PentryAssumption
      DEF release_send, TypeOK, LocalsOK, HandleTypeOK, DiskTypeOK, Descriptor
    <2> QED BY <1>1, <1>9, <2>1
            DEF release_send, Route, Flags, Goto, TypeOK, HandleTypeOK, StoreTypeOK
  <1>10. CASE release_decref(h) \/ release_clean(h) \/ dfs_write(h) \/ dfs_release(h)
    BY <1>1, <1>10
    DEF release_decref, release_clean, dfs_write, dfs_release, Return, Route, Flags,
        Goto, store, TypeOK, HandleTypeOK
  <1> QED
    BY <1>1, <1>2, <1>3, <1>4, <1>5, <1>6, <1>7, <1>8, <1>9, <1>10
    DEF HandlerStep, Working, Getattr, Open, Release

(* So is every step of a handler when no cell was freed.                   *)
LEMMA RouteFrame ==
  ASSUME TypeOK, NoFreeInv, NEW h \in Handle, HandlerStep(h)
  PROVE  Route(h)
  <1>1. ~UseAfterFree(h)
    BY PentryAssumption, AtPc DEF NoFreeInv, UseAfterFree
  <1> QED BY <1>1, RouteStep

(* A request begins with a lookup, by one worker for each name, or with a  *)
(* name the kernel remembers.                                              *)
Begins(h) ==
    /\ pc[h] = "closed" /\ call'[h] \in Call
    /\ \/ /\ pc'[h] = "getattr"
          /\ Stats(h)' => call'[h].path \in dentry
          /\ ~Stats(h)' => ~NameHeld(call'[h].path)
       \/ /\ pc'[h] = "open" /\ ~Stats(h)' /\ ~Creating(h)'
          /\ call'[h].path \in dentry
    /\ \A g \in Handle \ {h} : pc'[g] = pc[g] /\ call'[g] = call[g]

(* Outside the handlers nothing else happens to them, or to the store.     *)
LEMMA OutsideFrame ==
  ASSUME TypeOK, OtherStep
  PROVE  /\ fh' = fh /\ remote' = remote /\ dentry' \subseteq dentry
         /\ \/ UNCHANGED <<pc, call>>
            \/ \E h \in Handle : Begins(h)
  <1>1. CASE \E p \in Path : KernelForget(p) \/ gc_callback(p)
    BY <1>1 DEF KernelForget, gc_callback, store
  <1>2. CASE GcStep \/ \E i \in Inode : Age(i)
    BY <1>2 DEF Age, GcStep, gc_trylock, gc_check, gc_unlink, gc_remove, store
  <1>3. ASSUME NEW h \in Handle, NEW c \in Calls,
               KernelLookup(h, c) \/ KernelStat(h, c) \/ KernelOpen(h, c)
        PROVE  fh' = fh /\ remote' = remote /\ dentry' = dentry /\ Begins(h)
    <2>1. c \in Call /\ c # NULL
      BY FileCacheAssumption
    <2>2. CASE KernelLookup(h, c) \/ KernelStat(h, c)
      BY <2>1, <2>2
      DEF KernelLookup, KernelStat, Goto, Begins, Stats, store, TypeOK, HandleTypeOK
    <2>3. CASE KernelOpen(h, c)
      <3>1. /\ [c EXCEPT !.flags = c.flags \ {"O_CREAT"}] \in Call
            /\ [c EXCEPT !.flags = c.flags \ {"O_CREAT"}].path = c.path
            /\ [c EXCEPT !.flags = c.flags \ {"O_CREAT"}].acc = c.acc
            /\ [c EXCEPT !.flags = c.flags \ {"O_CREAT"}].flags = c.flags \ {"O_CREAT"}
        BY <2>1 DEF Call
      <3> QED BY <2>3, <3>1
              DEF KernelOpen, Goto, Begins, Stats, Creating, Flags, store, TypeOK,
                  HandleTypeOK
    <2> QED BY <1>3, <2>2, <2>3
  <1> QED BY <1>1, <1>2, <1>3 DEF OtherStep, Kernel

(* Without a collector they change no cell either.                         *)
LEMMA KernelFrame ==
  ASSUME TypeOK, NoFreeInv, NoCollector, OtherStep
  PROVE  /\ UNCHANGED <<hash, cell, fh, remote>>
         /\ dentry' \subseteq dentry
         /\ \A h \in Handle :
              \/ pc'[h] = pc[h] /\ call'[h] = call[h]
              \/ /\ pc[h] = "closed" /\ call'[h] \in Call
                 /\ \/ pc'[h] = "getattr" /\ (Stats(h)' => PathOf(h)' \in dentry)
                    \/ /\ pc'[h] = "open" /\ ~Stats(h)' /\ ~Creating(h)'
                       /\ PathOf(h)' \in dentry
  <1>1. UNCHANGED <<hash, cell>>
    BY DEF OtherStep, Kernel, KernelLookup, KernelStat, KernelOpen, KernelForget, Age,
           GcStep, gc_trylock, gc_check, gc_unlink, gc_remove, NoCollector, NoFreeInv,
           table
  <1>2. \A h \in Handle : PathOf(h)' = call'[h].path
    BY DEF PathOf
  <1> QED BY <1>1, <1>2, OutsideFrame DEF Begins

(* The kernel and time change no file.                                     *)
LEMMA OtherQuiet ==
  ASSUME TypeOK, NoFreeInv, NoCollector, OtherStep
  PROVE  UNCHANGED <<hash, cell, local, data, remote, fh, lfd>>
  <1>1. ~(\E p \in Path : gc_callback(p)) /\ ~GcStep
    BY DEF NoCollector, GcStep, gc_trylock, gc_check, gc_unlink, gc_remove, NoFreeInv
  <1>2. UNCHANGED <<local, data, lfd>>
    <2>1. CASE \E h \in Handle : Kernel(h)
      BY <2>1 DEF Kernel, KernelLookup, KernelStat, KernelOpen, disk, private
    <2>2. CASE \E p \in Path : KernelForget(p)
      BY <2>2 DEF KernelForget, disk, private
    <2>3. CASE \E i \in Inode : Age(i)
      BY <2>3 DEF Age, private
    <2> QED BY <1>1, <2>1, <2>2, <2>3 DEF OtherStep
  <1> QED BY <1>2, KernelFrame

-----------------------------------------------------------------------------
(* Two handlers with the same cell use the same path.                      *)

(* A handler's own step keeps OwnCellInv: an entry is inserted only where  *)
(* there is none, with a cell nobody points to.                            *)
LEMMA OwnCellHandle ==
  ASSUME TypeOK, NoFreeInv, OwnCellInv, NEW h \in Handle, HandlerStep(h)
  PROVE  OwnCellInv'
  <1>1. /\ hash \in [Path -> Pe \cup {NULL}] /\ NULL \notin Pe
        /\ \A g \in Handle : pc[g] # "closed" => PathOf(g) \in Path
        /\ \A g \in Handle : fh[g] # NULL => pc[g] # "closed"
        /\ \A p \in Path : hash[p] # NULL => Live(hash[p])
    BY AtPc, PentryAssumption DEF TypeOK, HashTypeOK, LocalsOK, NoFreeInv
  <1>2. \A p \in Path : hash[p] # NULL => hash'[p] = hash[p]
    BY CellsKept
  <1>3. \A p \in Path : hash'[p] # hash[p] => p = PathOf(h) /\ ~Live(hash'[p])
    BY CellsKept
  <1>4. ASSUME NEW g \in Handle, fh'[g] # NULL
        PROVE  hash'[PathOf(g)'] = fh'[g]
    <2>1. CASE g = h
      <3>1. /\ pc[h] # "closed"
            /\ pc'[h] # "closed" => PathOf(h)' = PathOf(h)
            /\ pc'[h] = "closed" => fh'[h] = NULL
        BY NameFrame DEF PathOf
      <3>2. fh'[h] \in {NULL, fh[h], hash'[PathOf(h)]}
        BY PointerFrame
      <3> QED BY <1>1, <1>2, <1>4, <2>1, <3>1, <3>2 DEF OwnCellInv
    <2>2. CASE g # h
      <3>1. fh'[g] = fh[g] /\ PathOf(g)' = PathOf(g)
        BY <2>2, HandlerFrame DEF PathOf
      <3> QED BY <1>1, <1>2, <1>4, <3>1 DEF OwnCellInv
    <2> QED BY <2>1, <2>2
  <1>5. ASSUME NEW p \in Path, NEW q \in Path, hash'[p] # NULL, hash'[p] = hash'[q]
        PROVE  p = q
    BY <1>1, <1>2, <1>3, <1>5 DEF OwnCellInv
  <1> QED BY <1>4, <1>5 DEF OwnCellInv

(* With garbage collection off, a pointer leads to the path's entry.       *)
LEMMA OwnCells == ~GcOn /\ Spec => []OwnCellInv
  <1> SUFFICES ASSUME ~GcOn PROVE Spec => []OwnCellInv
    OBVIOUS
  <1>1. Init => OwnCellInv
    BY DEF Init, HashInit, OwnCellInv
  <1>2. TypeOK /\ NoFreeInv /\ OwnCellInv /\ [Next]_vars => OwnCellInv'
    <2> SUFFICES ASSUME TypeOK, NoFreeInv, OwnCellInv, [Next]_vars
                 PROVE  OwnCellInv'
      OBVIOUS
    <2> NoCollector
      BY DEF NoCollector, gc_callback
    <2>1. CASE UNCHANGED vars
      BY <2>1 DEF vars, table, OwnCellInv, PathOf
    <2>2. CASE OtherStep
      <3>1. \A h \in Handle : fh[h] # NULL => call'[h] = call[h]
        BY <2>2, KernelFrame DEF TypeOK, LocalsOK
      <3> QED BY <2>2, <3>1, KernelFrame DEF OwnCellInv, PathOf
    <2> QED BY <2>1, <2>2, OwnCellHandle, NextSplit
  <1>3. ~GcOn /\ Spec => []NoFreeInv
    BY NoneFreed
  <1> QED BY <1>1, <1>2, <1>3, TypeCorrect, PTL DEF Spec

(* Two handlers that hold the name of the same cell are one, and so have   *)
(* two handlers with the same cell the same path.                          *)
LEMMA SameCell ==
  ASSUME TypeOK, NoFreeInv, OwnCellInv, NEW g \in Handle, NEW h \in Handle,
         fh[g] = fh[h], fh[g] # NULL
  PROVE  /\ PathOf(g) = PathOf(h)
         /\ HoldsName(g) /\ HoldsName(h) => g = h
  <1>1. /\ PathOf(g) \in Path /\ PathOf(h) \in Path
    BY AtPc DEF TypeOK, LocalsOK
  <1>2. hash[PathOf(g)] = fh[g] /\ hash[PathOf(h)] = fh[h]
    BY DEF OwnCellInv
  <1>3. PathOf(g) = PathOf(h)
    BY <1>1, <1>2 DEF OwnCellInv
  <1> QED BY <1>3 DEF NoFreeInv

-----------------------------------------------------------------------------
(* Placeholders.                                                           *)

(* What the proofs below need of the state.                                *)
LEMMA NameFacts ==
  ASSUME TypeOK, NoFreeInv, OwnCellInv
  PROVE  /\ NULL \notin Pe /\ hash \in [Path -> Pe \cup {NULL}]
         /\ dentry \subseteq Path
         /\ \A p \in Path : hash[p] # NULL => hash[p] \in Pe /\ Live(hash[p])
         /\ \A p \in dentry : hash[p] # NULL
         /\ \A h \in Handle :
              /\ call[h] # NULL => call[h] \in Call /\ PathOf(h) \in Path
              /\ pc[h] # "closed" <=> call[h] # NULL
              /\ pc[h] \notin {"closed", "getattr", "getattr_insert"}
                   => hash[PathOf(h)] # NULL
              /\ Stats(h) => hash[PathOf(h)] # NULL
              /\ fh[h] # NULL => /\ fh[h] \in Pe /\ Live(fh[h])
                                 /\ hash[PathOf(h)] = fh[h]
              /\ pc[h] \notin NoCellPc => fh[h] # NULL
  BY PentryAssumption, AtPc
  DEF TypeOK, HashTypeOK, StoreTypeOK, HandleTypeOK, LocalsOK, NoFreeInv, OwnCellInv,
      Stats, PathOf

(* As long as a cell says FILE_UNSET, whoever looks its path up or opens   *)
(* it holds the name, so that there is only one.                           *)
LEMMA UnsetHolds ==
  ASSUME TypeOK, NoFreeInv, OwnCellInv, KnownInv, NEW h \in Handle,
         pc[h] \in GetattrPc \cup OpenPc, fh[h] # NULL,
         cell[fh[h]].ondisk = "FILE_UNSET"
  PROVE  /\ HoldsName(h)
         /\ pc[h] \in OpenPc => Creating(h)
         /\ \A g \in Handle : fh[g] = fh[h] /\ pc[g] \in GetattrPc \cup OpenPc => g = h
  <1>1. ASSUME NEW g \in Handle, pc[g] \in GetattrPc \cup OpenPc, fh[g] = fh[h]
        PROVE  HoldsName(g) /\ (pc[g] \in OpenPc => Creating(g))
    <2>1. call[g] # NULL /\ hash[PathOf(g)] = fh[g]
      BY <1>1, NameFacts
    <2> QED BY <1>1, <2>1 DEF KnownInv, HoldsName, Stats, Reopens
  <1> QED BY <1>1, SameCell

(* What the kernel learns to know, and what is about to be made, has a     *)
(* placeholder, before and after the step that tells it.                   *)
LEMMA LearnsKnown ==
  ASSUME TypeOK, NoFreeInv, OwnCellInv, KnownInv, NEW h \in Handle, HandlerStep(h),
         \/ LooksUp(h)
         \/ Makes(h)
         \/ dfs_create(h) /\ cell[fh[h]].fd # NULL
  PROVE  /\ hash[PathOf(h)] \in Pe
         /\ cell'[hash[PathOf(h)]].ondisk # "FILE_UNSET"
         /\ hash'[PathOf(h)] = hash[PathOf(h)]
         /\ fh[h] # NULL => hash[PathOf(h)] = fh[h]
  <1>1. pc[h] \in {"stat", "mark", "create", "mknod"}
    BY DEF LooksUp, Makes, getattr_dispatch, getattr_mark, dfs_create, create_mknod
  <1>2. /\ hash[PathOf(h)] = fh[h] /\ fh[h] \in Pe /\ Live(fh[h])
        /\ hash'[PathOf(h)] = hash[PathOf(h)]
    BY <1>1, NameFacts, CellsKept
  <1>3. MarksKept(h, fh[h])
    BY <1>2, CellsKept
  <1>4. CASE getattr_mark(h)
    <2>1. cell \in [Pe -> Pentry]
      BY DEF TypeOK, HashTypeOK
    <2> QED BY <1>2, <1>4, <2>1 DEF getattr_mark, pentry_set_placeholder, Update, Pentry
  <1>5. CASE ~getattr_mark(h)
    <2>1. cell[fh[h]].ondisk # "FILE_UNSET"
      <3>1. CASE LooksUp(h)
        BY <1>5, <3>1 DEF LooksUp
      <3>2. CASE create_mknod(h)
        BY <1>2, <3>2 DEF create_mknod, KnownInv
      <3>3. CASE dfs_create(h) /\ cell[fh[h]].fd # NULL
        <4> SUFFICES ASSUME cell[fh[h]].ondisk = "FILE_UNSET" PROVE FALSE
          OBVIOUS
        <4>1. PICK g \in Handle : pc[g] = "placeholder" /\ Creating(g) /\ fh[g] = fh[h]
          BY <1>2, <3>3 DEF KnownInv
        <4>2. pc[h] = "create"
          BY <3>3 DEF dfs_create
        <4>3. g = h
          BY <1>2, <4>1, <4>2, UnsetHolds, NameFacts
        <4> QED BY <4>1, <4>2, <4>3
      <3> QED BY <3>1, <3>2, <3>3 DEF Makes
    <2> QED BY <1>2, <1>3, <1>5, <2>1 DEF MarksKept
  <1> QED BY <1>2, <1>4, <1>5

(* The steps of a handler keep KnownInv, and forget no local file.         *)
LEMMA KnownHandle ==
  ASSUME TypeOK, NoFreeInv, OwnCellInv, KnownInv, NEW h \in Handle, HandlerStep(h)
  PROVE  /\ KnownInv'
         /\ \A x \in Pe : Live(x) /\ cell[x].ondisk = "FILE_LOCAL"
                            => cell'[x].ondisk = "FILE_LOCAL"
  <1>1. /\ \A x \in Pe : MarksKept(h, x) \/ (~Live(x) /\ cell'[x] = pentry_new)
        /\ \A p \in Path : hash[p] # NULL => hash'[p] = hash[p]
        /\ pentry_new.fd = NULL
    BY CellsKept DEF pentry_new
  <1>2. Route(h)
    BY RouteFrame
  <1>3. \A g \in Handle \ {h} : /\ pc'[g] = pc[g] /\ fh'[g] = fh[g]
                                /\ call'[g] = call[g] /\ PathOf(g)' = PathOf(g)
                                /\ Creating(g)' = Creating(g)
                                /\ Stats(g)' = Stats(g)
                                /\ Reopens(g)' = Reopens(g)
    BY HandlerFrame DEF PathOf, Creating, Flags, Stats, Reopens
  <1>4. /\ pc[h] # "closed"
        /\ pc'[h] # "closed" => PathOf(h)' = PathOf(h) /\ (Stats(h)' => Stats(h))
        /\ pc'[h] = "closed" => call'[h] = NULL
    BY NameFrame, NameFacts DEF PathOf, Stats
  <1>5. \A x \in Pe : Live(x) /\ cell[x].ondisk # "FILE_UNSET"
                        => cell'[x].ondisk # "FILE_UNSET"
    BY <1>1 DEF MarksKept
  <1>6. \A p \in dentry' : cell'[hash'[p]].ondisk # "FILE_UNSET"
    <2>1. \A p \in dentry : cell'[hash'[p]].ondisk # "FILE_UNSET"
      BY <1>1, <1>5, NameFacts DEF KnownInv
    <2>2. CASE dentry' # dentry
      BY <1>2, <2>1, <2>2, LearnsKnown DEF Route
    <2> QED BY <2>1, <2>2
  <1>7. ASSUME NEW g \in Handle, Reopens(g)' \/ Stats(g)' \/ pc'[g] = "mknod"
        PROVE  cell'[hash'[PathOf(g)']].ondisk # "FILE_UNSET"
    <2>1. ASSUME Reopens(g) \/ Stats(g) \/ pc[g] = "mknod", PathOf(g)' = PathOf(g)
          PROVE  cell'[hash'[PathOf(g)']].ondisk # "FILE_UNSET"
      <3>1. PathOf(g) \in Path /\ hash[PathOf(g)] \in Pe /\ Live(hash[PathOf(g)])
            /\ hash[PathOf(g)] # NULL
        BY <2>1, NameFacts DEF Reopens, Stats
      <3>2. cell[hash[PathOf(g)]].ondisk # "FILE_UNSET"
        BY <2>1 DEF KnownInv
      <3> QED BY <1>1, <1>5, <2>1, <3>1, <3>2
    <2>2. CASE g = h
      <3>1. pc'[h] # "closed"
        BY <1>4, <1>7, <2>2 DEF Reopens, Stats
      <3>2. CASE LooksUp(h) \/ pc'[h] = "mknod"
        BY <1>2, <1>4, <2>2, <3>1, <3>2, LearnsKnown DEF Route
      <3>3. CASE Stats(h)'
        BY <1>4, <2>1, <2>2, <3>1, <3>3
      <3>4. CASE Reopens(h)' /\ ~LooksUp(h)
        <4>1. Creating(h)' = Creating(h)
          BY <1>2, <3>1, <3>4 DEF Route, Creating
        <4>2. pc[h] \in OpenPc \cup {"open"}
          BY <1>2, <3>4, <4>1 DEF Route, Reopens
        <4> QED BY <1>4, <2>1, <2>2, <3>1, <3>4, <4>1, <4>2 DEF Reopens
      <3> QED BY <1>7, <2>2, <3>2, <3>3, <3>4
    <2>3. CASE g # h
      BY <1>3, <1>7, <2>1, <2>3
    <2> QED BY <2>2, <2>3
  <1>8. ASSUME NEW g \in Handle, pc'[g] \in {"unset", "mark"}
        PROVE  cell'[fh'[g]].ondisk = "FILE_UNSET"
    <2>1. CASE g = h
      <3>1. /\ fh'[h] = fh[h] /\ cell[fh[h]].ondisk = "FILE_UNSET"
            /\ pc[h] \in {"stat", "unset"}
            /\ ~getattr_mark(h) /\ ~open_placeholder(h)
        BY <1>2, <1>8, <2>1
        DEF Route, getattr_dispatch, getattr_unset, getattr_mark, open_placeholder,
            KnownInv
      <3>2. fh[h] \in Pe /\ Live(fh[h])
        BY <3>1, NameFacts
      <3> QED BY <1>1, <2>1, <3>1, <3>2 DEF MarksKept
    <2>2. CASE g # h
      <3>1. /\ pc[g] \in {"unset", "mark"} /\ fh'[g] = fh[g]
            /\ cell[fh[g]].ondisk = "FILE_UNSET"
        BY <1>3, <1>8, <2>2 DEF KnownInv
      <3>2. fh[g] # NULL /\ fh[g] \in Pe /\ Live(fh[g])
        BY <3>1, NameFacts
      <3>3. pc[h] \in GetattrPc \cup OpenPc => fh[h] # fh[g]
        BY <2>2, <3>1, <3>2, UnsetHolds
      <3>4. getattr_mark(h) \/ open_placeholder(h) => fh[h] # fh[g]
        BY <3>3 DEF getattr_mark, open_placeholder
      <3> QED BY <1>1, <3>1, <3>2, <3>4 DEF MarksKept
    <2> QED BY <2>1, <2>2
  <1>9. ASSUME NEW x \in Pe, cell'[x].fd # NULL, cell'[x].ondisk = "FILE_UNSET"
        PROVE  \E g \in Handle : pc'[g] = "placeholder" /\ Creating(g)' /\ fh'[g] = x
    <2>1. MarksKept(h, x) /\ cell[x].ondisk = "FILE_UNSET"
      BY <1>1, <1>9 DEF MarksKept
    <2>2. CASE cell'[x].fd = cell[x].fd
      <3>1. PICK g \in Handle : pc[g] = "placeholder" /\ Creating(g) /\ fh[g] = x
        BY <1>9, <2>1, <2>2 DEF KnownInv
      <3>2. g # h
        <4> SUFFICES ASSUME g = h PROVE FALSE
          OBVIOUS
        <4>1. open_placeholder(h)
          BY <1>2, <3>1 DEF Route
        <4>2. cell \in [Pe -> Pentry]
          BY DEF TypeOK, HashTypeOK
        <4> QED BY <1>9, <3>1, <4>1, <4>2
                DEF open_placeholder, pentry_set_placeholder, Update, Pentry
      <3> QED BY <1>3, <3>1, <3>2
    <2>3. CASE cell'[x].fd # cell[x].fd
      <3>1. /\ x = fh[h] /\ pc'[h] = "placeholder" /\ pc[h] \in OpenPc
            /\ ~LooksUp(h) /\ fh[h] # NULL
        BY <2>1, <2>3, NameFacts
        DEF MarksKept, open_creat, open_set_fd, LooksUp, getattr_dispatch, getattr_mark
      <3>2. Creating(h) /\ Creating(h)'
        BY <1>2, <2>1, <3>1, UnsetHolds DEF Route, Creating
      <3>3. fh'[h] = fh[h]
        BY <3>1, HeldFrame
      <3> QED BY <3>1, <3>2, <3>3
    <2> QED BY <2>2, <2>3
  <1>10. ASSUME NEW x \in Pe, Live(x), cell[x].ondisk = "FILE_LOCAL"
         PROVE  cell'[x].ondisk = "FILE_LOCAL"
    <2>1. MarksKept(h, x)
      BY <1>1, <1>10
    <2>2. getattr_mark(h) => fh[h] # x
      BY <1>10 DEF getattr_mark, KnownInv
    <2> QED BY <1>10, <2>1, <2>2 DEF MarksKept
  <1>11. \A x \in Pe : cell'[x].state # "live" => cell'[x].ondisk = "FILE_UNSET"
    <2>1. pentry_new.state = "live"
      BY NewCell
    <2>2. fh[h] # NULL => Live(fh[h])
      BY DEF NoFreeInv
    <2>3. getattr_mark(h) \/ open_placeholder(h) => fh[h] # NULL
      BY NameFacts DEF getattr_mark, open_placeholder
    <2> QED BY <1>1, <2>1, <2>2, <2>3 DEF MarksKept, KnownInv, Live
  <1>12. ASSUME NEW g \in Handle, Stats(g)'
         PROVE  pc'[g] \in GetattrPc
    <2>1. CASE g = h
      BY <1>2, <1>4, <1>12, <2>1 DEF KnownInv, Route, Stats
    <2>2. CASE g # h
      BY <1>3, <1>12, <2>2 DEF KnownInv
    <2> QED BY <2>1, <2>2
  <1> QED BY <1>6, <1>7, <1>8, <1>9, <1>10, <1>11, <1>12 DEF KnownInv, Live

(* The kernel and time change no placeholder, and a request begins with a  *)
(* lookup or with a name whose placeholder is set.                         *)
LEMMA KnownOther ==
  ASSUME TypeOK, NoFreeInv, OwnCellInv, KnownInv, NoCollector, OtherStep
  PROVE  KnownInv'
  <1>1. /\ UNCHANGED <<hash, cell, fh, remote>>
        /\ dentry' \subseteq dentry
        /\ \A h \in Handle :
             \/ /\ pc'[h] = pc[h] /\ PathOf(h)' = PathOf(h)
                /\ Creating(h)' = Creating(h) /\ Stats(h)' = Stats(h)
             \/ /\ pc'[h] \in {"getattr", "open"}
                /\ (Stats(h)' \/ pc'[h] = "open") => PathOf(h)' \in dentry
    BY KernelFrame DEF PathOf, Creating, Flags, Stats
  <1>2. ASSUME NEW h \in Handle
        PROVE  /\ Reopens(h)' \/ Stats(h)' \/ pc'[h] = "mknod"
                    => cell[hash[PathOf(h)']].ondisk # "FILE_UNSET"
               /\ pc'[h] \in {"unset", "mark"} => cell[fh[h]].ondisk = "FILE_UNSET"
               /\ Stats(h)' => pc'[h] \in GetattrPc
    <2>1. Stats(h)' => pc'[h] = "getattr" \/ (pc'[h] = pc[h] /\ Stats(h))
      BY KernelFrame DEF Stats
    <2>2. Stats(h)' => pc'[h] \in GetattrPc
      BY <2>1 DEF KnownInv
    <2>3. /\ Reopens(h)' \/ Stats(h)' \/ pc'[h] = "mknod"
                    => cell[hash[PathOf(h)']].ondisk # "FILE_UNSET"
          /\ pc'[h] \in {"unset", "mark"} => cell[fh[h]].ondisk = "FILE_UNSET"
      BY <1>1 DEF KnownInv, Reopens
    <2> QED BY <2>2, <2>3
  <1>3. ASSUME NEW h \in Handle, pc[h] = "placeholder", Creating(h)
        PROVE  pc'[h] = "placeholder" /\ Creating(h)'
    <2>1. pc[h] # "closed"
      BY <1>3
    <2> QED BY <1>3, <2>1, KernelFrame DEF Creating, Flags
  <1>4. /\ \A x \in Pe : ~Live(x)' => cell'[x].ondisk = "FILE_UNSET"
        /\ \A p \in dentry' : cell'[hash'[p]].ondisk # "FILE_UNSET"
    BY <1>1 DEF KnownInv, Live
  <1>5. ASSUME NEW x \in Pe, cell'[x].fd # NULL, cell'[x].ondisk = "FILE_UNSET"
        PROVE  \E h \in Handle : pc'[h] = "placeholder" /\ Creating(h)' /\ fh'[h] = x
    BY <1>1, <1>3, <1>5 DEF KnownInv
  <1> QED BY <1>1, <1>2, <1>4, <1>5 DEF KnownInv

(* With garbage collection off, placeholders are what KnownInv says.       *)
LEMMA Known == ~GcOn /\ Spec => []KnownInv
  <1> SUFFICES ASSUME ~GcOn PROVE Spec => []KnownInv
    OBVIOUS
  <1>1. Init => KnownInv
    BY DEF Init, HashInit, KnownInv, Reopens, Stats, pentry_free, pentry_new
  <1>2. TypeOK /\ NoFreeInv /\ OwnCellInv /\ KnownInv /\ [Next]_vars => KnownInv'
    <2> SUFFICES ASSUME TypeOK, NoFreeInv, OwnCellInv, KnownInv, [Next]_vars
                 PROVE  KnownInv'
      OBVIOUS
    <2>1. CASE UNCHANGED vars
      BY <2>1 DEF vars, table, store, KnownInv, Live, Reopens, Stats, Creating, Flags,
                  PathOf
    <2>2. NoCollector
      BY DEF NoCollector, gc_callback
    <2> QED BY <2>1, <2>2, KnownHandle, KnownOther, NextSplit
  <1>3. ~GcOn /\ Spec => []NoFreeInv /\ []OwnCellInv
    BY NoneFreed, OwnCells, PTL
  <1> QED BY <1>1, <1>2, <1>3, TypeCorrect, PTL DEF Spec

(* With garbage collection off, the window of getattr_unset between        *)
(* reading FILE_UNSET and writing FILE_REMOTE never contains another       *)
(* handle's open: a file that is in the cache stays marked as such.        *)
THEOREM LocalKept == ~GcOn /\ Spec => LocalNotForgotten
  <1> SUFFICES ASSUME ~GcOn PROVE Spec => LocalNotForgotten
    OBVIOUS
  <1>1. TypeOK /\ NoFreeInv /\ OwnCellInv /\ KnownInv /\ [Next]_vars =>
          [\A x \in Pe : cell[x].ondisk = "FILE_LOCAL" /\ cell'[x].state = "live"
              => cell'[x].ondisk = "FILE_LOCAL"]_vars
    <2> SUFFICES ASSUME TypeOK, NoFreeInv, OwnCellInv, KnownInv, Next, NEW x \in Pe,
                        cell[x].ondisk = "FILE_LOCAL"
                 PROVE  cell'[x].ondisk = "FILE_LOCAL"
      OBVIOUS
    <2> NoCollector
      BY DEF NoCollector, gc_callback
    <2>1. CASE OtherStep
      BY <2>1, KernelFrame
    <2>2. Live(x)
      BY DEF KnownInv
    <2>3. \A h \in Handle : HandlerStep(h) => cell'[x].ondisk = "FILE_LOCAL"
      BY <2>2, KnownHandle
    <2> QED BY <2>1, <2>3, NextSplit
  <1>2. ~GcOn /\ Spec => []NoFreeInv /\ []OwnCellInv /\ []KnownInv
    BY NoneFreed, OwnCells, Known, PTL
  <1> QED BY <1>1, <1>2, TypeCorrect, PTL DEF Spec, LocalNotForgotten

-----------------------------------------------------------------------------
(* Files kept from the store.                                              *)

(* Where a lookup finds a file that matches the pattern and is not in the  *)
(* store, its cell says so: the handler that creates it is past the name.  *)
LEMMA FoundExcluded ==
  ASSUME TypeOK, NoFreeInv, OwnCellInv, KnownInv, ExcludeInv,
         NEW h \in Handle, HandlerStep(h), LooksUp(h), Excludes(PathOf(h))
  PROVE  cell[fh[h]].exclude = 1
  <1>1. /\ pc[h] = "stat" /\ cell[fh[h]].ondisk # "FILE_UNSET"
    BY NameFacts DEF LooksUp, getattr_dispatch, getattr_mark, ExcludeInv
  <1>2. /\ hash[PathOf(h)] = fh[h] /\ fh[h] # NULL /\ PathOf(h) \in Path
        /\ call[h] # NULL
    BY <1>1, NameFacts
  <1>3. ASSUME NEW g \in Handle, pc[g] = "create", Creating(g), fh[g] = fh[h]
        PROVE  FALSE
    <2>1. call[g] # NULL
      BY <1>3, NameFacts
    <2>2. ~Stats(g) /\ ~Stats(h)
      BY <1>1, <1>3, RouteFrame DEF KnownInv, Route, LooksUp
    <2>3. HoldsName(g) /\ HoldsName(h)
      BY <1>1, <1>2, <1>3, <2>1, <2>2 DEF HoldsName, Stats
    <2> QED BY <1>1, <1>2, <1>3, <2>3, SameCell
  <1> QED BY <1>1, <1>2, <1>3 DEF ExcludeInv

(* The steps of a handler keep ExcludeInv, and bring no excluded file to   *)
(* the store.                                                              *)
LEMMA ExcludeHandle ==
  ASSUME TypeOK, NoFreeInv, OwnCellInv, KnownInv, ExcludeInv,
         NEW h \in Handle, HandlerStep(h)
  PROVE  /\ ExcludeInv'
         /\ \A p \in Path : Excludes(p) => remote'[p] = NULL
  <1>1. /\ \A x \in Pe : MarksKept(h, x) \/ (~Live(x) /\ cell'[x] = pentry_new)
        /\ \A p \in Path : hash[p] # NULL => hash'[p] = hash[p]
        /\ \A p \in Path : hash'[p] # hash[p] => cell'[hash'[p]] = pentry_new
        /\ pentry_new.ondisk = "FILE_UNSET"
    BY CellsKept DEF pentry_new
  <1>2. Route(h)
    BY RouteFrame
  <1>3. \A g \in Handle \ {h} : /\ pc'[g] = pc[g] /\ fh'[g] = fh[g]
                                /\ PathOf(g)' = PathOf(g)
                                /\ Creating(g)' = Creating(g)
                                /\ Reopens(g)' = Reopens(g)
    BY HandlerFrame DEF PathOf, Creating, Flags, Reopens
  <1>4. /\ pc[h] # "closed" /\ PathOf(h) \in Path
        /\ pc'[h] # "closed" => PathOf(h)' = PathOf(h)
    BY NameFrame, AtPc DEF PathOf
  <1>5. \A p \in Path : Excludes(p)' => Excludes(p)
    BY <1>2, <1>4 DEF Route, Excludes, ExcludeInv
  <1>6. ASSUME NEW p \in Path, Excludes(p), hash[p] # NULL,
               cell[hash[p]].exclude = 1 \/ (dfs_create(h) /\ fh[h] = hash[p])
        PROVE  cell'[hash'[p]].exclude = 1
    <2>1. /\ hash'[p] = hash[p] /\ hash[p] \in Pe /\ MarksKept(h, hash[p])
      BY <1>1, <1>6, NameFacts
    <2>2. dfs_create(h) /\ fh[h] = hash[p] => PathOf(h) = p
      BY <1>4, <1>6, NameFacts DEF OwnCellInv
    <2>3. p \in Excluded
      BY <1>6 DEF Excludes
    <2> QED BY <1>6, <2>1, <2>2, <2>3 DEF MarksKept
  <1>7. LooksUp(h) /\ Excludes(PathOf(h)) => cell'[hash'[PathOf(h)]].exclude = 1
    <2>1. LooksUp(h) => fh[h] # NULL
      BY NameFacts DEF LooksUp, getattr_dispatch, getattr_mark
    <2> QED BY <1>4, <1>6, <2>1, FoundExcluded, NameFacts
  <1>8. Makes(h) /\ Excludes(PathOf(h)) => cell'[hash'[PathOf(h)]].exclude = 1
    <2>1. ~create_mknod(h) \/ ~Excludes(PathOf(h))
      BY <1>4 DEF create_mknod, ExcludeInv
    <2>2. dfs_create(h) => fh[h] # NULL
      BY NameFacts DEF dfs_create
    <2> QED BY <1>4, <1>6, <2>1, <2>2, NameFacts DEF Makes
  <1>9. ASSUME NEW p \in dentry', Excludes(p)'
        PROVE  cell'[hash'[p]].exclude = 1
    <2>1. CASE p \in dentry
      BY <1>5, <1>6, <1>9, <2>1, NameFacts DEF ExcludeInv
    <2>2. CASE p \notin dentry
      BY <1>2, <1>4, <1>5, <1>7, <1>8, <1>9, <2>2 DEF Route
    <2> QED BY <2>1, <2>2
  <1>10. ASSUME NEW g \in Handle, pc'[g] # "closed", Excludes(PathOf(g))'
         PROVE  /\ pc'[g] \notin {"mark", "mknod", "send"}
                /\ Reopens(g)' \/ pc'[g] \in {"opened", "decref"}
                     => cell'[hash'[PathOf(g)']].exclude = 1
    <2>1. ASSUME PathOf(g)' = PathOf(g), pc[g] # "closed",
                 Reopens(g) \/ pc[g] \in {"opened", "decref"}
          PROVE  cell'[hash'[PathOf(g)']].exclude = 1
      BY <1>5, <1>6, <1>10, <2>1, NameFacts DEF ExcludeInv, Reopens
    <2>2. CASE g = h
      <3>1. Excludes(PathOf(h)) /\ PathOf(h)' = PathOf(h)
        BY <1>4, <1>5, <1>10, <2>2
      <3>2. pc'[h] \notin {"mark", "mknod"}
        BY <1>2, <3>1 DEF Route, Excludes
      <3>3. pc'[h] # "send"
        <4> SUFFICES ASSUME pc'[h] = "send" PROVE FALSE
          OBVIOUS
        <4>1. pc[h] = "decref" /\ cell[fh[h]].exclude # 1
          BY <1>2 DEF Route, release_decref
        <4> QED BY <3>1, <4>1, NameFacts DEF ExcludeInv
      <3>4. CASE Reopens(h)' /\ ~LooksUp(h)
        <4>1. Creating(h)' = Creating(h)
          BY <1>2, <1>10, <2>2, <3>4 DEF Route, Creating
        <4>2. pc[h] \in OpenPc \cup {"open"}
          BY <1>2, <3>4, <4>1 DEF Route, Reopens
        <4> QED BY <1>4, <2>1, <2>2, <3>1, <3>2, <3>3, <3>4, <4>1, <4>2 DEF Reopens
      <3>5. CASE pc'[h] \in {"opened", "decref"} /\ ~LooksUp(h) /\ ~Makes(h)
        <4>1. Reopens(h) \/ pc[h] = "opened"
          BY <1>2, <3>5 DEF Route, dfs_write, dfs_release, open_placeholder, Reopens
        <4> QED BY <1>4, <2>1, <2>2, <3>1, <3>2, <3>3, <4>1
      <3> QED BY <1>7, <1>8, <2>2, <3>1, <3>2, <3>3, <3>4, <3>5
              DEF LooksUp
    <2>3. CASE g # h
      BY <1>3, <1>5, <1>10, <2>1, <2>3, NameFacts DEF ExcludeInv
    <2> QED BY <2>2, <2>3
  <1>11. ASSUME NEW p \in Path, Excludes(p)', hash'[p] # NULL,
                cell'[hash'[p]].ondisk # "FILE_UNSET", cell'[hash'[p]].exclude # 1
         PROVE  \E g \in Handle : /\ pc'[g] = "create" /\ Creating(g)'
                                  /\ fh'[g] = hash'[p]
    <2>1. /\ Excludes(p) /\ hash'[p] = hash[p] /\ hash[p] # NULL
          /\ cell[hash[p]].exclude # 1 /\ ~(dfs_create(h) /\ fh[h] = hash[p])
          /\ MarksKept(h, hash[p])
      BY <1>1, <1>5, <1>6, <1>11, NameFacts
    <2>2. CASE cell[hash[p]].ondisk # "FILE_UNSET"
      <3>1. PICK g \in Handle : pc[g] = "create" /\ Creating(g) /\ fh[g] = hash[p]
        BY <2>1, <2>2 DEF ExcludeInv
      <3>2. g # h
        BY <1>2, <2>1, <3>1 DEF Route
      <3> QED BY <1>3, <2>1, <3>1, <3>2
    <2>3. CASE cell[hash[p]].ondisk = "FILE_UNSET"
      <3>1. fh[h] = hash[p] /\ (getattr_mark(h) \/ open_placeholder(h))
        BY <1>11, <2>1, <2>3 DEF MarksKept
      <3>2. PathOf(h) = p
        BY <1>4, <2>1, <3>1, NameFacts DEF OwnCellInv
      <3>3. open_placeholder(h) /\ pc[h] = "placeholder"
        BY <1>4, <2>1, <3>1, <3>2 DEF getattr_mark, open_placeholder, ExcludeInv
      <3>4. Creating(h)
        BY <1>4, <2>1, <3>2, <3>3 DEF ExcludeInv, Reopens
      <3>5. pc'[h] = "create" /\ fh'[h] = fh[h] /\ Creating(h)'
        BY <1>2, <3>3, <3>4 DEF Route, LooksUp, Creating
      <3> QED BY <2>1, <3>1, <3>5
    <2> QED BY <2>2, <2>3
  <1>12. \A g \in Handle : pc'[g] # "closed" /\ Excludes(PathOf(g))' =>
           /\ pc'[g] \notin {"mark", "mknod", "send"}
           /\ Reopens(g)' \/ pc'[g] \in {"opened", "decref"}
                => cell'[hash'[PathOf(g)']].exclude = 1
    BY <1>10
  <1>13. \A p \in Path :
           Excludes(p)' /\ hash'[p] # NULL /\ cell'[hash'[p]].ondisk # "FILE_UNSET"
           => \/ cell'[hash'[p]].exclude = 1
              \/ \E g \in Handle : /\ pc'[g] = "create" /\ Creating(g)'
                                   /\ fh'[g] = hash'[p]
    BY <1>11
  <1>14. \A p \in dentry' : Excludes(p)' => cell'[hash'[p]].exclude = 1
    BY <1>9
  <1>15. ExcludeInv'
    BY <1>12, <1>13, <1>14 DEF ExcludeInv
  <1>16. \A p \in Path : Excludes(p) => remote'[p] = NULL
    BY <1>2, <1>4 DEF Route, Excludes, ExcludeInv
  <1> QED BY <1>15, <1>16

(* The kernel and time mark nothing, and a request begins with a lookup or *)
(* with a name whose excluded file is marked.                              *)
LEMMA ExcludeOther ==
  ASSUME TypeOK, NoFreeInv, OwnCellInv, ExcludeInv, NoCollector, OtherStep
  PROVE  ExcludeInv'
  <1>1. /\ UNCHANGED <<hash, cell, fh, remote>>
        /\ dentry' \subseteq dentry
        /\ \A h \in Handle :
             \/ /\ pc'[h] = pc[h] /\ PathOf(h)' = PathOf(h)
                /\ Creating(h)' = Creating(h)
             \/ /\ pc'[h] \in {"getattr", "open"}
                /\ pc'[h] = "open" => PathOf(h)' \in dentry
    BY KernelFrame DEF PathOf, Creating, Flags
  <1>2. \A p \in Path : Excludes(p)' = Excludes(p)
    BY <1>1 DEF Excludes
  <1>3. \A p \in dentry' : Excludes(p)' => cell'[hash'[p]].exclude = 1
    BY <1>1 DEF ExcludeInv, Excludes
  <1>4. ASSUME NEW h \in Handle, pc'[h] # "closed", Excludes(PathOf(h))'
        PROVE  /\ pc'[h] \notin {"mark", "mknod", "send"}
               /\ Reopens(h)' \/ pc'[h] \in {"opened", "decref"}
                    => cell'[hash'[PathOf(h)']].exclude = 1
    <2>1. Excludes(PathOf(h)')
      BY <1>1, <1>4 DEF Excludes
    <2> QED BY <1>1, <1>4, <2>1 DEF ExcludeInv, Reopens
  <1>5. ASSUME NEW h \in Handle, pc[h] = "create", Creating(h)
        PROVE  pc'[h] = "create" /\ Creating(h)'
    <2>1. pc[h] # "closed"
      BY <1>5
    <2> QED BY <1>5, <2>1, KernelFrame DEF Creating, Flags
  <1>6. \A p \in Path :
          Excludes(p)' /\ hash'[p] # NULL /\ cell'[hash'[p]].ondisk # "FILE_UNSET"
          => \/ cell'[hash'[p]].exclude = 1
             \/ \E g \in Handle : /\ pc'[g] = "create" /\ Creating(g)'
                                  /\ fh'[g] = hash'[p]
    BY <1>1, <1>2, <1>5 DEF ExcludeInv
  <1> QED BY <1>3, <1>4, <1>6 DEF ExcludeInv

(* With garbage collection off, excluded files are marked as ExcludeInv    *)
(* says.                                                                   *)
LEMMA Marked == ~GcOn /\ Spec => []ExcludeInv
  <1> SUFFICES ASSUME ~GcOn PROVE Spec => []ExcludeInv
    OBVIOUS
  <1>1. Init => ExcludeInv
    BY DEF Init, HashInit, ExcludeInv
  <1>2. TypeOK /\ NoFreeInv /\ OwnCellInv /\ KnownInv /\ ExcludeInv /\ [Next]_vars
          => ExcludeInv'
    <2> SUFFICES ASSUME TypeOK, NoFreeInv, OwnCellInv, KnownInv, ExcludeInv,
                        [Next]_vars
                 PROVE  ExcludeInv'
      OBVIOUS
    <2>1. CASE UNCHANGED vars
      BY <2>1 DEF vars, table, store, ExcludeInv, Excludes, Reopens, Creating, Flags,
                  PathOf
    <2>2. NoCollector
      BY DEF NoCollector, gc_callback
    <2> QED BY <2>1, <2>2, ExcludeHandle, ExcludeOther, NextSplit
  <1>3. ~GcOn /\ Spec => []NoFreeInv /\ []OwnCellInv /\ []KnownInv
    BY NoneFreed, OwnCells, Known, PTL
  <1> QED BY <1>1, <1>2, <1>3, TypeCorrect, PTL DEF Spec

(* With garbage collection off, a file that matches the exclusion pattern  *)
(* and is not in the store does not get there, through any open, reopen or *)
(* failed create of it, whatever fails on the way.                         *)
THEOREM ExcludedKept == ~GcOn /\ Spec => ExcludedStaysLocal
  <1> SUFFICES ASSUME ~GcOn PROVE Spec => ExcludedStaysLocal
    OBVIOUS
  <1>1. TypeOK /\ NoFreeInv /\ OwnCellInv /\ KnownInv /\ ExcludeInv /\ [Next]_vars =>
          [\A p \in Excluded : remote[p] = NULL => remote'[p] = NULL]_vars
    <2> SUFFICES ASSUME TypeOK, NoFreeInv, OwnCellInv, KnownInv, ExcludeInv, Next,
                        NEW p \in Excluded, remote[p] = NULL
                 PROVE  remote'[p] = NULL
      OBVIOUS
    <2> NoCollector
      BY DEF NoCollector, gc_callback
    <2>1. p \in Path /\ Excludes(p)
      BY FileCacheAssumption DEF Excludes
    <2>2. CASE OtherStep
      BY <2>2, KernelFrame
    <2>3. ASSUME NEW h \in Handle, HandlerStep(h)
          PROVE  remote'[p] = NULL
      BY <2>1, <2>3, ExcludeHandle
    <2> QED BY <2>2, <2>3, NextSplit
  <1>2. ~GcOn /\ Spec => []NoFreeInv /\ []OwnCellInv /\ []KnownInv /\ []ExcludeInv
    BY NoneFreed, OwnCells, Known, Marked, PTL
  <1> QED BY <1>1, <1>2, TypeCorrect, PTL DEF Spec, ExcludedStaysLocal

-----------------------------------------------------------------------------
(* Two paths do not share a cache file.                                    *)
OneName == \A p, q \in Path : local[p] # NULL /\ local[p] = local[q] => p = q

(* The cache file of p is not a left-over.                                 *)
Copied(p) == local[p] # NULL /\ data[local[p]] # "stale"

(* Where a handler has made a cache file and not yet said so in the cell.  *)
CarryPc == {"fetch", "reopen", "set_fd", "placeholder"}

(* A file that is truncated by its name has no other.                      *)
LEMMA TruncNames ==
  ASSUME TypeOK, OneName, NEW p \in Path, NEW i \in Inode, NEW d, OpenTrunc(p, i, d)
  PROVE  /\ OneName'
         /\ \A q \in Path \ {p} : /\ local'[q] = local[q]
                                  /\ local[q] # NULL => data'[local[q]] = data[local[q]]
  <1>1. local' = [local EXCEPT ![p] = i] /\ data' = [data EXCEPT ![i] = d]
    BY DEF OpenTrunc
  <1>2. local \in [Path -> Inode \cup {NULL}] /\ data \in [Inode -> Content]
    BY DEF TypeOK, DiskTypeOK
  <1>3. \A q \in Path \ {p} : local[q] # i
    BY DEF OpenTrunc, FreeInode, OneName
  <1> QED BY <1>1, <1>2, <1>3 DEF OneName

(* No step gives a cache file a second name.                               *)
LEMMA OneNameStep ==
  ASSUME TypeOK, OneName, [Next]_vars
  PROVE  OneName'
  <1>1. CASE \A p \in Path : local'[p] \in {local[p], NULL}
    BY <1>1 DEF OneName
  <1>2. ASSUME NEW h \in Handle, MovesAt(h), HandlerStep(h)
        PROVE  OneName'
    <2>1. pc[h] # "closed" => PathOf(h) \in Path
      BY AtPc
    <2>2. CASE open_creat(h) /\ CreatsFile(h)
      BY <2>1, <2>2, TruncNames DEF open_creat, CreatsFile
    <2>3. CASE MovesContent(h)
      <3>1. ASSUME NEW i \in Inode, copy_download(h), OpenTrunc(PathOf(h), i, "partial")
            PROVE  OneName'
        BY <2>1, <3>1, TruncNames DEF copy_download
      <3>2. CASE local' = local
        BY <1>1, <3>2
      <3>3. CASE copy_discard(h) /\ local' = [local EXCEPT ![PathOf(h)] = NULL]
        <4>1. \A p \in Path : local'[p] \in {local[p], NULL}
          BY <3>3 DEF TypeOK, DiskTypeOK
        <4> QED BY <1>1, <4>1
      <3>4. dfs_release(h) => local' = local
        BY DEF dfs_release, disk
      <3> QED BY <2>3, <3>1, <3>2, <3>3, <3>4 DEF MovesContent
    <2>4. CASE open_set_fd(h) \/ create_mknod(h) \/ dfs_write(h) \/ release_send(h)
      BY <1>1, <1>2, <2>4, OtherMoves
    <2> QED BY <1>2, <2>2, <2>3, <2>4 DEF MovesAt
  <1> QED BY <1>1, <1>2, StepKinds DEF Quiet

(* A cache file that is not a left-over was none before, or a handler has  *)
(* just made it.                                                           *)
LEMMA CopyFrame ==
  ASSUME TypeOK, FreshInv, OneName, [Next]_vars, NEW p \in Path, Copied(p)'
  PROVE  Copied(p) \/ \E h \in Handle : PathOf(h)' = p /\ pc'[h] \in CarryPc
  <1>1. CASE Quiet
    BY <1>1 DEF Quiet, Copied
  <1>2. ASSUME NEW h \in Handle, MovesAt(h), HandlerStep(h)
        PROVE  Copied(p) \/ (PathOf(h)' = p /\ pc'[h] \in CarryPc)
    <2>1. /\ NULL \notin Inode
          /\ local \in [Path -> Inode \cup {NULL}] /\ data \in [Inode -> Content]
      BY PentryAssumption DEF TypeOK, DiskTypeOK
    <2>2. PathOf(h) \in Path /\ pc[h] # "closed"
      BY <1>2, NameFrame, AtPc
    <2>3. pc'[h] # "closed" => PathOf(h)' = PathOf(h)
      BY <1>2, NameFrame DEF PathOf
    <2>4. ASSUME NEW i \in Inode, NEW d, OpenTrunc(PathOf(h), i, d),
                 pc'[h] \in {"placeholder", "fetch"}
          PROVE  Copied(p) \/ (PathOf(h)' = p /\ pc'[h] \in CarryPc)
      <3>1. p # PathOf(h) => local'[p] = local[p] /\ (local[p] # NULL => data'[local[p]] = data[local[p]])
        BY <2>2, <2>4, TruncNames
      <3> QED BY <2>3, <2>4, <3>1 DEF Copied, CarryPc
    <2>5. CASE open_creat(h) /\ CreatsFile(h)
      BY <2>4, <2>5 DEF CreatsFile
    <2>6. ASSUME local' = local,
                 \/ data' = data
                 \/ \E j \in Inode : \E d : data' = [data EXCEPT ![j] = d] /\ data[j] # "stale"
          PROVE  Copied(p)
      BY <2>1, <2>6 DEF Copied
    <2>7. CASE MovesContent(h)
      <3>1. CASE copy_discard(h)
        BY <2>1, <3>1 DEF copy_discard, Copied
      <3>2. ASSUME NEW i \in Inode, OpenTrunc(PathOf(h), i, "partial"),
                   pc' = [pc EXCEPT ![h] = "fetch"]
            PROVE  Copied(p) \/ (PathOf(h)' = p /\ pc'[h] \in CarryPc)
        BY <2>4, <3>2 DEF TypeOK, HandleTypeOK
      <3>3. CASE copy_fetch(h) /\ local' = local
                   /\ data' = [data EXCEPT ![lfd[h].ino] = remote[PathOf(h)]]
        <4>1. lfd[h] # NULL
          BY <3>3 DEF copy_fetch, TypeOK, LocalsOK
        <4>2. lfd[h].ino \in Inode /\ data[lfd[h].ino] # "stale"
          BY <4>1 DEF FreshInv, TypeOK, HandleTypeOK, Descriptor
        <4> QED BY <2>6, <3>3, <4>2
      <3>4. CASE UNCHANGED <<local, data>>
        BY <2>6, <3>4
      <3> QED BY <2>7, <3>1, <3>2, <3>3, <3>4 DEF MovesContent
    <2>8. CASE open_set_fd(h) \/ create_mknod(h) \/ release_send(h)
      BY <1>2, <2>6, <2>8, OtherMoves
    <2>9. CASE dfs_write(h)
      <3>1. fh[h] \in Pe /\ cell[fh[h]] \in Pentry
        BY <2>9, AtPc DEF dfs_write
      <3>2. cell[fh[h]].fd.ino \in Inode /\ data[cell[fh[h]].fd.ino] # "stale"
        BY <2>9, <3>1 DEF dfs_write, FreshInv, Pentry, Descriptor
      <3>3. local' = local /\ data' = [data EXCEPT ![cell[fh[h]].fd.ino] = h]
        BY <2>9 DEF dfs_write
      <3> QED BY <2>6, <3>2, <3>3
    <2> QED BY <1>2, <2>5, <2>7, <2>8, <2>9 DEF MovesAt
  <1> QED BY <1>1, <1>2, StepKinds
=============================================================================
