---------------------------- MODULE MountProofs ----------------------------
(***************************************************************************)
(* Theorems about Mount: what a session leaves in the cache directory, and *)
(* what the next one makes of it.                                          *)
(*                                                                         *)
(* A session begins with an empty table and a cache directory of unknown   *)
(* files.  While it lasts its steps are those of FileCache, so that the    *)
(* invariants proved for FileCache hold in each session by themselves; what*)
(* is added is the account of every cache file that is not a left-over: a  *)
(* cell says FILE_LOCAL for it, or the handler that made it is on the way. *)
(*                                                                         *)
(* The second half is about the configuration the session starts with, for *)
(* files of any number of lines: what parse_token, parse_file and conf_ctor*)
(* keep true of a configuration, by induction over the lines.               *)
(***************************************************************************)
EXTENDS Mount, FileCacheProofs, WellFoundedInduction, SequenceTheorems

(* Names for sets of program counters are always unfolded.                 *)
USE DEF GetattrPc, OpenPc, ReleasePc, IdlePc, NoCellPc, CopyPc, Pc, DerefPc,
        OwnerPc, CountedPc

-----------------------------------------------------------------------------
(* The cell of p says that its file is in the cache directory.             *)
Said(p) == hash[p] # NULL /\ cell[hash[p]].ondisk = "FILE_LOCAL"

Accounted ==
    \A p \in Path : Copied(p) =>
        Said(p) \/ \E h \in Handle : PathOf(h) = p /\ pc[h] \in CarryPc

(* Neither open(2) nor a read from the store fails.                        *)
FilesWork == Faults \cap {"read", "open"} = {}

(* What holds within a session in which the collector does not run, and    *)
(* before it begins.                                                       *)
Tidy == NoFreeInv /\ OwnCellInv /\ KnownInv /\ Accounted

MountInv ==
    /\ TypeOK /\ OpenHasFd /\ FreshInv /\ OneName
    /\ main \in {"stopped", "start", "configured"} => Tidy
    /\ main = "mounted" /\ ~GcStarted /\ FilesWork => Tidy
    /\ main = "destroy" /\ ~GcStarted /\ FilesWork =>
        /\ gcpc = "idle"
        /\ \A p \in Path : Copied(p) => p \in todo /\ Said(p)

-----------------------------------------------------------------------------
(* A handler on the way to the placeholder gets there, or the file is gone *)
(* that it made: no open or download fails between the two.                *)
LEMMA CarryFrame ==
  ASSUME TypeOK, NoFreeInv, OwnCellInv, FilesWork,
         NEW h \in Handle, HandlerStep(h), pc[h] \in CarryPc,
         NEW p \in Path, PathOf(h) = p
  PROVE  \/ pc'[h] \in CarryPc /\ PathOf(h)' = p
         \/ local'[p] = NULL
         \/ Said(p)'
  <1>1. fh[h] \in Pe /\ Live(fh[h]) /\ hash[PathOf(h)] = fh[h] /\ fh[h] # NULL
    BY PentryAssumption, AtPc DEF CarryPc, NoFreeInv, OwnCellInv
  <1>2. pc'[h] \in CarryPc => PathOf(h)' = p
    BY NameFrame DEF PathOf, CarryPc
  <1>3. CASE copy_fetch(h)
    <2>1. "read" \notin Faults
      BY DEF FilesWork
    <2>2. pc' = [pc EXCEPT ![h] = "reopen"]
      BY <1>3, <2>1 DEF copy_fetch, Goto
    <2> QED BY <1>2, <2>2 DEF CarryPc, TypeOK, HandleTypeOK
  <1>4. CASE copy_reopen(h)
    BY <1>2, <1>4 DEF copy_reopen, Goto, CarryPc, TypeOK, HandleTypeOK, disk, FilesWork
  <1>5. CASE open_set_fd(h)
    BY <1>2, <1>5 DEF open_set_fd, Goto, CarryPc, TypeOK, HandleTypeOK
  <1>6. CASE open_placeholder(h)
    BY <1>1, <1>6 DEF open_placeholder, pentry_set_placeholder, Update, Said, PathOf,
                      TypeOK, HashTypeOK, Pentry
  <1> QED BY <1>1, <1>3, <1>4, <1>5, <1>6
          DEF HandlerStep, CarryPc, dfs_open, create_namei, dfs_write, dfs_release,
              Working, Getattr, Open, Release, UseAfterFree, dfs_getattr,
              getattr_insert, getattr_dispatch, getattr_unset, getattr_mark,
              populate_hash, open_incref, open_lock, open_creat, open_existing,
              download_headers, compare_digests, copy_discard, copy_download,
              dfs_create, create_mknod, release_decref, release_send, release_clean

(* A handler's step keeps the account.                                     *)
LEMMA AccountHandle ==
  ASSUME TypeOK, TypeOK', FreshInv, OneName, Tidy, FilesWork,
         NEW h \in Handle, HandlerStep(h)
  PROVE  Accounted'
  <1> SUFFICES ASSUME NEW p \in Path, Copied(p)',
                      ~ \E g \in Handle : PathOf(g)' = p /\ pc'[g] \in CarryPc
               PROVE  Said(p)'
    BY DEF Accounted
  <1>1. Copied(p)
    BY CopyFrame, NextSplit DEF Next, HandlerStep
  <1>2. CASE Said(p)
    <2>1. hash[p] \in Pe /\ Live(hash[p]) /\ hash'[p] = hash[p]
      BY <1>2, CellsKept DEF Said, Tidy, NoFreeInv, TypeOK, HashTypeOK
    <2> QED BY <1>2, <2>1, KnownHandle DEF Said, Tidy
  <1>3. ASSUME NEW g \in Handle, PathOf(g) = p, pc[g] \in CarryPc
        PROVE  Said(p)'
    <2>1. CASE g = h
      BY <1>3, <2>1, CarryFrame DEF Tidy, Copied
    <2>2. CASE g # h
      BY <1>3, <2>2, HandlerFrame DEF PathOf
    <2> QED BY <2>1, <2>2
  <1> QED BY <1>1, <1>2, <1>3 DEF Tidy, Accounted

(* The kernel and time keep everything within a session.                   *)
LEMMA TidyOther ==
  ASSUME TypeOK, Tidy, NoCollector, OtherStep
  PROVE  Tidy'
  <1>1. NoFreeInv' /\ KnownInv'
    BY NoFreeOther, KnownOther DEF Tidy
  <1>2. /\ UNCHANGED <<hash, cell, local, data, fh>>
        /\ \A h \in Handle : \/ pc'[h] = pc[h] /\ call'[h] = call[h]
                             \/ pc[h] = "closed"
    BY OtherQuiet, KernelFrame DEF Tidy
  <1>3. OwnCellInv'
    <2>1. \A h \in Handle : fh[h] # NULL => call'[h] = call[h]
      BY <1>2 DEF TypeOK, LocalsOK
    <2> QED BY <1>2, <2>1 DEF Tidy, OwnCellInv, PathOf
  <1>4. Accounted'
    BY <1>2 DEF Tidy, Accounted, Copied, Said, CarryPc, PathOf
  <1> QED BY <1>1, <1>3, <1>4 DEF Tidy

(* So do the handlers.                                                     *)
LEMMA TidyHandle ==
  ASSUME TypeOK, TypeOK', FreshInv, OneName, Tidy, FilesWork,
         NEW h \in Handle, HandlerStep(h)
  PROVE  Tidy'
  BY NoFreeHandle, OwnCellHandle, KnownHandle, AccountHandle DEF Tidy

-----------------------------------------------------------------------------
(* The life of the process.                                                *)

(* Before a session nothing is open and the table is empty.                *)
Fresh ==
    /\ HashInit /\ dentry = {}
    /\ data = [i \in Inode |-> "stale"]
    /\ pc = [h \in Handle |-> "closed"]
    /\ call = [h \in Handle |-> NULL] /\ fh = call /\ lfd = call
    /\ gcpc = "idle"
    /\ local \in [Path -> Inode \cup {NULL}]
    /\ \A p \in Path : remote[p] # "stale"

(* Nothing is open, and every file of the cache directory is a left-over. *)
LEMMA FreshTidy == Fresh => Tidy /\ FreshInv /\ OpenHasFd
  <1> SUFFICES ASSUME Fresh PROVE Tidy /\ FreshInv /\ OpenHasFd
    OBVIOUS
  <1>1. /\ pentry_free.fd = NULL /\ pentry_free.state = "free"
        /\ pentry_free.ondisk = "FILE_UNSET"
    BY DEF pentry_free, pentry_new
  <1>2. /\ \A x \in Pe : cell[x] = pentry_free
        /\ \A p \in Path : hash[p] = NULL
        /\ \A h \in Handle : pc[h] = "closed" /\ call[h] = NULL /\ fh[h] = NULL /\ lfd[h] = NULL
    BY DEF Fresh, HashInit
  <1>3. NoFreeInv /\ OwnCellInv
    BY <1>2 DEF Fresh, NoFreeInv, OwnCellInv, HoldsName
  <1>4. KnownInv
    BY <1>1, <1>2 DEF Fresh, KnownInv, Live, Reopens, Stats
  <1>5. Accounted
    BY DEF Fresh, Accounted, Copied
  <1>6. FreshInv
    BY <1>1, <1>2 DEF Fresh, FreshInv
  <1>7. OpenHasFd
    BY <1>1, <1>2 DEF OpenHasFd
  <1> QED BY <1>3, <1>4, <1>5, <1>6, <1>7 DEF Tidy

(* So it is at the very first.                                             *)
LEMMA MountStart == MountInit => MountInv
  <1> SUFFICES ASSUME MountInit PROVE MountInv
    OBVIOUS
  <1>1. Init /\ TypeOK /\ main = "stopped"
    BY InitType DEF MountInit
  <1>2. Fresh
    BY <1>1, PentryAssumption DEF Init, Fresh, Content, TypeOK, DiskTypeOK
  <1>3. OneName
    BY <1>1 DEF Init, OneName
  <1> QED BY <1>1, <1>2, <1>3, FreshTidy DEF MountInv

(* The process is gone: what it had in memory is, and the cache directory  *)
(* holds left-overs.                                                       *)
LEMMA ExitStep ==
  ASSUME MountInv, exit
  PROVE  MountInv'
  <1>1. TypeOK /\ FreshInv
    BY DEF MountInv
  <1>2. TypeOK'
    <2>1. HashTypeOK'
      BY PentryNewType DEF exit, HashTypeOK
    <2>2. DiskTypeOK' /\ StoreTypeOK'
      BY <1>1 DEF exit, TypeOK, DiskTypeOK, StoreTypeOK, Content
    <2>3. HandleTypeOK'
      BY DEF exit, HandleTypeOK
    <2>4. \A h \in Handle : LocalsOK(h)'
      BY DEF exit, LocalsOK
    <2>5. GcTypeOK'
      BY DEF exit, GcTypeOK
    <2> QED BY <2>1, <2>2, <2>3, <2>4, <2>5 DEF TypeOK
  <1>3. Fresh'
    BY <1>1 DEF exit, Fresh, HashInit, FreshInv, TypeOK, DiskTypeOK
  <1>4. OneName'
    BY DEF MountInv, exit, OneName
  <1>5. Tidy' /\ FreshInv' /\ OpenHasFd'
    BY <1>3, FreshTidy, PTL
  <1> QED BY <1>2, <1>4, <1>5 DEF MountInv, exit

(* The steps of main up to the session, and the end of the process, change *)
(* nothing of the file cache.                                              *)
LEMMA MainStep ==
  ASSUME MountInv,
         \/ start \/ configure \/ dfs_init \/ session_end \/ destroy_conf
         \/ UNCHANGED mountvars
  PROVE  MountInv'
  <1>1. UNCHANGED vars
    BY DEF start, configure, dfs_init, session_end, destroy_conf, mountvars
  <1>2. UNCHANGED <<TypeOK, OpenHasFd, FreshInv, OneName, Tidy>>
    <2>1. UNCHANGED <<hash, cell, local, data, young, remote, dentry, pc, call, fh,
                      lfd, etag, wrote, gcpc, gcpe, gcpath>>
      BY <1>1 DEF vars, table, disk, store, private, gcvars
    <2>2. /\ TypeOK' = TypeOK /\ OpenHasFd' = OpenHasFd
          /\ FreshInv' = FreshInv /\ OneName' = OneName
      BY <2>1 DEF TypeOK, HashTypeOK, DiskTypeOK, StoreTypeOK, HandleTypeOK, LocalsOK,
                  GcTypeOK, OpenHasFd, Live, FreshInv, OneName, PathOf
    <2>3. NoFreeInv' = NoFreeInv /\ OwnCellInv' = OwnCellInv /\ KnownInv' = KnownInv
      BY <2>1 DEF NoFreeInv, OwnCellInv, KnownInv, Live, HoldsName, Reopens, Stats,
                  Creating, Flags, PathOf
    <2>4. Accounted' = Accounted
      BY <2>1 DEF Accounted, Copied, Said, PathOf
    <2> QED BY <2>2, <2>3, <2>4 DEF Tidy
  <1>3. CASE session_end
    <2>1. main' = "destroy" /\ conf' = conf /\ gcpc' = gcpc
      BY <1>1, <1>3 DEF session_end, vars, gcvars
    <2>2. ASSUME ~GcStarted', FilesWork, NEW p \in Path, Copied(p)'
          PROVE  gcpc' = "idle" /\ p \in todo' /\ Said(p)'
      <3>1. Tidy /\ Copied(p)
        BY <1>1, <1>3, <2>1, <2>2
        DEF session_end, MountInv, GcStarted, vars, disk, Copied
      <3>2. Said(p)
        BY <1>3, <3>1 DEF session_end, Tidy, Accounted, CarryPc
      <3> QED BY <1>1, <1>3, <2>1, <3>1, <3>2
              DEF session_end, Tidy, NoFreeInv, Said, vars, table
    <2>3. ~GcStarted' /\ FilesWork => gcpc' = "idle"
      BY <1>3, <2>1 DEF session_end, MountInv, GcStarted, Tidy, NoFreeInv
    <2> QED BY <1>2, <2>1, <2>2, <2>3 DEF MountInv
  <1>4. CASE UNCHANGED mountvars
    <2>1. UNCHANGED <<main, todo, conf, gcpc, hash, cell, local, data>>
      BY <1>1, <1>4 DEF mountvars, mainvars, vars, table, disk, gcvars
    <2> QED BY <1>2, <2>1 DEF MountInv, GcStarted, Copied, Said
  <1>5. CASE start \/ configure \/ dfs_init \/ destroy_conf
    BY <1>2, <1>5 DEF start, configure, dfs_init, destroy_conf, MountInv
  <1> QED BY <1>3, <1>4, <1>5

(* A request is served, the kernel forgets, time passes, the collector     *)
(* works: a step of FileCache.                                             *)
LEMMA SessionStep ==
  ASSUME MountInv,
         (\E h \in Handle : Serve(h)) \/ Beside
  PROVE  MountInv'
  <1>1. Next /\ UNCHANGED mainvars
    BY DEF Serve, Beside, Next
  <1>2. TypeOK /\ OpenHasFd /\ FreshInv /\ OneName
    BY DEF MountInv
  <1>3. TypeOK'
    BY <1>1, <1>2, TypeStep
  <1>4. OpenHasFd' /\ FreshInv' /\ OneName'
    BY <1>1, <1>2, FdStep, FreshStep, OneNameStep
  <1>5. CASE main = "mounted" /\ ~GcStarted /\ FilesWork
    <2>1. Tidy
      BY <1>5 DEF MountInv
    <2>2. NoCollector \/ \E h \in Handle : HandlerStep(h)
      <3>1. CASE Beside
        BY <1>5, <2>1, <3>1
        DEF Beside, KernelForget, Age, NoCollector, gc_callback, gcvars, Tidy, NoFreeInv
      <3>2. ASSUME NEW h \in Handle, Kernel(h)
            PROVE  NoCollector
        BY <2>1, <3>2 DEF Kernel, KernelLookup, KernelStat, KernelOpen, NoCollector,
                          gc_callback, gcvars, Tidy, NoFreeInv
      <3> QED BY <3>1, <3>2 DEF Serve, HandlerStep
    <2>3. Tidy'
      BY <1>1, <1>2, <1>3, <1>5, <2>1, <2>2, NextSplit, TidyHandle, TidyOther
    <2> QED BY <1>1, <1>3, <1>4, <1>5, <2>3 DEF MountInv, mainvars, GcStarted
  <1>6. CASE main = "destroy" /\ ~GcStarted /\ FilesWork
    <2>1. UNCHANGED <<hash, cell, local, data, gcpc, main, todo, conf>>
      BY <1>1, <1>6 DEF Serve, Beside, KernelForget, Age, table, disk, gcvars, mainvars
    <2> QED BY <1>3, <1>4, <1>6, <2>1 DEF MountInv, GcStarted, Copied, Said
  <1>7. CASE GcStarted \/ ~FilesWork \/ main \notin {"mounted", "destroy"}
    BY <1>1, <1>3, <1>4, <1>7 DEF MountInv, mainvars, GcStarted, Serve, Beside
  <1> QED BY <1>5, <1>6, <1>7

(* dfs_destroy: the cache files are removed, then the table.               *)
LEMMA DestroyStep ==
  ASSUME MountInv, (\E p \in Path : cb_hash_unlink(p)) \/ remove_all
  PROVE  MountInv'
  <1>1. TypeOK /\ OpenHasFd /\ FreshInv /\ OneName
    BY DEF MountInv
  <1>2. ASSUME NEW p \in Path, cb_hash_unlink(p)
        PROVE  MountInv'
    <2>1. /\ UNCHANGED <<hash, cell, data, young, remote, dentry, pc, call, fh, lfd, etag,
                         wrote, gcpc, gcpe, gcpath, main, conf>>
          /\ todo' = todo \ {p} /\ main = "destroy"
      BY <1>2 DEF cb_hash_unlink, table, store, private, gcvars
    <2>2. /\ local' \in [Path -> Inode \cup {NULL}]
          /\ \A q \in Path : local'[q] \in {local[q], NULL}
          /\ \A q \in Path : Said(q) /\ q \notin todo' => q \notin todo \/ local'[q] = NULL
      BY <1>1, <1>2 DEF cb_hash_unlink, TypeOK, DiskTypeOK, Said
    <2>3. TypeOK'
      BY <1>1, <2>1, <2>2
      DEF TypeOK, HashTypeOK, DiskTypeOK, StoreTypeOK, HandleTypeOK, LocalsOK, GcTypeOK,
          PathOf
    <2>4. OpenHasFd' /\ FreshInv' /\ OneName'
      <3>1. \A h \in Handle : pc[h] # "closed" => PathOf(h) \in Path
        BY <1>1, AtPc
      <3> QED BY <1>1, <2>1, <2>2, <3>1 DEF OpenHasFd, Live, FreshInv, OneName, PathOf
    <2>5. ~GcStarted' /\ FilesWork =>
            /\ gcpc' = "idle"
            /\ \A q \in Path : Copied(q)' => q \in todo' /\ Said(q)'
      BY <2>1, <2>2 DEF MountInv, GcStarted, Copied, Said
    <2> QED BY <2>1, <2>3, <2>4, <2>5 DEF MountInv
  <1>3. CASE remove_all
    <2>1. UNCHANGED <<local, data, young, remote, dentry, pc, call, fh, lfd, etag,
                      wrote, gcpc, gcpe, gcpath>>
      BY <1>3 DEF remove_all, disk, store, private, gcvars
    <2>2. /\ \A x \in Pe : cell'[x] = pentry_free
          /\ pentry_free.fd = NULL /\ pentry_free.state = "free"
          /\ pentry_free.ondisk # "FILE_LOCAL"
      BY <1>3 DEF remove_all, pentry_free, pentry_new
    <2>3. HashTypeOK'
      BY <1>3, PentryNewType DEF remove_all, HashTypeOK
    <2>4. OpenHasFd'
      <3>1. \A h \in Handle : pc[h] \notin NoCellPc => fh[h] \in Pe
        BY <1>1, AtPc
      <3> QED BY <2>1, <2>2, <3>1 DEF OpenHasFd, Live
    <2>5. TypeOK' /\ FreshInv' /\ OneName'
      BY <1>1, <2>1, <2>2, <2>3
      DEF TypeOK, DiskTypeOK, StoreTypeOK, HandleTypeOK, LocalsOK, GcTypeOK,
          FreshInv, OneName, PathOf
    <2> QED BY <1>3, <2>4, <2>5 DEF MountInv, remove_all
  <1> QED BY <1>2, <1>3

(* The account of the cache files, across sessions.                        *)
LEMMA Mounted == MountSpec => []MountInv
  <1>1. MountInv /\ [MountNext]_mountvars => MountInv'
    BY MainStep, SessionStep, DestroyStep, ExitStep DEF MountNext
  <1> QED BY <1>1, MountStart, PTL DEF MountSpec

(* What any number of earlier mounts left in the cache directory, however  *)
(* they ended, is never served, whatever fails and whether or not the      *)
(* collector runs.                                                         *)
THEOREM NothingStaleMounted == MountSpec => []NoStaleServed
  <1>1. TypeOK /\ OpenHasFd /\ FreshInv => NoStaleServed
    BY FreshServed
  <1>2. MountInv => NoStaleServed
    BY <1>1 DEF MountInv
  <1> QED BY <1>2, Mounted, PTL

(* dropletfs.c: when the collector is off and neither open(2) nor a read   *)
(* from the store fails, dfs_destroy leaves in the cache directory nothing *)
(* but what earlier mounts left, whatever the session did, whatever was    *)
(* open at its end, and however often the program was killed before.       *)
THEOREM CopiesGone == FilesWork /\ MountSpec => []CopiesRemoved
  <1> SUFFICES ASSUME FilesWork PROVE MountSpec => []CopiesRemoved
    OBVIOUS
  <1>1. MountInv => CopiesRemoved
    BY DEF MountInv, CopiesRemoved, Copied
  <1> QED BY <1>1, Mounted, PTL

-----------------------------------------------------------------------------
(***************************************************************************)
(* The configuration.  What the lines of the file make of it is shown by   *)
(* induction over the lines.                                               *)
(***************************************************************************)
(* Nat has no proper subset with zero in it that is closed under successor. *)
LEMMA Least == ASSUME NEW T \in SUBSET Nat, T # {} PROVE \E x \in T : \A y \in T : x <= y
  <1>1. PICK x \in T : \A y \in T : ~(<<y,x>> \in OpToRel(<, Nat))
    BY NatLessThanWellFounded, WFMin
  <1>2. ASSUME NEW y \in T, y < x PROVE FALSE
    BY <1>1, <1>2 DEF OpToRel
  <1>3. \A y \in T : ~(y < x) /\ x \in Nat /\ y \in Nat
    BY <1>2
  <1>4. \A y \in T : x <= y
    BY <1>3
  <1> QED BY <1>4

(* Induction over the numbers, with a set for the property.                *)
LEMMA Induct == ASSUME NEW S, 0 \in S, \A n \in Nat : n \in S => n+1 \in S PROVE Nat \subseteq S
  <1> SUFFICES ASSUME Nat \ S # {} PROVE FALSE
   OBVIOUS
  <1>1. PICK x \in Nat \ S : \A y \in Nat \ S : x <= y
    BY Least
  <1>2. x # 0 /\ x - 1 \in Nat /\ x-1+1 = x
    BY <1>1
  <1>3. x - 1 \in S
    BY <1>1, <1>2
  <1> QED BY <1>1, <1>2, <1>3

(* What a line makes of what the lines before it have made.                *)
Step(s, line) == IF ~s.ok THEN s ELSE parse_token(s.conf, s.dirs, line)

Reading(f, r, lines, n) == f = [i \in 0..n |-> IF i = 0 THEN r ELSE Step(f[i - 1], lines[i])]

(* Reading n lines is a function there is.                                 *)
LEMMA ReadingExists ==
  ASSUME NEW r, NEW lines, NEW n \in Nat
  PROVE  \E f : Reading(f, r, lines, n)
  <1> DEFINE S == {m \in Nat : \E f : Reading(f, r, lines, m)}
  <1>1. 0 \in S
    <2> DEFINE f == [i \in 0..0 |-> r]
    <2>1. f = [i \in 0..0 |-> IF i = 0 THEN r ELSE Step(f[i - 1], lines[i])]
      OBVIOUS
    <2> QED BY <2>1 DEF Reading
  <1>2. ASSUME NEW m \in Nat, m \in S PROVE m + 1 \in S
    <2>1. PICK f : Reading(f, r, lines, m)
      BY <1>2
    <2> DEFINE g == [i \in 0..m + 1 |-> IF i = m + 1 THEN Step(f[m], lines[m + 1]) ELSE f[i]]
    <2>2. ASSUME NEW i \in 0..m + 1
          PROVE  g[i] = IF i = 0 THEN r ELSE Step(g[i - 1], lines[i])
      <3>1. CASE i = m + 1
        <4>1. g[m + 1] = Step(f[m], lines[m + 1])
          OBVIOUS
        <4>2. g[m] = f[m]
          OBVIOUS
        <4> QED BY <3>1, <4>1, <4>2
      <3>2. CASE i # m + 1
        <4>1. i \in 0..m
          BY <3>2
        <4>2. g[i] = f[i]
          BY <3>2
        <4>3. i # 0 => g[i - 1] = f[i - 1]
          BY <4>1
        <4>4. f[i] = IF i = 0 THEN r ELSE Step(f[i - 1], lines[i])
          BY <2>1, <4>1 DEF Reading
        <4> QED BY <4>2, <4>3, <4>4
      <3> QED BY <3>1, <3>2
    <2>3. Reading(g, r, lines, m + 1)
      <3> HIDE DEF g
      <3>1. g = [i \in 0..m + 1 |-> g[i]]
        BY DEF g
      <3> QED BY <2>2, <3>1 DEF Reading
    <2> QED BY <2>3
  <1>3. Nat \subseteq S
    <2> HIDE DEF S
    <2> QED BY <1>1, <1>2, Induct
  <1> QED BY <1>3

(* parse_file reads the lines one by one.                                  *)
LEMMA FileRead ==
  ASSUME NEW r, NEW lines, Len(lines) \in Nat
  PROVE  \E f : /\ f[0] = r
                /\ \A i \in 1..Len(lines) : f[i] = Step(f[i - 1], lines[i])
                /\ parse_file(r, lines) = f[Len(lines)]
  <1> DEFINE f == CHOOSE f : Reading(f, r, lines, Len(lines))
  <1>1. parse_file(r, lines) = f[Len(lines)]
    BY DEF parse_file, Reading, Step
  <1>2. Reading(f, r, lines, Len(lines))
    BY ReadingExists
  <1> HIDE DEF f
  <1>3. f[0] = r /\ \A i \in 1..Len(lines) : f[i] = Step(f[i - 1], lines[i])
    BY <1>2 DEF Reading
  <1> QED BY <1>1, <1>3

(* The fields of the configuration.                                        *)
StrField == StrKey \cup {"cache_dir", "exclusion_pattern"}
Shape(c) ==
    /\ DOMAIN c = {"int", "str", "log_level", "set", "misuse"}
    /\ DOMAIN c.int = IntKey /\ DOMAIN c.str = StrField

(* What setting one field does to the configuration.                       *)
LEMMA StrFacts ==
  ASSUME NEW c, Shape(c), NEW k \in StrField, NEW text
  PROVE  /\ Shape(SetStr(c, k, text)) /\ SetStr(c, k, text).int = c.int
         /\ SetStr(c, k, text).str[k] = Heap(text)
         /\ \A j \in StrField \ {k} : SetStr(c, k, text).str[j] = c.str[j]
         /\ SetStr(c, k, text).misuse <=> c.misuse \/ BadFree(c.str[k])
  BY DEF Shape, SetStr

(* Of a number.                                                            *)
LEMMA IntFacts ==
  ASSUME NEW c, Shape(c), NEW k \in IntKey, NEW text
  PROVE  /\ Shape(parse_int(c, k, text)) /\ parse_int(c, k, text).str = c.str
         /\ parse_int(c, k, text).int[k] = strtoul(text)
         /\ \A j \in IntKey \ {k} : parse_int(c, k, text).int[j] = c.int[j]
         /\ parse_int(c, k, text).misuse = c.misuse
  BY DEF Shape, parse_int

(* Of the log level.                                                       *)
LEMMA LevelFacts ==
  ASSUME NEW c, Shape(c), NEW text
  PROVE  /\ Shape(parse_log_level(c, text))
         /\ parse_log_level(c, text).int = c.int
         /\ parse_log_level(c, text).str = c.str
         /\ parse_log_level(c, text).misuse => c.misuse \/ text = ""
  BY DEF Shape, parse_log_level

(* What a line does to the configuration, by its key: to the numbers, to   *)
(* the strings, to the memory, and to the cache directory.                 *)
Given(line, k) == line.key = k /\ line.text \notin {NoText, ""}

Root(c, line) == IF line.text = "" THEN c.str["cache_dir"].text ELSE <<line.text>>

(* A line with key sets the number k.                                      *)
Sets(key, k) == key = k \/ (key = "profiling_logfile" /\ k = "profiling")

TokenDoes(c, dirs, line, s) ==
    /\ Shape(s.conf)
    /\ \A k \in IntKey :
        s.conf.int[k] = IF line.text # NoText /\ Sets(line.key, k)
                        THEN strtoul(line.text) ELSE c.int[k]
    /\ \A k \in StrKey \cup {"exclusion_pattern"} :
        s.conf.str[k] = IF Given(line, k) THEN Heap(line.text) ELSE c.str[k]
    /\ s.conf.misuse =>
        \/ c.misuse
        \/ line.key = "log_level" /\ line.text = ""
        \/ line.key \in StrField /\ BadFree(c.str[line.key])
           /\ (line.key = "cache_dir" \/ Given(line, line.key))
    /\ line.key # "cache_dir" \/ line.text = NoText =>
        /\ s.conf.str["cache_dir"] = c.str["cache_dir"] /\ s.dirs = dirs
        /\ s.ok <=> ~(line.key \in Key /\ line.text = NoText)
    /\ line.key = "cache_dir" /\ line.text # NoText =>
        /\ s.conf.str["cache_dir"] = Heap(Append(Root(c, line), Bucket))
        /\ s.ok <=> Makable(Root(c, line), Bucket, dirs)
        /\ s.dirs = IF s.ok THEN dirs \cup {Append(Root(c, line), Bucket)} ELSE dirs

(* Of the cache directory: the bucket's name is appended, and the directory*)
(* there is or made.                                                       *)
LEMMA CacheDirFacts ==
  ASSUME NEW c, Shape(c), NEW dirs
  PROVE  LET s == conf_set_full_cache_dir(c, dirs)
             root == c.str["cache_dir"].text
         IN /\ s.conf = SetStr(c, "cache_dir", Append(root, Bucket))
            /\ s.ok <=> Makable(root, Bucket, dirs)
            /\ s.dirs = IF s.ok THEN dirs \cup {Append(root, Bucket)} ELSE dirs
  BY DEF conf_set_full_cache_dir, Result

(* The keys, by the type of their field.                                   *)
LEMMA KeyFacts ==
  /\ Key = IntKey \cup StrField \cup {"log_level"}
  /\ StrField = StrKey \cup {"cache_dir", "exclusion_pattern"}
  /\ IntKey \cap StrField = {} /\ "log_level" \notin IntKey \cup StrField
  /\ "profiling" \in IntKey /\ "profiling_logfile" \in StrKey
  /\ "cache_dir" \notin StrKey /\ "exclusion_pattern" \notin StrKey
  BY DEF Key, IntKey, StrKey, StrField

(* A line that names no string but the cache directory's changes none.     *)
LEMMA OtherKey ==
  ASSUME NEW c, Shape(c), NEW dirs, NEW line, line.key \notin Key \/ line.text = NoText
  PROVE  TokenDoes(c, dirs, line, parse_token(c, dirs, line))
  <1> DEFINE s == parse_token(c, dirs, line)
  <1>1. s = Result(c, dirs, line.key \notin Key)
    BY DEF parse_token
  <1> HIDE DEF s
  <1>2. s.conf = c /\ s.dirs = dirs
    BY <1>1 DEF Result
  <1>3. s.ok <=> line.key \notin Key
    BY <1>1 DEF Result
  <1>4. \A k \in Key : ~Given(line, k) /\ (line.key = k => line.text = NoText)
    BY DEF Given
  <1>5. \A k \in IntKey \cup StrField : k \in Key
    BY KeyFacts
  <1>6. ~(line.text # NoText /\ (line.key \in IntKey \/ line.key = "profiling_logfile"))
    BY KeyFacts
  <1>7. \A k \in IntKey : s.conf.int[k] = IF line.text # NoText /\ Sets(line.key, k)
                        THEN strtoul(line.text) ELSE c.int[k]
    BY <1>2, <1>6 DEF Sets
  <1>8. "exclusion_pattern" \in StrField /\ StrKey \subseteq StrField /\ "cache_dir" \in Key
    BY KeyFacts
  <1>9. \A k \in StrKey \cup {"exclusion_pattern"} :
          s.conf.str[k] = IF Given(line, k) THEN Heap(line.text) ELSE c.str[k]
    BY <1>2, <1>4, <1>5, <1>8
  <1>10. line.key = "cache_dir" => line.text = NoText
    BY <1>8
  <1>11. s.ok <=> ~(line.key \in Key /\ line.text = NoText)
    BY <1>3
  <1>12. s.conf.misuse =>
        \/ c.misuse
        \/ line.key = "log_level" /\ line.text = ""
        \/ line.key \in StrField /\ BadFree(c.str[line.key])
           /\ (line.key = "cache_dir" \/ Given(line, line.key))
    BY <1>2
  <1>13. line.key # "cache_dir" \/ line.text = NoText =>
        /\ s.conf.str["cache_dir"] = c.str["cache_dir"] /\ s.dirs = dirs
        /\ s.ok <=> ~(line.key \in Key /\ line.text = NoText)
    BY <1>2, <1>11
  <1>14. line.key = "cache_dir" /\ line.text # NoText =>
        /\ s.conf.str["cache_dir"] = Heap(Append(Root(c, line), Bucket))
        /\ s.ok <=> Makable(Root(c, line), Bucket, dirs)
        /\ s.dirs = IF s.ok THEN dirs \cup {Append(Root(c, line), Bucket)} ELSE dirs
    BY <1>10
  <1>15. Shape(s.conf)
    BY <1>2
  <1>16. TokenDoes(c, dirs, line, s)
    BY <1>7, <1>9, <1>12, <1>13, <1>14, <1>15 DEF TokenDoes
  <1> QED BY <1>16 DEF s

(* What is left to show of a line with a key and a text.                   *)
LEMMA OneField ==
  ASSUME NEW c, Shape(c), NEW dirs, NEW line, NEW e, NEW s, line.text # NoText,
         line.key \in Key \ {"cache_dir"},
         s = Result(e, dirs, TRUE),
         Shape(e),
         \A j \in IntKey : e.int[j] = IF Sets(line.key, j)
                                     THEN strtoul(line.text) ELSE c.int[j],
         \A j \in StrKey \cup {"exclusion_pattern"} :
            e.str[j] = IF line.key = j /\ line.text # "" THEN Heap(line.text) ELSE c.str[j],
         e.str["cache_dir"] = c.str["cache_dir"],
         e.misuse => \/ c.misuse
                     \/ line.key = "log_level" /\ line.text = ""
                     \/ line.key \in StrField /\ line.text # "" /\ BadFree(c.str[line.key])
  PROVE  TokenDoes(c, dirs, line, s)
  <1>0. s.conf = e
    BY DEF Result
  <1>1. s.dirs = dirs /\ s.ok
    BY DEF Result
  <1>2. \A j \in IntKey :
          s.conf.int[j] = IF line.text # NoText /\ Sets(line.key, j)
                          THEN strtoul(line.text) ELSE c.int[j]
    BY <1>0
  <1>3. \A j \in StrKey \cup {"exclusion_pattern"} :
          s.conf.str[j] = IF Given(line, j) THEN Heap(line.text) ELSE c.str[j]
    BY <1>0 DEF Given
  <1>4. s.conf.misuse =>
          \/ c.misuse
          \/ line.key = "log_level" /\ line.text = ""
          \/ line.key \in StrField /\ BadFree(c.str[line.key])
             /\ (line.key = "cache_dir" \/ Given(line, line.key))
    BY <1>0 DEF Given
  <1>5. /\ s.conf.str["cache_dir"] = c.str["cache_dir"] /\ s.dirs = dirs
        /\ s.ok <=> ~(line.key \in Key /\ line.text = NoText)
        /\ Shape(s.conf)
    BY <1>0, <1>1
  <1> QED BY <1>2, <1>3, <1>4, <1>5 DEF TokenDoes

(* A line of a number.                                                     *)
LEMMA IntLine ==
  ASSUME NEW c, Shape(c), NEW dirs, NEW line, line.text # NoText, line.key \in IntKey
  PROVE  TokenDoes(c, dirs, line, parse_token(c, dirs, line))
  <1> DEFINE e == parse_int(c, line.key, line.text)
  <1>1. parse_token(c, dirs, line) = Result(e, dirs, TRUE)
    BY KeyFacts DEF parse_token
  <1>2. /\ Shape(e) /\ e.str = c.str /\ e.int[line.key] = strtoul(line.text) /\ e.misuse = c.misuse
        /\ \A j \in IntKey \ {line.key} : e.int[j] = c.int[j]
    BY IntFacts
  <1> HIDE DEF e
  <1>3. /\ line.key \in Key \ {"cache_dir"}
        /\ line.key \notin StrKey \cup {"exclusion_pattern"} /\ "cache_dir" \in StrField
        /\ line.key # "profiling_logfile"
    BY KeyFacts
  <1>4. \A j \in IntKey : e.int[j] = IF Sets(line.key, j)
                                     THEN strtoul(line.text) ELSE c.int[j]
    BY <1>2, <1>3 DEF Sets
  <1>5. \A j \in StrKey \cup {"exclusion_pattern"} :
            e.str[j] = IF line.key = j /\ line.text # "" THEN Heap(line.text) ELSE c.str[j]
    BY <1>2, <1>3
  <1> QED BY <1>1, <1>2, <1>3, <1>4, <1>5, OneField

(* Of the three keys of strings.                                           *)
LEMMA TextFacts ==
  ASSUME NEW c, Shape(c), NEW k \in StrField, NEW text
  PROVE  LET e == parse_str(c, k, text) IN
         /\ Shape(e) /\ e.int = c.int
         /\ e.str[k] = IF text = "" THEN c.str[k] ELSE Heap(text)
         /\ \A j \in StrField \ {k} : e.str[j] = c.str[j]
         /\ e.misuse => c.misuse \/ (text # "" /\ BadFree(c.str[k]))
  <1>1. CASE text = ""
    BY <1>1 DEF parse_str
  <1>2. CASE text # ""
    <2>1. parse_str(c, k, text) = SetStr(c, k, text)
      BY <1>2 DEF parse_str
    <2>2. /\ Shape(SetStr(c, k, text)) /\ SetStr(c, k, text).int = c.int
          /\ SetStr(c, k, text).str[k] = Heap(text)
          /\ \A j \in StrField \ {k} : SetStr(c, k, text).str[j] = c.str[j]
          /\ SetStr(c, k, text).misuse <=> c.misuse \/ BadFree(c.str[k])
      BY StrFacts
    <2> QED BY <1>2, <2>1, <2>2
  <1> QED BY <1>1, <1>2

(* A line of a string, or of the exclusion pattern.                        *)
LEMMA StrLine ==
  ASSUME NEW c, Shape(c), NEW dirs, NEW line, line.text # NoText,
         line.key \in StrKey \cup {"exclusion_pattern"}
  PROVE  TokenDoes(c, dirs, line, parse_token(c, dirs, line))
  <1>1. line.key \in StrField /\ line.key \notin IntKey /\ line.key # "log_level" /\ line.key # "cache_dir"
    BY KeyFacts
  <1>2. CASE line.key = "profiling_logfile"
    <2> DEFINE d == parse_int(c, "profiling", line.text)
               e == parse_str(d, line.key, line.text)
    <2>1. parse_token(c, dirs, line) = Result(e, dirs, TRUE)
      BY <1>1, <1>2, KeyFacts DEF parse_token
    <2>2. /\ Shape(d) /\ d.str = c.str /\ d.int["profiling"] = strtoul(line.text) /\ d.misuse = c.misuse
          /\ \A j \in IntKey \ {"profiling"} : d.int[j] = c.int[j]
      BY IntFacts, KeyFacts
    <2> HIDE DEF d
    <2>3. /\ Shape(e) /\ e.int = d.int
          /\ e.str[line.key] = IF line.text = "" THEN d.str[line.key] ELSE Heap(line.text)
          /\ \A j \in StrField \ {line.key} : e.str[j] = d.str[j]
          /\ e.misuse => d.misuse \/ (line.text # "" /\ BadFree(d.str[line.key]))
      BY <1>1, <2>2, TextFacts
    <2> HIDE DEF e
    <2>4. \A j \in IntKey : e.int[j] = IF Sets(line.key, j) THEN strtoul(line.text) ELSE c.int[j]
      BY <1>1, <1>2, <2>2, <2>3 DEF Sets
    <2>5. \A j \in StrKey \cup {"exclusion_pattern"} :
            e.str[j] = IF line.key = j /\ line.text # "" THEN Heap(line.text) ELSE c.str[j]
      BY <1>1, <2>2, <2>3, KeyFacts
    <2>6. e.str["cache_dir"] = c.str["cache_dir"]
      BY <1>1, <2>2, <2>3, KeyFacts
    <2>7. line.key \in Key \ {"cache_dir"}
      BY <1>1, KeyFacts
    <2>8. e.misuse => c.misuse \/ (line.text # "" /\ BadFree(c.str[line.key]))
      BY <2>2, <2>3
    <2> QED BY <1>1, <2>1, <2>3, <2>4, <2>5, <2>6, <2>7, <2>8, OneField
  <1>3. CASE line.key # "profiling_logfile"
    <2> DEFINE e == parse_str(c, line.key, line.text)
    <2>1. parse_token(c, dirs, line) = Result(e, dirs, TRUE)
      BY <1>1, <1>3, KeyFacts DEF parse_token
    <2>2. /\ Shape(e) /\ e.int = c.int
          /\ e.str[line.key] = IF line.text = "" THEN c.str[line.key] ELSE Heap(line.text)
          /\ \A j \in StrField \ {line.key} : e.str[j] = c.str[j]
          /\ e.misuse => c.misuse \/ (line.text # "" /\ BadFree(c.str[line.key]))
      BY <1>1, TextFacts
    <2> HIDE DEF e
    <2>4. \A j \in IntKey : e.int[j] = IF Sets(line.key, j) THEN strtoul(line.text) ELSE c.int[j]
      BY <1>1, <1>3, <2>2 DEF Sets
    <2>5. \A j \in StrKey \cup {"exclusion_pattern"} :
            e.str[j] = IF line.key = j /\ line.text # "" THEN Heap(line.text) ELSE c.str[j]
      BY <1>1, <2>2, KeyFacts
    <2>6. e.str["cache_dir"] = c.str["cache_dir"]
      BY <1>1, <2>2, KeyFacts
    <2>7. line.key \in Key \ {"cache_dir"}
      BY <1>1, KeyFacts
    <2> QED BY <1>1, <2>1, <2>2, <2>4, <2>5, <2>6, <2>7, OneField
  <1> QED BY <1>2, <1>3

(* A line of the log level.                                                *)
LEMMA LevelLine ==
  ASSUME NEW c, Shape(c), NEW dirs, NEW line, line.text # NoText, line.key = "log_level"
  PROVE  TokenDoes(c, dirs, line, parse_token(c, dirs, line))
  <1> DEFINE e == parse_log_level(c, line.text)
  <1>1. parse_token(c, dirs, line) = Result(e, dirs, TRUE)
    BY KeyFacts DEF parse_token
  <1>2. Shape(e) /\ e.int = c.int /\ e.str = c.str /\ (e.misuse => c.misuse \/ line.text = "")
    BY LevelFacts
  <1> HIDE DEF e
  <1>3. line.key \notin IntKey \cup StrField /\ line.key \in Key \ {"cache_dir"}
    BY KeyFacts
  <1>4. \A j \in IntKey : e.int[j] = IF Sets(line.key, j) THEN strtoul(line.text) ELSE c.int[j]
    BY <1>2, <1>3 DEF Sets
  <1>5. \A j \in StrKey \cup {"exclusion_pattern"} :
            e.str[j] = IF line.key = j /\ line.text # "" THEN Heap(line.text) ELSE c.str[j]
    BY <1>2, <1>3, KeyFacts
  <1>6. e.str["cache_dir"] = c.str["cache_dir"]
    BY <1>2
  <1> QED BY <1>1, <1>2, <1>3, <1>4, <1>5, <1>6, OneField

(* A line of the cache directory.                                          *)
LEMMA DirLine ==
  ASSUME NEW c, Shape(c), NEW dirs, NEW line, line.text # NoText, line.key = "cache_dir"
  PROVE  TokenDoes(c, dirs, line, parse_token(c, dirs, line))
  <1> DEFINE s == parse_token(c, dirs, line)
             d == IF line.text = "" THEN c ELSE SetStr(c, "cache_dir", <<line.text>>)
             e == SetStr(d, "cache_dir", Append(Root(c, line), Bucket))
  <1>1. s = conf_set_full_cache_dir(d, dirs)
    BY KeyFacts DEF parse_token
  <1>2. /\ Shape(d) /\ d.int = c.int
        /\ d.str["cache_dir"].text = Root(c, line)
        /\ \A j \in StrField \ {"cache_dir"} : d.str[j] = c.str[j]
        /\ d.misuse => c.misuse \/ BadFree(c.str["cache_dir"])
        /\ BadFree(d.str["cache_dir"]) => BadFree(c.str["cache_dir"])
    <2>1. CASE line.text = ""
      BY <2>1 DEF Root
    <2>2. CASE line.text # ""
      <3>1. d = SetStr(c, "cache_dir", <<line.text>>) /\ "cache_dir" \in StrField
        BY <2>2, KeyFacts
      <3> HIDE DEF d
      <3>2. ~BadFree(Heap(<<line.text>>)) /\ Heap(<<line.text>>).text = <<line.text>>
        BY DEF BadFree, Heap
      <3>3. Root(c, line) = <<line.text>>
        BY <2>2 DEF Root
      <3>4. /\ Shape(d) /\ d.int = c.int /\ d.str["cache_dir"] = Heap(<<line.text>>)
            /\ \A j \in StrField \ {"cache_dir"} : d.str[j] = c.str[j]
            /\ d.misuse <=> c.misuse \/ BadFree(c.str["cache_dir"])
        BY <3>1, StrFacts
      <3> QED BY <3>2, <3>3, <3>4
    <2> QED BY <2>1, <2>2
  <1> HIDE DEF d
  <1>3. /\ s.conf = e
        /\ s.ok <=> Makable(Root(c, line), Bucket, dirs)
        /\ s.dirs = IF s.ok THEN dirs \cup {Append(Root(c, line), Bucket)} ELSE dirs
    <2>1. LET r == conf_set_full_cache_dir(d, dirs)
              root == d.str["cache_dir"].text
          IN /\ r.conf = SetStr(d, "cache_dir", Append(root, Bucket))
             /\ r.ok <=> Makable(root, Bucket, dirs)
             /\ r.dirs = IF r.ok THEN dirs \cup {Append(root, Bucket)} ELSE dirs
      BY <1>2, CacheDirFacts
    <2> QED BY <1>1, <1>2, <2>1
  <1>4. /\ Shape(e) /\ e.int = d.int
        /\ e.str["cache_dir"] = Heap(Append(Root(c, line), Bucket))
        /\ \A j \in StrField \ {"cache_dir"} : e.str[j] = d.str[j]
        /\ e.misuse <=> d.misuse \/ BadFree(d.str["cache_dir"])
    BY <1>2, StrFacts, KeyFacts
  <1> HIDE DEF s, e
  <1>5. "cache_dir" \in StrField /\ "cache_dir" \notin IntKey /\ ~Given(line, "profiling_logfile")
    BY KeyFacts DEF Given
  <1>6. \A j \in IntKey : s.conf.int[j] = c.int[j] /\ line.key # j
    BY <1>2, <1>3, <1>4, <1>5
  <1>7. \A j \in StrKey \cup {"exclusion_pattern"} : s.conf.str[j] = c.str[j] /\ ~Given(line, j)
    BY <1>2, <1>3, <1>4, KeyFacts DEF Given
  <1>8. s.conf.misuse => c.misuse \/ BadFree(c.str["cache_dir"])
    BY <1>2, <1>3, <1>4
  <1>9. Shape(s.conf) /\ s.conf.str["cache_dir"] = Heap(Append(Root(c, line), Bucket))
    BY <1>3, <1>4
  <1>10. \A j \in IntKey :
        s.conf.int[j] = IF line.text # NoText /\ Sets(line.key, j)
                        THEN strtoul(line.text) ELSE c.int[j]
    BY <1>6 DEF Sets
  <1>11. \A j \in StrKey \cup {"exclusion_pattern"} :
           s.conf.str[j] = IF Given(line, j) THEN Heap(line.text) ELSE c.str[j]
    BY <1>7
  <1>12. s.conf.misuse =>
        \/ c.misuse
        \/ line.key = "log_level" /\ line.text = ""
        \/ line.key \in StrField /\ BadFree(c.str[line.key])
           /\ (line.key = "cache_dir" \/ Given(line, line.key))
    BY <1>5, <1>8
  <1>13. line.key # "cache_dir" \/ line.text = NoText =>
        /\ s.conf.str["cache_dir"] = c.str["cache_dir"] /\ s.dirs = dirs
        /\ s.ok <=> ~(line.key \in Key /\ line.text = NoText)
    OBVIOUS
  <1>14. line.key = "cache_dir" /\ line.text # NoText =>
        /\ s.conf.str["cache_dir"] = Heap(Append(Root(c, line), Bucket))
        /\ s.ok <=> Makable(Root(c, line), Bucket, dirs)
        /\ s.dirs = IF s.ok THEN dirs \cup {Append(Root(c, line), Bucket)} ELSE dirs
    BY <1>3, <1>9
  <1>16. TokenDoes(c, dirs, line, s)
    BY <1>9, <1>10, <1>11, <1>12, <1>13, <1>14 DEF TokenDoes
  <1> QED BY <1>16 DEF s

(* Any line.                                                               *)
LEMMA TokenFacts ==
  ASSUME NEW c, Shape(c), NEW dirs, NEW line
  PROVE  TokenDoes(c, dirs, line, parse_token(c, dirs, line))
  BY OtherKey, IntLine, StrLine, LevelLine, DirLine, KeyFacts

(* A line that ends the reading, by what there is in the directories.      *)
Bad(s, i) ==
    \/ s.file[i].key \in Key /\ s.file[i].text = NoText
    \/ s.file[i].key = "cache_dir" /\ s.file[i].text # "" /\ <<s.file[i].text>> \notin s.dirs

(* The lines that count of the first n, those of a key, and the last one's *)
(* text.                                                                   *)
UpTo(s, n) == Effective(s) \cap 1..n

Words(s, k, n) ==
    {i \in UpTo(s, n) : s.file[i].key = k /\ (k \in StrKey => s.file[i].text # "")}

Word(s, k, n) ==
    IF Words(s, k, n) = {} THEN NoText
    ELSE s.file[CHOOSE i \in Words(s, k, n) : \A j \in Words(s, k, n) : j <= i].text

(* A line counts when none before it is bad; LastLine is the last word.    *)
LEMMA Counting ==
  ASSUME NEW s, Len(s.file) \in Nat
  PROVE  /\ \A i : i \in Effective(s) <=>
                /\ i \in 1..Len(s.file) /\ s.home /\ <<"/tmp">> \in s.dirs
                /\ \A j \in 1..i : ~Bad(s, j)
         /\ \A k : LastLine(s, k) = Word(s, k, Len(s.file))
  <1>1. \A i : i \in Effective(s) <=>
                /\ i \in 1..Len(s.file) /\ s.home /\ <<"/tmp">> \in s.dirs
                /\ \A j \in 1..i : ~Bad(s, j)
    BY DEF Effective, Bad
  <1>2. \A k : LastLine(s, k) = Word(s, k, Len(s.file))
    <2> TAKE k
    <2>1. UpTo(s, Len(s.file)) = Effective(s)
      BY <1>1 DEF UpTo
    <2> DEFINE L == {i \in Effective(s) : s.file[i].key = k /\ (k \in StrKey => s.file[i].text # "")}
    <2>2. LastLine(s, k) = IF L = {} THEN NoText
                           ELSE s.file[CHOOSE i \in L : \A j \in L : j <= i].text
      BY DEF LastLine
    <2>3. L = Words(s, k, Len(s.file))
      BY <2>1 DEF Words
    <2> HIDE DEF L
    <2> QED BY <2>2, <2>3 DEF Word
  <1> QED BY <1>1, <1>2

(* One more line.                                                          *)
LEMMA NextLine ==
  ASSUME NEW s, Len(s.file) \in Nat, NEW n \in Nat, n < Len(s.file), NEW k
  PROVE  /\ \A i \in UpTo(s, n) : i \in UpTo(s, n + 1)
         /\ \A i \in UpTo(s, n + 1) : i = n + 1 \/ i \in UpTo(s, n)
         /\ n + 1 \notin Words(s, k, n + 1) => Word(s, k, n + 1) = Word(s, k, n)
         /\ n + 1 \in Words(s, k, n + 1) => Word(s, k, n + 1) = s.file[n + 1].text
  <1>1. UpTo(s, n) \subseteq 1..n /\ UpTo(s, n + 1) \subseteq 1..n + 1
    BY DEF UpTo
  <1>2. UpTo(s, n) \subseteq UpTo(s, n + 1) /\ UpTo(s, n + 1) \subseteq UpTo(s, n) \cup {n + 1}
    BY DEF UpTo
  <1>3. ASSUME n + 1 \notin Words(s, k, n + 1) PROVE Words(s, k, n + 1) = Words(s, k, n)
    BY <1>2, <1>3 DEF Words
  <1>4. ASSUME n + 1 \in Words(s, k, n + 1) PROVE Word(s, k, n + 1) = s.file[n + 1].text
    <2> DEFINE W == Words(s, k, n + 1)
               m == CHOOSE i \in W : \A j \in W : j <= i
    <2>1. W \subseteq 1..n + 1
      BY <1>1 DEF Words
    <2>2. n + 1 \in W /\ \A j \in W : j <= n + 1
      BY <1>4, <2>1
    <2> HIDE DEF W
    <2>3. m \in W /\ n + 1 <= m
      BY <2>2
    <2>4. m = n + 1
      <3> HIDE DEF m
      <3> QED BY <2>1, <2>3
    <2>5. Word(s, k, n + 1) = s.file[m].text
      BY <2>2 DEF Word, W
    <2> QED BY <2>4, <2>5
  <1>5. ASSUME n + 1 \notin Words(s, k, n + 1) PROVE Word(s, k, n + 1) = Word(s, k, n)
    <2> DEFINE V(W) == IF W = {} THEN NoText
                       ELSE s.file[CHOOSE i \in W : \A j \in W : j <= i].text
    <2>1. Word(s, k, n + 1) = V(Words(s, k, n + 1)) /\ Word(s, k, n) = V(Words(s, k, n))
      BY DEF Word
    <2> HIDE DEF V
    <2> QED BY <1>3, <1>5, <2>1
  <1> QED BY <1>2, <1>4, <1>5

-----------------------------------------------------------------------------
(* What the first n lines have made of the numbers, of the texts, and of   *)
(* the memory.                                                             *)
NumbersRead(s, n, c) ==
    \A k \in IntKey :
        \/ c.int[k] = Meaning(k, Word(s, k, n))
        \/ k = "profiling" /\ \E i \in UpTo(s, n) : s.file[i].key = "profiling_logfile"

TextsRead(s, n, c) ==
    \A k \in StrKey :
        c.str[k].text = IF Word(s, k, n) = NoText THEN conf_ctor_default.str[k].text
                        ELSE Word(s, k, n)

MemoryKept(s, n, c) ==
    /\ \A k \in StrKey \cup {"cache_dir"} :
        c.str[k].mem = "heap" \/ (k = "profiling_logfile" /\ c.str[k].mem = "literal")
    /\ \/ c.str["exclusion_pattern"] = Null
       \/ /\ c.str["exclusion_pattern"].mem = "heap"
          /\ \E i \in UpTo(s, n) : s.file[i].key = "exclusion_pattern"
    /\ c.misuse =>
        \/ Word(s, "profiling_logfile", n) # NoText
        \/ \E i \in UpTo(s, n) : s.file[i].key = "log_level" /\ s.file[i].text = ""

Wording(s, n, c) ==
    Shape(c) /\ NumbersRead(s, n, c) /\ TextsRead(s, n, c) /\ MemoryKept(s, n, c)

(* A line changes them as its key says.                                    *)
LEMMA LineWords ==
  ASSUME NEW s, Len(s.file) \in Nat, NEW n \in Nat, n < Len(s.file),
         n + 1 \in Effective(s) \/ Bad(s, n + 1), s.home, <<"/tmp">> \in s.dirs,
         NEW c, NEW dirs, Wording(s, n, c),
         NEW r, TokenDoes(c, dirs, s.file[n + 1], r)
  PROVE  Wording(s, n + 1, r.conf)
  <1> DEFINE line == s.file[n + 1]
  <1>1. n + 1 \in UpTo(s, n + 1) <=> n + 1 \in Effective(s)
    BY DEF UpTo
  <1>2. n + 1 \in Effective(s) <=> ~Bad(s, n + 1)
    BY Counting
  <1>3. /\ \A i \in UpTo(s, n) : i \in UpTo(s, n + 1)
        /\ \A k : n + 1 \notin Words(s, k, n + 1) => Word(s, k, n + 1) = Word(s, k, n)
        /\ \A k : n + 1 \in Words(s, k, n + 1) => Word(s, k, n + 1) = line.text
    BY NextLine
  <1>4. \A k : n + 1 \in Words(s, k, n + 1) <=>
                /\ n + 1 \in UpTo(s, n + 1) /\ line.key = k
                /\ k \in StrKey => line.text # ""
    BY DEF Words
  <1>5. ASSUME NEW k \in IntKey
        PROVE  \/ r.conf.int[k] = Meaning(k, Word(s, k, n + 1))
               \/ k = "profiling" /\ \E i \in UpTo(s, n + 1) : s.file[i].key = "profiling_logfile"
    <2>1. k \notin StrKey /\ k # "cache_dir" /\ k \in Key /\ "profiling_logfile" # "cache_dir" /\ "profiling_logfile" \in Key
      BY KeyFacts
    <2>2. CASE line.text # NoText /\ line.key = k
      <3>1. ~Bad(s, n + 1)
        BY <2>1, <2>2 DEF Bad
      <3>2. Word(s, k, n + 1) = line.text
        BY <1>1, <1>2, <1>3, <1>4, <2>1, <2>2, <3>1
      <3>3. r.conf.int[k] = strtoul(line.text)
        BY <2>2 DEF TokenDoes, Sets
      <3> QED BY <2>2, <3>2, <3>3 DEF Meaning
    <2>3. CASE line.text # NoText /\ line.key = "profiling_logfile" /\ k = "profiling"
      <3>1. ~Bad(s, n + 1)
        BY <2>1, <2>3 DEF Bad
      <3> QED BY <1>1, <1>2, <2>3, <3>1
    <2>4. CASE ~(line.text # NoText /\ Sets(line.key, k))
      <3>1. r.conf.int[k] = c.int[k]
        BY <2>4 DEF TokenDoes
      <3>2. n + 1 \notin Words(s, k, n + 1)
        BY <1>1, <1>2, <1>4, <2>1, <2>4 DEF Bad, Sets
      <3>3. Word(s, k, n + 1) = Word(s, k, n)
        BY <1>3, <3>2
      <3> QED BY <1>3, <3>1, <3>3 DEF Wording, NumbersRead
    <2> QED BY <2>2, <2>3, <2>4 DEF Sets
  <1>6. ASSUME NEW k \in StrKey
        PROVE  /\ r.conf.str[k].text = IF Word(s, k, n + 1) = NoText THEN conf_ctor_default.str[k].text
                                       ELSE Word(s, k, n + 1)
               /\ r.conf.str[k] = c.str[k] \/ r.conf.str[k].mem = "heap"
               /\ Given(line, k) => Word(s, k, n + 1) # NoText
               /\ Word(s, k, n) # NoText => Word(s, k, n + 1) # NoText
    <2>1. k # "cache_dir" /\ k \in Key
      BY KeyFacts
    <2>2. CASE Given(line, k)
      <3>1. ~Bad(s, n + 1)
        BY <2>1, <2>2 DEF Bad, Given
      <3>2. Word(s, k, n + 1) = line.text /\ line.text # NoText
        BY <1>1, <1>2, <1>3, <1>4, <2>2, <3>1 DEF Given
      <3>3. r.conf.str[k] = Heap(line.text)
        BY <2>2 DEF TokenDoes
      <3> QED BY <3>2, <3>3 DEF Heap
    <2>3. CASE ~Given(line, k)
      <3>1. r.conf.str[k] = c.str[k]
        BY <2>3 DEF TokenDoes
      <3>2. n + 1 \notin Words(s, k, n + 1)
        BY <1>1, <1>2, <1>4, <2>1, <2>3 DEF Bad, Given
      <3>3. Word(s, k, n + 1) = Word(s, k, n)
        BY <1>3, <3>2
      <3> QED BY <2>3, <3>1, <3>3 DEF Wording, TextsRead
    <2> QED BY <2>2, <2>3
  <1>7. r.conf.str["cache_dir"].mem = "heap"
    <2>1. c.str["cache_dir"].mem = "heap"
      BY DEF Wording, MemoryKept
    <2>2. \A t : Heap(t).mem = "heap"
      BY DEF Heap
    <2>3. r.conf.str["cache_dir"] = c.str["cache_dir"] \/ r.conf.str["cache_dir"] = Heap(Append(Root(c, line), Bucket))
      BY DEF TokenDoes
    <2> QED BY <2>1, <2>2, <2>3
  <1>8. \/ r.conf.str["exclusion_pattern"] = Null
        \/ /\ r.conf.str["exclusion_pattern"].mem = "heap"
           /\ \E i \in UpTo(s, n + 1) : s.file[i].key = "exclusion_pattern"
    <2>1. CASE Given(line, "exclusion_pattern")
      <3>1. ~Bad(s, n + 1)
        BY <2>1, KeyFacts DEF Bad, Given
      <3>2. r.conf.str["exclusion_pattern"] = Heap(line.text)
        BY <2>1 DEF TokenDoes
      <3>3. n + 1 \in UpTo(s, n + 1) /\ s.file[n + 1].key = "exclusion_pattern"
        BY <1>1, <1>2, <2>1, <3>1 DEF Given
      <3>4. Heap(line.text).mem = "heap"
        BY DEF Heap
      <3> QED BY <3>2, <3>3, <3>4
    <2>2. CASE ~Given(line, "exclusion_pattern")
      <3>1. r.conf.str["exclusion_pattern"] = c.str["exclusion_pattern"]
        BY <2>2 DEF TokenDoes
      <3> QED BY <1>3, <3>1 DEF Wording, MemoryKept
    <2> QED BY <2>1, <2>2
  <1>9. ASSUME r.conf.misuse
        PROVE  \/ Word(s, "profiling_logfile", n + 1) # NoText
               \/ \E i \in UpTo(s, n + 1) : s.file[i].key = "log_level" /\ s.file[i].text = ""
    <2>1. CASE c.misuse
      BY <1>3, <1>6, <2>1, KeyFacts DEF Wording, MemoryKept
    <2>2. CASE line.key = "log_level" /\ line.text = ""
      <3>1. ~Bad(s, n + 1)
        BY <2>2, KeyFacts DEF Bad, NoText
      <3> QED BY <1>1, <1>2, <2>2, <3>1
    <2>3. CASE /\ line.key \in StrField /\ BadFree(c.str[line.key])
               /\ line.key = "cache_dir" \/ Given(line, line.key)
      <3>1. \A k \in StrField : BadFree(c.str[k]) => k = "profiling_logfile"
        <4>3. Null.mem = "null" /\ MemoryKept(s, n, c)
          BY DEF Wording, Null
        <4>1. c.str["exclusion_pattern"].mem \in {"null", "heap"}
          BY <4>3 DEF MemoryKept
        <4>2. \A k \in StrKey \cup {"cache_dir"} :
                c.str[k].mem = "heap" \/ k = "profiling_logfile"
          BY DEF Wording, MemoryKept
        <4> QED BY <4>1, <4>2, KeyFacts DEF BadFree
      <3>2. line.key = "profiling_logfile" /\ Given(line, line.key)
        BY <2>3, <3>1, KeyFacts
      <3> QED BY <1>6, <3>2, KeyFacts
    <2> QED BY <1>9, <2>1, <2>2, <2>3 DEF TokenDoes
  <1>10. NumbersRead(s, n + 1, r.conf) /\ TextsRead(s, n + 1, r.conf)
    BY <1>5, <1>6 DEF NumbersRead, TextsRead
  <1>11. \A k \in StrKey \cup {"cache_dir"} :
            r.conf.str[k].mem = "heap" \/ (k = "profiling_logfile" /\ r.conf.str[k].mem = "literal")
    BY <1>6, <1>7 DEF Wording, MemoryKept
  <1>12. MemoryKept(s, n + 1, r.conf)
    BY <1>8, <1>9, <1>11 DEF MemoryKept
  <1>13. Shape(r.conf)
    BY DEF TokenDoes
  <1> QED BY <1>10, <1>12, <1>13 DEF Wording

-----------------------------------------------------------------------------
(* What they have made of the directories: they are read as long as none   *)
(* is bad, the cache directory is made under one there is, and with a name *)
(* of one there is in every line it is <name>/<bucket>.                    *)
AllThere(s) ==
    \A i \in 1..Len(s.file) : s.file[i].key = "cache_dir" =>
        <<s.file[i].text>> \in s.dirs \cup {<<NoText>>}

Based(s, n) ==
    <<IF Word(s, "cache_dir", n) = NoText THEN "/tmp" ELSE Word(s, "cache_dir", n), Bucket>>

(* Texts (to the provers a literal is not always a string).                *)
Text == STRING \cup {"/tmp"}

AllNamed(s) == <<"">> \notin s.dirs

Placed(s, n, r) ==
    LET dir == r.conf.str["cache_dir"].text IN
    /\ r.ok <=> \A j \in 1..n : ~Bad(s, j)
    /\ dir \in Seq(Text) /\ dir # <<>>
    /\ r.ok => dir \in r.dirs
    /\ s.dirs \subseteq r.dirs
    /\ \A v \in Text : <<v>> \in r.dirs => <<v>> \in s.dirs
    /\ \A v \in Text : <<v, Bucket>> \in r.dirs => <<v>> \in s.dirs
    /\ AllThere(s) => dir = Based(s, n) /\ dir \in r.dirs

(* Paths of one name and of two.                                           *)
LEMMA ShortPaths == ASSUME NEW S, NEW v \in S, NEW b \in S
  PROVE <<v>> \in Seq(S) /\ <<>> \in Seq(S) /\ Append(<<v>>,b) = <<v,b>> /\ Append(<<>>, v) = <<v>>
  <1>1. <<v>> \in Seq(S) /\ Len(<<v>>) = 1 /\ <<v>>[1] = v /\ <<>> \in Seq(S) /\ Append(<<>>, v) = <<v>>
    OBVIOUS
  <1>2. <<v, b>> \in Seq(S) /\ Len(<<v, b>>) = 2 /\ <<v, b>>[1] = v /\ <<v, b>>[2] = b
    OBVIOUS
  <1> DEFINE e == <<v>>  f == <<v, b>>  g == Append(e, b)
  <1> HIDE DEF e, f
  <1>3. g \in Seq(S) /\ Len(g) = 2 /\ g[1] = v /\ g[2] = b
    BY <1>1, AppendProperties DEF e
  <1>4. \A i \in 1..2 : g[i] = f[i]
    BY <1>2, <1>3 DEF f
  <1> HIDE DEF g
  <1>5. g = f
    BY <1>2, <1>3, <1>4, SeqEqual DEF f
  <1> QED BY <1>1, <1>5 DEF e, f, g

(* A name at the end of a path.                                            *)
LEMMA LongPaths ==
  ASSUME NEW S, NEW b \in S, NEW d \in Seq(S), d # <<>>
  PROVE  /\ Append(d, b) \in Seq(S) /\ Append(d, b) # <<>>
         /\ \A v \in S : Append(d, b) # <<v>>
         /\ \A v \in S : Append(d, b) = <<v, b>> => d = <<v>>
  <1>1. Append(d, b) \in Seq(S) /\ Append(d, b) # <<>>
    BY AppendProperties
  <1>2. ASSUME NEW v \in S PROVE Append(d, b) # <<v>> /\ (Append(d, b) = <<v, b>> => d = <<v>>)
    <2>1. <<v>> \in Seq(S) /\ <<>> \in Seq(S) /\ Append(<<v>>,b) = <<v,b>> /\ Append(<<>>, v) = <<v>>
      BY ShortPaths
    <2>2. Append(d, b) = Append(<<v>>, b) => d = <<v>>
      BY <2>1, AppendInjective
    <2>3. Append(d, b) = Append(<<>>, v) => d = <<>>
      BY <2>1, AppendInjective
    <2> QED BY <2>1, <2>2, <2>3
  <1> QED BY <1>1, <1>2

(* A directory is made under one there is.                                 *)
LEMMA Made ==
  ASSUME Bucket \in Text, NEW s, NEW r, NEW d \in Seq(Text), d # <<>>,
         \A v \in Text : <<v>> \in r.dirs => <<v>> \in s.dirs,
         \A v \in Text : <<v, Bucket>> \in r.dirs => <<v>> \in s.dirs
  PROVE  /\ \A v \in Text : d = <<v>> =>
                (Makable(d, Bucket, r.dirs) => <<v>> \in s.dirs)
         /\ Makable(d, Bucket, r.dirs) => \A v \in Text :
                /\ <<v>> \in r.dirs \cup {Append(d, Bucket)} => <<v>> \in s.dirs
                /\ <<v, Bucket>> \in r.dirs \cup {Append(d, Bucket)} => <<v>> \in s.dirs
  <1>1. ASSUME NEW v \in Text, d = <<v>>, Makable(d, Bucket, r.dirs)
        PROVE  <<v>> \in s.dirs
    <2>1. Append(<<v>>, Bucket) = <<v, Bucket>>
      BY ShortPaths
    <2> QED BY <1>1, <2>1 DEF Makable
  <1>2. ASSUME Makable(d, Bucket, r.dirs), NEW v \in Text
        PROVE  /\ <<v>> \in r.dirs \cup {Append(d, Bucket)} => <<v>> \in s.dirs
               /\ <<v, Bucket>> \in r.dirs \cup {Append(d, Bucket)} => <<v>> \in s.dirs
    <2>1. Append(d, Bucket) # <<v>> /\ (Append(d, Bucket) = <<v, Bucket>> => d = <<v>>)
      BY LongPaths
    <2> QED BY <1>1, <1>2, <2>1
  <1> QED BY <1>1, <1>2

(* A line changes them, when it is read.                                   *)
LEMMA LineDirs ==
  ASSUME Bucket \in Text, NEW s, Len(s.file) \in Nat, NEW n \in Nat, n < Len(s.file),
         s.home, <<"/tmp">> \in s.dirs, AllNamed(s), s.file[n + 1].text \in Text,
         NEW r, Placed(s, n, r), r.ok,
         NEW q, TokenDoes(r.conf, r.dirs, s.file[n + 1], q)
  PROVE  Placed(s, n + 1, q)
  <1> DEFINE line == s.file[n + 1]
             dir  == r.conf.str["cache_dir"].text
             new  == q.conf.str["cache_dir"].text
             root == Root(r.conf, line)
  <1>1. /\ dir \in Seq(Text) /\ dir # <<>> /\ dir \in r.dirs /\ s.dirs \subseteq r.dirs
        /\ \A v \in Text : <<v>> \in r.dirs => <<v>> \in s.dirs
        /\ \A v \in Text : <<v, Bucket>> \in r.dirs => <<v>> \in s.dirs
        /\ AllThere(s) => dir = Based(s, n)
        /\ \A j \in 1..n : ~Bad(s, j)
    BY DEF Placed
  <1>2. (\A j \in 1..n + 1 : ~Bad(s, j)) <=> ~Bad(s, n + 1)
    <2>1. n + 1 \in 1..n + 1 /\ \A j \in 1..n + 1 : j = n + 1 \/ j \in 1..n
      OBVIOUS
    <2> QED BY <1>1, <2>1
  <1>3. n + 1 \in UpTo(s, n + 1) <=> ~Bad(s, n + 1)
    <2>1. n + 1 \in Effective(s) <=> \A j \in 1..n + 1 : ~Bad(s, j)
      BY Counting
    <2> QED BY <1>2, <2>1 DEF UpTo
  <1>4. /\ n + 1 \notin Words(s, "cache_dir", n + 1) =>
                Word(s, "cache_dir", n + 1) = Word(s, "cache_dir", n)
        /\ n + 1 \in Words(s, "cache_dir", n + 1) => Word(s, "cache_dir", n + 1) = line.text
    BY NextLine
  <1>5. n + 1 \in Words(s, "cache_dir", n + 1) <=> ~Bad(s, n + 1) /\ line.key = "cache_dir"
    BY <1>3, KeyFacts DEF Words
  <1>6. "cache_dir" \in Key
    BY KeyFacts
  <1>7. CASE line.key # "cache_dir" \/ line.text = NoText
    <2>1. /\ new = dir /\ q.dirs = r.dirs
          /\ q.ok <=> ~(line.key \in Key /\ line.text = NoText)
      BY <1>7 DEF TokenDoes
    <2>2. Bad(s, n + 1) <=> line.key \in Key /\ line.text = NoText
      BY <1>6, <1>7 DEF Bad
    <2>3. n + 1 \notin Words(s, "cache_dir", n + 1)
      BY <1>5, <1>6, <1>7, <2>2
    <2>4. Based(s, n + 1) = Based(s, n)
      BY <1>4, <2>3 DEF Based
    <2>5. q.ok <=> \A j \in 1..n + 1 : ~Bad(s, j)
      BY <1>2, <2>1, <2>2
    <2> QED BY <1>1, <2>1, <2>4, <2>5 DEF Placed
  <1>8. CASE line.key = "cache_dir" /\ line.text # NoText
    <2>1. /\ q.conf.str["cache_dir"] = Heap(Append(root, Bucket))
          /\ q.ok <=> Makable(root, Bucket, r.dirs)
          /\ q.dirs = IF q.ok THEN r.dirs \cup {Append(root, Bucket)} ELSE r.dirs
      BY <1>8 DEF TokenDoes
    <2>2. new = Append(root, Bucket)
      <3>1. \A t : Heap(t).text = t
        BY DEF Heap
      <3> HIDE DEF root
      <3> QED BY <2>1, <3>1
    <2>3. root = IF line.text = "" THEN dir ELSE <<line.text>>
      BY DEF Root
    <2>4. root \in Seq(Text) /\ root # <<>>
      <3>1. <<line.text>> \in Seq(Text) /\ <<line.text>> # <<>>
        BY ShortPaths
      <3> QED BY <1>1, <2>3, <3>1
    <2> HIDE DEF new, dir, root
    <2>5. new \in Seq(Text) /\ new # <<>>
      BY <2>2, <2>4, LongPaths
    <2>6. q.ok <=> ~Bad(s, n + 1)
      <3>1. CASE line.text = ""
        BY <1>1, <1>8, <2>1, <2>3, <3>1 DEF Makable, Bad
      <3>2. CASE line.text # ""
        <4>1. Bad(s, n + 1) <=> <<line.text>> \notin s.dirs
          BY <1>8, <3>2 DEF Bad
        <4>2. Makable(root, Bucket, r.dirs) => <<line.text>> \in s.dirs
          BY <1>1, <2>3, <2>4, <3>2, Made
        <4>3. <<line.text>> \in s.dirs => Makable(root, Bucket, r.dirs)
          BY <1>1, <2>3, <3>2 DEF Makable
        <4> QED BY <2>1, <4>1, <4>2, <4>3
      <3> QED BY <3>1, <3>2
    <2>7. ASSUME NEW v \in Text
          PROVE  /\ <<v>> \in q.dirs => <<v>> \in s.dirs
                 /\ <<v, Bucket>> \in q.dirs => <<v>> \in s.dirs
      <3>1. CASE q.ok
        BY <1>1, <2>1, <2>4, <3>1, Made
      <3>2. CASE ~q.ok
        BY <1>1, <2>1, <3>2
      <3> QED BY <3>1, <3>2
    <2>8. s.dirs \subseteq q.dirs /\ (q.ok => new \in q.dirs)
      BY <1>1, <2>1, <2>2
    <2>9. ASSUME AllThere(s) PROVE new = Based(s, n + 1) /\ q.ok
      <3>1. <<line.text>> \in s.dirs \cup {<<NoText>>}
        <4>1. n + 1 \in 1..Len(s.file)
          OBVIOUS
        <4> QED BY <1>8, <2>9, <4>1 DEF AllThere
      <3>2. <<line.text>> # <<NoText>>
        BY <1>8
      <3>3. line.text # "" /\ <<line.text>> \in s.dirs
        BY <3>1, <3>2 DEF AllNamed
      <3>4. ~Bad(s, n + 1)
        BY <1>8, <3>3 DEF Bad
      <3>5. Word(s, "cache_dir", n + 1) = line.text
        BY <1>4, <1>5, <1>8, <3>4
      <3>6. Append(<<line.text>>, Bucket) = <<line.text, Bucket>>
        BY ShortPaths
      <3>7. new = <<line.text, Bucket>>
        BY <2>2, <2>3, <3>3, <3>6
      <3> QED BY <1>8, <2>6, <3>4, <3>5, <3>7 DEF Based
    <2>10. q.ok <=> \A j \in 1..n + 1 : ~Bad(s, j)
      BY <1>2, <2>6
    <2> QED BY <2>5, <2>7, <2>8, <2>9, <2>10 DEF Placed, new
  <1> QED BY <1>7, <1>8

(* Nothing more is read after a line that is bad.                          *)
LEMMA LineSkipped ==
  ASSUME NEW s, Len(s.file) \in Nat, NEW n \in Nat, n < Len(s.file),
         NEW r, Placed(s, n, r), Wording(s, n, r.conf), ~r.ok
  PROVE  Placed(s, n + 1, r) /\ Wording(s, n + 1, r.conf)
  <1>1. PICK j \in 1..n : Bad(s, j)
    BY DEF Placed
  <1>2. j \in 1..n + 1 /\ n + 1 \notin Effective(s)
    BY <1>1, Counting
  <1>3. \A k : Word(s, k, n + 1) = Word(s, k, n)
    <2> TAKE k
    <2>1. n + 1 \notin Words(s, k, n + 1)
      BY <1>2 DEF Words, UpTo
    <2> QED BY <2>1, NextLine
  <1>4. \A i \in UpTo(s, n) : i \in UpTo(s, n + 1)
    BY NextLine
  <1>5. Based(s, n + 1) = Based(s, n)
    BY <1>3 DEF Based
  <1>6. Placed(s, n + 1, r)
    BY <1>1, <1>2, <1>5 DEF Placed
  <1>7. NumbersRead(s, n + 1, r.conf) /\ TextsRead(s, n + 1, r.conf)
    BY <1>3, <1>4 DEF Wording, NumbersRead, TextsRead
  <1>8. MemoryKept(s, n + 1, r.conf)
    BY <1>3, <1>4 DEF Wording, MemoryKept
  <1> QED BY <1>6, <1>7, <1>8 DEF Wording

-----------------------------------------------------------------------------

(* What the program is started with.                                       *)
LEMMA SetupFacts ==
  ASSUME NEW s \in Setups
  PROVE  /\ Len(s.file) \in Nat /\ AllNamed(s) /\ Bucket \in Text
         /\ \A i \in 1..Len(s.file) : s.file[i].text \in Text
         /\ \A v \in Text : <<v, Bucket>> \in s.dirs => <<v>> \in s.dirs
  <1> DEFINE T == STRING  L == [key : T, text : T]
  <1>1. Bucket \in Text /\ AllNamed(s)
    BY ConfAssumption, MountAssumption DEF Text, AllNamed
  <1>2. s.file \in Seq(L)
    BY MountAssumption
  <1>3. \A l \in L : l.text \in Text
    BY DEF Text
  <1> HIDE DEF L
  <1>4. /\ Len(s.file) \in Nat
        /\ \A i \in 1..Len(s.file) : s.file[i] \in L
    BY <1>2, ElementOfSeq, LenProperties
  <1>5. ASSUME NEW v \in Text, <<v, Bucket>> \in s.dirs PROVE <<v>> \in s.dirs
    <2> DEFINE d == <<v, Bucket>>  e == SubSeq(d, 1, 1)  w == <<v>>
    <2>1. Len(d) = 2 /\ d[1] = v
      OBVIOUS
    <2>2. w \in Seq(Text) /\ Len(w) = 1 /\ w[1] = v
      OBVIOUS
    <2>3. SubSeq(d, 1, Len(d) - 1) \in s.dirs
      <3>1. \A x \in s.dirs : Len(x) > 1 => SubSeq(x, 1, Len(x) - 1) \in s.dirs
        BY MountAssumption
      <3> HIDE DEF d
      <3>2. d \in s.dirs
        BY <1>5 DEF d
      <3>3. Len(d) > 1
        BY <2>1
      <3> QED BY <3>1, <3>2, <3>3
    <2> HIDE DEF d, w
    <2>4. \A i \in 1..1 : d[i] \in Text
      BY <2>1
    <2>5. e \in Seq(Text) /\ Len(e) = 1 /\ e[1] = d[1]
      BY <2>4, SubSeqProperties
    <2> HIDE DEF e
    <2>6. \A i \in 1..Len(e) : e[i] = w[i]
      BY <2>1, <2>2, <2>5
    <2>7. e = w
      BY <2>2, <2>5, <2>6, SeqEqual
    <2>8. SubSeq(d, 1, 1) \in s.dirs
      BY <2>1, <2>3
    <2> QED BY <2>7, <2>8 DEF e, w
  <1> QED BY <1>1, <1>3, <1>4, <1>5

-----------------------------------------------------------------------------
(* The configuration before the file.                                      *)
Full(s) == conf_set_full_cache_dir(conf_ctor_default, s.dirs)

(* The defaults.                                                           *)
LEMMA DefaultFacts ==
  /\ Shape(conf_ctor_default) /\ ~conf_ctor_default.misuse
  /\ conf_ctor_default.str["cache_dir"] = Heap(<<"/tmp">>)
  /\ conf_ctor_default.str["exclusion_pattern"] = Null
  /\ \A k \in StrKey : \/ conf_ctor_default.str[k].mem = "heap"
                       \/ k = "profiling_logfile" /\ conf_ctor_default.str[k].mem = "literal"
  <1>1. Shape(conf_ctor_default)
    BY DEF Shape, conf_ctor_default, StrField, StrKey
  <1>2. /\ ~conf_ctor_default.misuse
        /\ conf_ctor_default.str["cache_dir"] = Heap(<<"/tmp">>)
        /\ conf_ctor_default.str["exclusion_pattern"] = Null
    BY DEF conf_ctor_default
  <1>3. /\ conf_ctor_default.str["compression_method"].mem = "heap"
        /\ conf_ctor_default.str["encryption_method"].mem = "heap"
        /\ conf_ctor_default.str["profiling_logfile"].mem = "literal"
    BY DEF conf_ctor_default, Heap, Literal
  <1> QED BY <1>1, <1>2, <1>3 DEF StrKey

(* The defaults, with the name of the bucket appended.                     *)
LEMMA FullFacts ==
  ASSUME NEW s
  PROVE  LET c == Full(s).conf IN
         /\ Shape(c) /\ c.int = conf_ctor_default.int /\ ~c.misuse
         /\ c.str["cache_dir"] = Heap(Append(<<"/tmp">>, Bucket))
         /\ \A k \in StrField \ {"cache_dir"} : c.str[k] = conf_ctor_default.str[k]
         /\ Full(s).ok <=> Makable(<<"/tmp">>, Bucket, s.dirs)
         /\ Full(s).dirs = IF Full(s).ok THEN s.dirs \cup {Append(<<"/tmp">>, Bucket)} ELSE s.dirs
  <1> DEFINE d == conf_ctor_default
  <1>1. Heap(<<"/tmp">>).text = <<"/tmp">> /\ ~BadFree(Heap(<<"/tmp">>)) /\ "cache_dir" \in StrField
    BY KeyFacts DEF Heap, BadFree
  <1>2. Shape(d) /\ d.str["cache_dir"].text = <<"/tmp">> /\ ~BadFree(d.str["cache_dir"]) /\ ~d.misuse
    BY <1>1, DefaultFacts
  <1> HIDE DEF d
  <1> DEFINE p == Append(<<"/tmp">>, Bucket)
  <1>3. /\ Full(s).conf = SetStr(d, "cache_dir", p)
        /\ Full(s).ok <=> Makable(<<"/tmp">>, Bucket, s.dirs)
        /\ Full(s).dirs = IF Full(s).ok THEN s.dirs \cup {p} ELSE s.dirs
    <2>1. LET r == conf_set_full_cache_dir(d, s.dirs)
              root == d.str["cache_dir"].text
          IN /\ r.conf = SetStr(d, "cache_dir", Append(root, Bucket))
             /\ r.ok <=> Makable(root, Bucket, s.dirs)
             /\ r.dirs = IF r.ok THEN s.dirs \cup {Append(root, Bucket)} ELSE s.dirs
      BY <1>2, CacheDirFacts
    <2> QED BY <1>2, <2>1 DEF Full, d
  <1> HIDE DEF p
  <1>4. /\ Shape(SetStr(d, "cache_dir", p)) /\ SetStr(d, "cache_dir", p).int = d.int
        /\ SetStr(d, "cache_dir", p).str["cache_dir"] = Heap(p)
        /\ \A j \in StrField \ {"cache_dir"} : SetStr(d, "cache_dir", p).str[j] = d.str[j]
        /\ SetStr(d, "cache_dir", p).misuse <=> d.misuse \/ BadFree(d.str["cache_dir"])
    BY <1>1, <1>2, StrFacts
  <1> QED BY <1>2, <1>3, <1>4 DEF d, p

(* Before any line that counts.                                            *)
LEMMA NoWords ==
  ASSUME NEW s, NEW n \in Nat, UpTo(s, n) = {}, NEW c, c = conf_ctor_default \/ c = Full(s).conf
  PROVE  Wording(s, n, c)
  <1>1. \A k : Word(s, k, n) = NoText
    BY DEF Word, Words
  <1>2. /\ Shape(c) /\ c.int = conf_ctor_default.int /\ ~c.misuse
        /\ c.str["cache_dir"].mem = "heap"
        /\ \A k \in StrField \ {"cache_dir"} : c.str[k] = conf_ctor_default.str[k]
    <2>1. \A t : Heap(t).mem = "heap"
      BY DEF Heap
    <2>2. CASE c = conf_ctor_default
      BY <2>1, <2>2, DefaultFacts
    <2>3. CASE c = Full(s).conf
      BY <2>1, <2>3, FullFacts
    <2> QED BY <2>2, <2>3
  <1>3. \A k \in StrKey \cup {"exclusion_pattern"} : k \in StrField \ {"cache_dir"}
    BY KeyFacts
  <1>4. NumbersRead(s, n, c)
    BY <1>1, <1>2 DEF NumbersRead, Meaning
  <1>5. TextsRead(s, n, c)
    BY <1>1, <1>2, <1>3 DEF TextsRead
  <1>6. MemoryKept(s, n, c)
    BY <1>2, <1>3, DefaultFacts DEF MemoryKept
  <1> QED BY <1>2, <1>4, <1>5, <1>6 DEF Wording

(* Before the first line, with HOME and /tmp.                              *)
LEMMA FileStart ==
  ASSUME NEW s \in Setups, s.home, <<"/tmp">> \in s.dirs
  PROVE  Placed(s, 0, Full(s)) /\ Wording(s, 0, Full(s).conf) /\ Full(s).ok
  <1>1. UpTo(s, 0) = {} /\ \A j \in 1..0 : ~Bad(s, j)
    BY DEF UpTo
  <1>2. Wording(s, 0, Full(s).conf)
    BY <1>1, NoWords
  <1> DEFINE t == "/tmp"  r == <<t>>
  <1>3. t \in Text
    BY DEF Text
  <1> HIDE DEF t
  <1>4. /\ r \in Seq(Text) /\ r # <<>> /\ Append(r, Bucket) = <<t, Bucket>>
        /\ Bucket \in Text
    BY <1>3, ShortPaths, SetupFacts
  <1>5. r \in s.dirs /\ \A v \in Text : <<v, Bucket>> \in s.dirs => <<v>> \in s.dirs
    BY SetupFacts DEF t
  <1>6. /\ Full(s).conf.str["cache_dir"] = Heap(Append(r, Bucket))
        /\ Full(s).ok <=> Makable(r, Bucket, s.dirs)
        /\ Full(s).dirs = IF Full(s).ok THEN s.dirs \cup {Append(r, Bucket)} ELSE s.dirs
    BY FullFacts DEF t
  <1>7. Heap(Append(r, Bucket)).text = Append(r, Bucket)
    BY DEF Heap
  <1> HIDE DEF r
  <1>8. Full(s).ok /\ Full(s).dirs = s.dirs \cup {Append(r, Bucket)} /\ Makable(r, Bucket, s.dirs)
    BY <1>5, <1>6 DEF Makable
  <1>9. Append(r, Bucket) \in Seq(Text) /\ Append(r, Bucket) # <<>>
    BY <1>4, LongPaths
  <1>10. ASSUME NEW v \in Text
         PROVE  /\ <<v>> \in Full(s).dirs => <<v>> \in s.dirs
                /\ <<v, Bucket>> \in Full(s).dirs => <<v>> \in s.dirs
    <2>1. Append(r, Bucket) # <<v>> /\ (Append(r, Bucket) = <<v, Bucket>> => r = <<v>>)
      BY <1>4, LongPaths
    <2> QED BY <1>5, <1>8, <2>1
  <1>11. Based(s, 0) = <<t, Bucket>>
    BY <1>1 DEF Based, Word, Words, t
  <1>12. Placed(s, 0, Full(s))
    BY <1>1, <1>4, <1>6, <1>7, <1>8, <1>9, <1>10, <1>11 DEF Placed
  <1> QED BY <1>2, <1>8, <1>12

(* After the file.                                                         *)
LEMMA FileWords ==
  ASSUME NEW s \in Setups, s.home, <<"/tmp">> \in s.dirs
  PROVE  LET r == parse_file(Full(s), s.file) IN
         Placed(s, Len(s.file), r) /\ Wording(s, Len(s.file), r.conf)
  <1>0. Len(s.file) \in Nat /\ Bucket \in Text /\ AllNamed(s) /\ \A i \in 1..Len(s.file) : s.file[i].text \in Text
    BY SetupFacts
  <1>1. PICK f : /\ f[0] = Full(s)
                 /\ \A i \in 1..Len(s.file) : f[i] = Step(f[i - 1], s.file[i])
                 /\ parse_file(Full(s), s.file) = f[Len(s.file)]
    <2> DEFINE r == Full(s)  lines == s.file
    <2>1. Len(lines) \in Nat
      BY <1>0
    <2> HIDE DEF r, lines
    <2>2. \E f : /\ f[0] = r
                 /\ \A i \in 1..Len(lines) : f[i] = Step(f[i - 1], lines[i])
                 /\ parse_file(r, lines) = f[Len(lines)]
      BY <2>1, FileRead
    <2> QED BY <2>2 DEF r, lines
  <1> DEFINE S == {n \in Nat : n <= Len(s.file) => Placed(s, n, f[n]) /\ Wording(s, n, f[n].conf)}
  <1>2. 0 \in S
    BY <1>1, FileStart
  <1>3. ASSUME NEW n \in Nat, n \in S PROVE n + 1 \in S
    <2> SUFFICES ASSUME n + 1 <= Len(s.file)
                 PROVE  Placed(s, n + 1, f[n + 1]) /\ Wording(s, n + 1, f[n + 1].conf)
      OBVIOUS
    <2>1. /\ Placed(s, n, f[n]) /\ Wording(s, n, f[n].conf)
          /\ n < Len(s.file) /\ n + 1 \in 1..Len(s.file) /\ n + 1 - 1 = n
      BY <1>0, <1>3
    <2>2. f[n + 1] = Step(f[n], s.file[n + 1])
      BY <1>1, <2>1
    <2>3. CASE ~f[n].ok
      <3>1. f[n + 1] = f[n]
        BY <2>2, <2>3 DEF Step
      <3> QED BY <1>0, <2>1, <2>3, <3>1, LineSkipped
    <2>4. CASE f[n].ok
      <3>1. f[n + 1] = parse_token(f[n].conf, f[n].dirs, s.file[n + 1])
        BY <2>2, <2>4 DEF Step
      <3>2. Shape(f[n].conf)
        BY <2>1 DEF Wording
      <3>3. TokenDoes(f[n].conf, f[n].dirs, s.file[n + 1], f[n + 1])
        BY <3>1, <3>2, TokenFacts
      <3>4. Placed(s, n + 1, f[n + 1])
        BY <1>0, <2>1, <2>4, <3>3, LineDirs
      <3>5. n + 1 \in Effective(s) \/ Bad(s, n + 1)
        <4>1. \A j \in 1..n : ~Bad(s, j)
          BY <2>1, <2>4 DEF Placed
        <4>2. Bad(s, n + 1) \/ \A j \in 1..n + 1 : ~Bad(s, j)
          <5>1. \A j \in 1..n + 1 : j = n + 1 \/ j \in 1..n
            OBVIOUS
          <5> QED BY <4>1, <5>1
        <4> QED BY <1>0, <2>1, <4>2, Counting
      <3>6. Wording(s, n + 1, f[n + 1].conf)
        BY <1>0, <2>1, <3>3, <3>5, LineWords
      <3> QED BY <3>4, <3>6
    <2> QED BY <2>3, <2>4
  <1>4. Nat \subseteq S
    <2> HIDE DEF S
    <2> QED BY <1>2, <1>3, Induct
  <1>5. Placed(s, Len(s.file), f[Len(s.file)]) /\ Wording(s, Len(s.file), f[Len(s.file)].conf)
    BY <1>0, <1>4
  <1> QED BY <1>1, <1>5

(* After conf_ctor has read what it reads of it.                           *)
LEMMA ReadWords ==
  ASSUME NEW s \in Setups
  PROVE  /\ Wording(s, Len(s.file), Read(s).conf)
         /\ s.home /\ <<"/tmp">> \in s.dirs => Placed(s, Len(s.file), Read(s))
  <1>0. Len(s.file) \in Nat
    BY SetupFacts
  <1>1. CASE s.home /\ <<"/tmp">> \in s.dirs
    <2>1. Full(s).ok
      BY <1>1, FileStart
    <2>2. Read(s) = parse_file(Full(s), s.file)
      BY <1>1, <2>1 DEF Read, Full
    <2> QED BY <1>1, <2>2, FileWords
  <1>2. CASE ~(s.home /\ <<"/tmp">> \in s.dirs)
    <2>1. UpTo(s, Len(s.file)) = {}
      BY <1>0, <1>2, Counting DEF UpTo
    <2>2. Read(s).conf = conf_ctor_default \/ Read(s).conf = Full(s).conf
      <3>1. CASE ~s.home
        BY <3>1 DEF Read, Result
      <3>2. CASE s.home
        <4> DEFINE t == "/tmp"
        <4>1. t \in Text
          BY DEF Text
        <4>2. <<t>> \notin s.dirs
          BY <1>2, <3>2
        <4>3. Full(s).ok <=> Makable(<<t>>, Bucket, s.dirs)
          BY FullFacts
        <4> HIDE DEF t
        <4>4. Append(<<t>>, Bucket) = <<t, Bucket>> /\ (<<t, Bucket>> \in s.dirs => <<t>> \in s.dirs)
          BY <4>1, SetupFacts, ShortPaths
        <4>5. ~Full(s).ok
          BY <4>2, <4>3, <4>4 DEF Makable
        <4>6. Read(s) = Full(s)
          BY <3>2, <4>5 DEF Read, Full
        <4> QED BY <4>6
      <3> QED BY <3>1, <3>2
    <2> QED BY <1>0, <1>2, <2>1, <2>2, NoWords
  <1> QED BY <1>1, <1>2

-----------------------------------------------------------------------------
(* The environment.                                                        *)
Set(s, k) == s.env[k] \notin {NoText, ""}

(* What it makes of the numbers, of the texts, and of the memory.          *)
EnvDoes(s, c, e) ==
    /\ \A k \in IntKey : e.int[k] = IF Set(s, k) THEN strtoul(s.env[k]) ELSE c.int[k]
    /\ \A k \in StrKey : e.str[k] = IF Set(s, k) THEN Heap(s.env[k]) ELSE c.str[k]
    /\ e.str["cache_dir"] = c.str["cache_dir"]
    /\ \/ e.str["exclusion_pattern"] = c.str["exclusion_pattern"]
       \/ e.str["exclusion_pattern"].mem # "freed"
       \/ /\ c.str["exclusion_pattern"] # Null
          /\ s.env["exclusion_pattern"] \in Malformed \cup {""}
    /\ e.misuse =>
        \/ c.misuse
        \/ \E k \in StrKey : Set(s, k) /\ BadFree(c.str[k])
        \/ BadFree(c.str["exclusion_pattern"])

(* What env_override_conf does.                                            *)
LEMMA EnvFacts ==
  ASSUME NEW s, NEW c, Shape(c)
  PROVE  /\ EnvDoes(s, c, env_override_conf(c, s.env))
         /\ DOMAIN env_override_conf(c, s.env).str = StrField
         /\ DOMAIN env_override_conf(c, s.env) = DOMAIN c
  <1> DEFINE str == [k \in StrKey |-> env_generic_set_str(c.str[k], s.env[k])]
             a == [c EXCEPT !.int = [k \in IntKey |-> env_generic_set_int(@[k], s.env[k])],
                            !.str = [k \in DOMAIN @ |-> IF k \in StrKey THEN str[k] ELSE @[k]],
                            !.misuse = @ \/ \E k \in StrKey : /\ s.env[k] \notin {NoText, ""}
                                                             /\ BadFree(c.str[k])]
             b == env_set_log_level(a, s.env)
             e == env_set_exclusion_pattern(b, s.env)
  <1>1. e = env_override_conf(c, s.env)
    BY DEF env_override_conf
  <1>2. /\ DOMAIN a = DOMAIN c
        /\ a.int = [k \in IntKey |-> env_generic_set_int(c.int[k], s.env[k])]
        /\ a.str = [k \in DOMAIN c.str |-> IF k \in StrKey THEN str[k] ELSE c.str[k]]
        /\ a.misuse <=> c.misuse \/ \E k \in StrKey : Set(s, k) /\ BadFree(c.str[k])
    BY DEF Shape, Set
  <1>3. /\ \A k \in IntKey : a.int[k] = IF Set(s, k) THEN strtoul(s.env[k]) ELSE c.int[k]
        /\ \A k \in StrKey : a.str[k] = IF Set(s, k) THEN Heap(s.env[k]) ELSE c.str[k]
        /\ a.str["cache_dir"] = c.str["cache_dir"]
        /\ a.str["exclusion_pattern"] = c.str["exclusion_pattern"]
        /\ DOMAIN a.str = StrField
    <2>1. \A k \in IntKey : a.int[k] = IF Set(s, k) THEN strtoul(s.env[k]) ELSE c.int[k]
      BY <1>2 DEF env_generic_set_int, Set
    <2>2. \A k \in StrKey : str[k] = IF Set(s, k) THEN Heap(s.env[k]) ELSE c.str[k]
      BY DEF env_generic_set_str, Set
    <2> HIDE DEF a, str
    <2>3. DOMAIN c.str = StrField
      BY DEF Shape
    <2> QED BY <1>2, <2>1, <2>2, <2>3, KeyFacts
  <1> HIDE DEF a
  <1>4. /\ DOMAIN b = DOMAIN c /\ b.int = a.int /\ b.str = a.str /\ b.misuse = a.misuse
    BY <1>2 DEF env_set_log_level, Shape
  <1> HIDE DEF b
  <1> DEFINE x == "exclusion_pattern"
  <1>5. /\ DOMAIN e = DOMAIN b /\ e.int = b.int /\ DOMAIN e.str = DOMAIN b.str
        /\ \A k \in StrField \ {x} : e.str[k] = b.str[k]
        /\ e.misuse => b.misuse \/ BadFree(b.str[x])
        /\ \/ e.str[x] = b.str[x]
           \/ e.str[x] = Heap(s.env[x])
           \/ e.str[x] = Null
           \/ b.str[x] # Null /\ s.env[x] \in Malformed \cup {""}
    <2>1. DOMAIN b = {"int", "str", "log_level", "set", "misuse"} /\ DOMAIN b.str = StrField /\ x \in StrField
      BY <1>3, <1>4, KeyFacts DEF Shape
    <2> QED BY <2>1 DEF env_set_exclusion_pattern
  <1> HIDE DEF e
  <1>6. Null.mem # "freed" /\ \A t : Heap(t).mem # "freed"
    BY DEF Null, Heap
  <1>7. \A k \in StrKey \cup {"cache_dir"} : k \in StrField \ {x}
    BY KeyFacts
  <1>8. /\ \A k \in IntKey : e.int[k] = IF Set(s, k) THEN strtoul(s.env[k]) ELSE c.int[k]
        /\ \A k \in StrKey : e.str[k] = IF Set(s, k) THEN Heap(s.env[k]) ELSE c.str[k]
        /\ e.str["cache_dir"] = c.str["cache_dir"]
    BY <1>3, <1>4, <1>5, <1>7
  <1>9. \/ e.str[x] = c.str[x]
        \/ e.str[x].mem # "freed"
        \/ c.str[x] # Null /\ s.env[x] \in Malformed \cup {""}
    BY <1>3, <1>4, <1>5, <1>6
  <1>10. e.misuse =>
            \/ c.misuse
            \/ \E k \in StrKey : Set(s, k) /\ BadFree(c.str[k])
            \/ BadFree(c.str[x])
    BY <1>2, <1>3, <1>4, <1>5
  <1>11. DOMAIN e.str = StrField /\ DOMAIN e = DOMAIN c
    BY <1>2, <1>3, <1>4, <1>5
  <1>12. EnvDoes(s, c, e)
    BY <1>8, <1>9, <1>10 DEF EnvDoes
  <1> QED BY <1>1, <1>11, <1>12

(* What conf_log does.                                                     *)
LEMMA LogFacts ==
  ASSUME NEW c, DOMAIN c = {"int", "str", "log_level", "set", "misuse"}
  PROVE  /\ conf_log(c).int = c.int /\ conf_log(c).str = c.str
         /\ conf_log(c).misuse => c.misuse \/ \E k \in DOMAIN c.str : c.str[k].mem = "freed"
  BY DEF conf_log

(* The configuration the program runs with.                                *)
LEMMA ConfFacts ==
  ASSUME NEW s \in Setups
  PROVE  /\ Wording(s, Len(s.file), Read(s).conf)
         /\ EnvDoes(s, Read(s).conf, conf_ctor(s))
         /\ conf_log(conf_ctor(s)).int = conf_ctor(s).int
         /\ conf_log(conf_ctor(s)).str = conf_ctor(s).str
         /\ conf_log(conf_ctor(s)).misuse =>
                conf_ctor(s).misuse \/ \E k \in StrField : conf_ctor(s).str[k].mem = "freed"
  <1> DEFINE c == Read(s).conf  e == conf_ctor(s)
  <1>1. Wording(s, Len(s.file), c) /\ Shape(c)
    BY ReadWords DEF Wording
  <1>2. e = env_override_conf(c, s.env)
    BY DEF conf_ctor
  <1> HIDE DEF c, e
  <1>3. EnvDoes(s, c, e) /\ DOMAIN e.str = StrField /\ DOMAIN e = DOMAIN c
    BY <1>1, <1>2, EnvFacts
  <1>4. DOMAIN e = {"int", "str", "log_level", "set", "misuse"}
    BY <1>1, <1>3 DEF Shape
  <1>5. /\ conf_log(e).int = e.int /\ conf_log(e).str = e.str
        /\ conf_log(e).misuse => e.misuse \/ \E k \in DOMAIN e.str : e.str[k].mem = "freed"
    BY <1>4, LogFacts
  <1> QED BY <1>1, <1>3, <1>5 DEF c, e

(* A number and a text is the environment's, the file's or the default.    *)
LEMMA WordsKept ==
  ASSUME NEW s \in Setups
  PROVE  LET e == conf_log(conf_ctor(s)) IN
         /\ \A k \in IntKey :
              \/ e.int[k] = Meaning(k, Source(s, k))
              \/ k = "profiling" /\ \E i \in Effective(s) : s.file[i].key = "profiling_logfile"
         /\ \A k \in StrKey :
              e.str[k].text = IF Source(s, k) = NoText THEN conf_ctor_default.str[k].text
                              ELSE Source(s, k)
  <1> DEFINE c == Read(s).conf  e == conf_log(conf_ctor(s))  n == Len(s.file)
  <1>1. n \in Nat
    BY SetupFacts
  <1>2. \A k : LastLine(s, k) = Word(s, k, n)
    BY <1>1, Counting
  <1>3. \A k : Source(s, k) = IF Set(s, k) THEN s.env[k] ELSE Word(s, k, n)
    BY <1>2 DEF Source, Set
  <1>4. /\ \A k \in IntKey : e.int[k] = IF Set(s, k) THEN strtoul(s.env[k]) ELSE c.int[k]
        /\ \A k \in StrKey : e.str[k] = IF Set(s, k) THEN Heap(s.env[k]) ELSE c.str[k]
    BY ConfFacts DEF EnvDoes
  <1>5. NumbersRead(s, n, c) /\ TextsRead(s, n, c)
    BY ConfFacts DEF Wording
  <1> HIDE DEF c, e, n
  <1>6. \A k : Set(s, k) => s.env[k] # NoText
    BY DEF Set
  <1>7. UpTo(s, n) \subseteq Effective(s)
    BY DEF UpTo
  <1>8. ASSUME NEW k \in IntKey
        PROVE  \/ e.int[k] = Meaning(k, Source(s, k))
               \/ k = "profiling" /\ \E i \in Effective(s) : s.file[i].key = "profiling_logfile"
    <2>1. CASE Set(s, k)
      BY <1>3, <1>4, <1>6, <2>1 DEF Meaning
    <2>2. CASE ~Set(s, k)
      BY <1>3, <1>4, <1>5, <1>7, <2>2 DEF NumbersRead
    <2> QED BY <2>1, <2>2
  <1>9. ASSUME NEW k \in StrKey
        PROVE  e.str[k].text = IF Source(s, k) = NoText THEN conf_ctor_default.str[k].text
                               ELSE Source(s, k)
    <2>1. \A t : Heap(t).text = t
      BY DEF Heap
    <2>2. CASE Set(s, k)
      BY <1>3, <1>4, <1>6, <2>1, <2>2
    <2>3. CASE ~Set(s, k)
      BY <1>3, <1>4, <1>5, <2>3 DEF TextsRead
    <2> QED BY <2>2, <2>3
  <1> QED BY <1>8, <1>9 DEF e

(* No memory is misused but in three cases.                                *)
LEMMA MemorySafe ==
  ASSUME NEW s \in Setups, conf_log(conf_ctor(s)).misuse
  PROVE  \/ Source(s, "profiling_logfile") # NoText
         \/ \E i \in Effective(s) : s.file[i].key = "log_level" /\ s.file[i].text = ""
         \/ /\ \E i \in Effective(s) : s.file[i].key = "exclusion_pattern"
            /\ s.env["exclusion_pattern"] \in Malformed \cup {""}
  <1> DEFINE c == Read(s).conf  e == conf_ctor(s)  n == Len(s.file)
  <1>1. n \in Nat
    BY SetupFacts
  <1>2. LastLine(s, "profiling_logfile") = Word(s, "profiling_logfile", n)
    BY <1>1, Counting
  <1>3. /\ Word(s, "profiling_logfile", n) # NoText => Source(s, "profiling_logfile") # NoText
        /\ Set(s, "profiling_logfile") => Source(s, "profiling_logfile") # NoText
    BY <1>2 DEF Source, Set
  <1>4. EnvDoes(s, c, e) /\ MemoryKept(s, n, c)
    BY ConfFacts DEF Wording
  <1>5. e.misuse \/ \E k \in StrField : e.str[k].mem = "freed"
    BY ConfFacts
  <1> HIDE DEF c, e, n
  <1>6. UpTo(s, n) \subseteq Effective(s)
    BY DEF UpTo
  <1>7. Null.mem = "null" /\ \A t : Heap(t).mem = "heap"
    BY DEF Null, Heap
  <1>8. /\ \A k \in StrKey \cup {"cache_dir"} :
            c.str[k].mem = "heap" \/ (k = "profiling_logfile" /\ c.str[k].mem = "literal")
        /\ \/ c.str["exclusion_pattern"] = Null
           \/ /\ c.str["exclusion_pattern"].mem = "heap"
              /\ \E i \in Effective(s) : s.file[i].key = "exclusion_pattern"
        /\ c.misuse =>
            \/ Word(s, "profiling_logfile", n) # NoText
            \/ \E i \in Effective(s) : s.file[i].key = "log_level" /\ s.file[i].text = ""
    BY <1>4, <1>6 DEF MemoryKept
  <1>9. ~BadFree(c.str["exclusion_pattern"])
    BY <1>7, <1>8 DEF BadFree
  <1>10. \A k \in StrKey : BadFree(c.str[k]) => k = "profiling_logfile"
    BY <1>8 DEF BadFree
  <1>11. CASE e.misuse
    BY <1>3, <1>4, <1>8, <1>9, <1>10, <1>11 DEF EnvDoes
  <1>12. CASE \E k \in StrField : e.str[k].mem = "freed"
    <2>1. PICK k \in StrField : e.str[k].mem = "freed"
      BY <1>12
    <2>2. \A j \in StrKey \cup {"cache_dir"} : e.str[j].mem # "freed"
      BY <1>4, <1>7, <1>8, KeyFacts DEF EnvDoes
    <2>3. k = "exclusion_pattern"
      BY <2>1, <2>2, KeyFacts
    <2>4. c.str[k].mem # "freed"
      BY <1>7, <1>8, <2>3
    <2>5. /\ c.str["exclusion_pattern"] # Null
          /\ s.env["exclusion_pattern"] \in Malformed \cup {""}
      BY <1>4, <2>1, <2>3, <2>4 DEF EnvDoes
    <2> QED BY <1>8, <2>5
  <1> QED BY <1>5, <1>11, <1>12

(* The cache directory is one there is, of the bucket.                     *)
LEMMA DirReady ==
  ASSUME NEW s \in Setups, s.home, <<"/tmp">> \in s.dirs,
         \A i \in {j \in 1..Len(s.file) : s.file[j].key = "cache_dir"} :
            <<s.file[i].text>> \in s.dirs \cup {<<NoText>>}
  PROVE  LET dir  == conf_log(conf_ctor(s)).str["cache_dir"].text
             base == LastLine(s, "cache_dir")
         IN dir = <<IF base = NoText THEN "/tmp" ELSE base, Bucket>> /\ dir \in Read(s).dirs
  <1> DEFINE dir == conf_log(conf_ctor(s)).str["cache_dir"].text
  <1>1. LastLine(s, "cache_dir") = Word(s, "cache_dir", Len(s.file))
    BY SetupFacts, Counting
  <1>2. AllThere(s)
    BY DEF AllThere
  <1>3. dir = Read(s).conf.str["cache_dir"].text
    BY ConfFacts DEF EnvDoes
  <1>4. Placed(s, Len(s.file), Read(s))
    BY ReadWords
  <1> HIDE DEF dir
  <1>5. dir = Based(s, Len(s.file)) /\ dir \in Read(s).dirs
    BY <1>2, <1>3, <1>4 DEF Placed
  <1> QED BY <1>1, <1>5 DEF Based, dir

-----------------------------------------------------------------------------
(* Between its reading and the mount the configuration is the one conf_ctor *)
(* makes of what the program was started with.                             *)
ConfInv ==
    /\ main = "start" => setup \in Setups
    /\ main = "configured" => setup \in Setups /\ conf = conf_log(conf_ctor(setup))

(* conf_ctor is given one of the setups, and conf_log its configuration.   *)
THEOREM Configured == MountSpec => []ConfInv
  <1>1. MountInit => ConfInv
    BY DEF MountInit, ConfInv
  <1>2. ConfInv /\ [MountNext]_mountvars => ConfInv'
    BY DEF ConfInv, MountNext, mountvars, mainvars, start, configure, dfs_init, Serve, Beside,
           session_end, cb_hash_unlink, remove_all, destroy_conf, exit
  <1> QED BY <1>1, <1>2, PTL DEF MountSpec

(* conf_ctor: every number and every string the program runs with is the one*)
(* of the environment, else of the last line of the file that counts, else *)
(* the default, for every file and every environment.                      *)
THEOREM WordsPrecede == MountSpec => []Precedence
  <1>1. ConfInv => Precedence
    BY WordsKept DEF ConfInv, Precedence, Named
  <1> QED BY <1>1, Configured, PTL

(* conf_set_full_cache_dir: the cache directory is <directory>/<bucket> of *)
(* the last directory the file gives, and it is there, for every file.     *)
THEOREM CacheDirThere == MountSpec => []CacheDirReady
  <1>1. ConfInv => CacheDirReady
    BY DirReady DEF ConfInv, CacheDirReady
  <1> QED BY <1>1, Configured, PTL

(* conf_ctor and conf_log: no string is released twice, read after its     *)
(* release, or released without being the configuration's own, but in the  *)
(* three cases ConfMemorySafe names, for every file and every environment. *)
THEOREM ConfOwned == MountSpec => []ConfMemorySafe
  <1>1. ConfInv => ConfMemorySafe
    BY MemorySafe DEF ConfInv, ConfMemorySafe, Named
  <1> QED BY <1>1, Configured, PTL
=============================================================================
