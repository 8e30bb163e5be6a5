----------------------------- MODULE Namespace -----------------------------
(***************************************************************************)
(* The handlers that change the tree of files: unlink.c, rename.c,         *)
(* rmdir.c, mkdir.c, mknod.c, symlink.c, readlink.c, opendir.c, readdir.c. *)
(* Each sends its requests through the wrappers of Retry, one attempt at a *)
(* time, so that other workers act between any two attempts.               *)
(*                                                                         *)
(* A path is the sequence of its names, the root is << >>.  "hash" and     *)
(* "local" only say which paths have a cell and a cache file: what those   *)
(* hold is FileCache's.  The paths a rename goes on with in the            *)
(* directories below it are in the buffers of tmpstr.c, a ring of          *)
(* TMPSTR_NB per thread that hands out its oldest buffer next, in use or   *)
(* not: "strings" is that ring, and a frame holds the addresses of its     *)
(* paths, not the paths.                                                   *)
(***************************************************************************)
EXTENDS Retry, Integers, Sequences, SequencesExt

CONSTANTS
    Path,       \* paths applications use, the root and every parent included
    Data,       \* contents of the files there from the start
    Tree,       \* what the store holds at the start
    Calls,      \* what applications call
    Cacheable,  \* paths of files applications also open (FileCache)
    Faults,     \* "refused": a request is not done; "lost": done, no answer
    TMPSTR_NB   \* buffers in the ring of a thread

VARIABLES
    remote,     \* the store: path -> what is there
    hash,       \* paths with a cell in the hash table
    local,      \* paths with a file in the cache directory
    cwd,        \* ctx: the current directory, one for all the workers
    opened,     \* directories applications have open (external)
    call,       \* worker -> the call it serves, NULL when idle
    pc,         \* worker -> the request whose status it waits for
    arg,        \* worker -> the paths of that request
    stack,      \* worker -> the frames of dfs_rename and rename_directory
    strings,    \* worker -> address -> the path printed there
    current,    \* worker -> the address tmpstr_new returned last
    list,       \* worker -> the names its last opendir returned
    ret,        \* worker -> what its handler returned
    dropped,    \* history: contents an application removed or overwrote
    before      \* history: worker -> the store when its rename began, NULL
                \* when there is none or one of its requests has failed

tree   == <<remote, dropped>>
cache  == <<hash, local>>
ring   == <<strings, current>>
self   == <<call, pc, arg, stack, ring, list, ret, before>>
vars   == <<retryVars, tree, cache, cwd, opened, self>>

Ops == {"unlink", "rmdir", "mkdir", "mknod", "symlink", "readlink",
        "opendir", "readdir", "rename"}

(* Where handlers wait for a request; the first are the calls of           *)
(* rename_directory in progress.                                           *)
BelowPc == {"dir_namei", "dir_mkdir", "dir_chdir", "dir_opendir", "loop",
            "entry_namei", "dir_rmdir"}
RenamePc == BelowPc \cup {"rename_namei", "fcopy", "unlink"}
Pc == {"mkdir", "mknod", "rmdir", "symlink_mknod", "symlink_setattr", "readlink",
       "opendir", "readdir_chdir", "readdir_opendir", "return"} \cup RenamePc

Under(p, q) == IsPrefix(p, q)
(* The path of what was at q after its prefix src has been renamed to dst. *)
Moved(q, src, dst) == dst \o SubSeq(q, Len(src) + 1, Len(q))

(* The names paths are made of, and that of the cache directory.           *)
Name == {"cache_dir"} \cup UNION {{p[i] : i \in DOMAIN p} : p \in Path}

(* What is below a path has a path when it is renamed; the names of cache  *)
(* files are no names in the mounted tree.                                 *)
ASSUME NamespaceAssumption ==
    /\ << >> \in Path /\ \A p \in Path : p \in Seq(Name)
    /\ NULL \notin Calls /\ NULL \notin Seq(Name) /\ NULL \notin Ops \cup Pc
    /\ \A p \in Path : ~Under(<<"cache_dir">>, p)
    /\ \A c \in Calls, p \in Path :
        c.op = "rename" /\ Under(c.path, p) => Moved(p, c.path, c.to) \in Path
    /\ \A p \in Path : p # << >> => Front(p) \in Path
    /\ Data \cap {"absent", "dir", "empty", "symlink"} = {}
    /\ Tree \in [Path -> {"absent", "dir", "empty", "symlink"} \cup Data]
    /\ Tree[<< >>] = "dir"
    /\ \A p \in Path \ {<< >>} : Tree[p] # "absent" => Tree[Front(p)] = "dir"
    /\ Calls \subseteq [op : Ops, path : Path, to : Path]
    /\ Cacheable \subseteq Path
    /\ Faults \subseteq {"refused", "lost"}
    /\ TMPSTR_NB \in Nat /\ TMPSTR_NB > 2

Kinds == {"absent", "dir", "empty", "symlink"} \cup Data

Names(r, p) == {q[Len(q)] : q \in {x \in Path : /\ Len(x) = Len(p) + 1
                                                /\ Under(p, x)
                                                /\ r[x] # "absent"}}
-----------------------------------------------------------------------------
(* The store, and libdroplet's view of it (external).                      *)
IsDir(p)     == p \in Path /\ remote[p] = "dir"
There(p)     == p \in Path /\ remote[p] # "absent"
HasParent(p) == p \in Path /\ p # << >> /\ IsDir(Front(p))
Resolve(p)   == IF p = NULL THEN cwd ELSE p
TypeOf(p)    == IF IsDir(p) THEN "DPL_FTYPE_DIR" ELSE "DPL_FTYPE_REG"

(* The status of request f on p (and q), and the store after it.           *)
StatusOf(f, p, q) ==
    CASE f = "dpl_mknod"   -> IF ~HasParent(p) THEN "DPL_ENOENT"
                              ELSE IF IsDir(p) THEN "DPL_EISDIR"
                              ELSE "DPL_SUCCESS"
      [] f = "dpl_mkdir"   -> IF ~HasParent(p) THEN "DPL_ENOENT"
                              ELSE IF There(p) /\ ~IsDir(p) THEN "DPL_EIO"
                              ELSE "DPL_SUCCESS"
      [] f = "dpl_unlink"  -> IF ~There(p) THEN "DPL_ENOENT"
                              ELSE IF IsDir(p) THEN "DPL_EISDIR"
                              ELSE "DPL_SUCCESS"
      [] f = "dpl_rmdir"   -> IF ~There(p) THEN "DPL_ENOENT"
                              ELSE IF IsDir(p) /\ Names(remote, p) = {}
                              THEN "DPL_SUCCESS" ELSE "DPL_EIO"
      [] f = "dpl_fcopy"   -> IF ~There(p) \/ ~HasParent(q) THEN "DPL_ENOENT"
                              ELSE IF IsDir(p) \/ IsDir(q) THEN "DPL_EISDIR"
                              ELSE "DPL_SUCCESS"
      [] f = "dpl_chdir"   -> IF ~There(p) THEN "DPL_ENOENT"
                              ELSE IF ~IsDir(p) THEN "DPL_EINVAL"
                              ELSE "DPL_SUCCESS"
      [] f = "dpl_opendir" -> IF IsDir(p) THEN "DPL_SUCCESS" ELSE "DPL_ENOENT"
      [] OTHER             -> IF There(p) THEN "DPL_SUCCESS" ELSE "DPL_ENOENT"

Effect(f, p, q) ==
    CASE f = "dpl_mknod"                -> [remote EXCEPT ![p] = "empty"]
      [] f = "dpl_mkdir"                -> [remote EXCEPT ![p] = "dir"]
      [] f \in {"dpl_unlink", "dpl_rmdir"} -> [remote EXCEPT ![p] = "absent"]
      [] f = "dpl_fcopy"                -> [remote EXCEPT ![q] = remote[p]]
      [] f = "dpl_setattr"              -> [remote EXCEPT ![p] = "symlink"]
      [] OTHER                          -> remote

(* Contents an application gives up: what it unlinks, and what it creates  *)
(* over or renames over.  The unlink at the end of a rename gives up       *)
(* nothing, and neither does a copy to a path the application did not ask  *)
(* for.                                                                    *)
Drops(w, f, p, q) ==
    CASE f = "dpl_unlink" /\ call[w].op = "unlink" -> {remote[p]}
      [] f = "dpl_mknod"                           -> {remote[p]}
      [] f = "dpl_fcopy" /\ Under(call[w].path, p)
           /\ q = Moved(p, call[w].path, call[w].to) -> {remote[q]}
      [] OTHER                                     -> {}

Top(w) == stack[w][Len(stack[w])]
(* The paths of the top frame, as the memory they are in has them now.     *)
Src(w) == strings[w][Top(w).src]
Dst(w) == strings[w][Top(w).dst]

(* An attempt of worker w's request: it is done and answered, or done and  *)
(* the answer is lost, or not done.  libdroplet lists a directory when it  *)
(* is opened, changes ctx when chdir has succeeded, and leaves the type    *)
(* alone when namei fails.                                                 *)
Attempt(w) ==
    /\ call[w] # NULL /\ rc[w] = NULL
    /\ LET f == fn[w]
           p == Resolve(arg[w].path)
           q == arg[w].to
           s == StatusOf(f, p, q)
           ok == s = "DPL_SUCCESS"
           done == /\ remote'  = IF ok THEN Effect(f, p, q) ELSE remote
                   /\ dropped' = IF ok THEN dropped \cup (Data \cap Drops(w, f, p, q))
                                 ELSE dropped
       IN  \/ /\ Answer(w, s)
              /\ done
              /\ cwd'   = IF ok /\ f = "dpl_chdir" THEN p ELSE cwd
              /\ list'  = IF ok /\ f = "dpl_opendir"
                          THEN [list EXCEPT ![w] = Names(remote, p)] ELSE list
              /\ stack' = IF ok /\ f = "dpl_namei"
                          THEN [stack EXCEPT ![w][Len(stack[w])].type = TypeOf(p)]
                          ELSE stack
              /\ UNCHANGED before
           \/ /\ "lost" \in Faults
              /\ Answer(w, "DPL_EIO")
              /\ done
              /\ before' = [before EXCEPT ![w] = NULL]
              /\ UNCHANGED <<cwd, list, stack>>
           \/ /\ "refused" \in Faults
              /\ Answer(w, "DPL_EIO")
              /\ before' = [before EXCEPT ![w] = NULL]
              /\ UNCHANGED <<tree, cwd, list, stack>>
    /\ UNCHANGED <<cache, opened, call, pc, arg, ring, ret>>

-----------------------------------------------------------------------------
(* Which calls the kernel and libfuse let run together (external).  The    *)
(* kernel holds the directory a call changes or lists; libfuse holds the   *)
(* path of every call, for itself alone when the call removes or moves it. *)
Paths(c)   == IF c.op = "rename" THEN {c.path, c.to} ELSE {c.path}
Held(c)    == CASE c.op = "readdir"               -> {c.path}
                [] c.op \in {"opendir", "readlink"} -> {}
                [] OTHER                          -> {Front(p) : p \in Paths(c)}
Alone(c)   == IF c.op \in {"unlink", "rmdir", "rename"} THEN Paths(c) ELSE {}
Blocks(c, d) == \/ Held(c) \cap Held(d) # {}
                \/ \E p \in Alone(c) : \E q \in Paths(d) : Under(p, q)
Busy(c)    == \E w \in Worker : call[w] # NULL /\ (Blocks(c, call[w]) \/ Blocks(call[w], c))

(* What the kernel has checked before it passes a call on.                 *)
Allowed(c) ==
    CASE c.op = "unlink"             -> There(c.path) /\ ~IsDir(c.path)
      [] c.op = "rmdir"              -> IsDir(c.path) /\ c.path # << >>
      [] c.op \in {"mkdir", "mknod", "symlink"} -> ~There(c.path) /\ HasParent(c.path)
      [] c.op = "readlink"           -> There(c.path) /\ remote[c.path] = "symlink"
      [] c.op = "opendir"            -> IsDir(c.path)
      [] c.op = "readdir"            -> c.path \in opened
      [] c.op = "rename"             -> /\ There(c.path)
                                        /\ HasParent(c.to)
                                        /\ ~Under(c.path, c.to) /\ ~Under(c.to, c.path)
                                        /\ There(c.to) => (IsDir(c.path) <=> IsDir(c.to))

(* FileCache has opened the file at p.                                     *)
Cached(p) ==
    /\ There(p) /\ ~IsDir(p)
    /\ p \notin hash \/ p \notin local
    /\ \A w \in Worker : call[w] # NULL => \A x \in Alone(call[w]) : ~Under(x, p)
    /\ hash' = hash \cup {p} /\ local' = local \cup {p}
    /\ UNCHANGED <<retryVars, tree, cwd, opened, self>>

-----------------------------------------------------------------------------
(* What handlers share.                                                    *)
Waiting(w, x) == call[w] # NULL /\ pc[w] = x /\ rc[w] # NULL
Succeeded(w)  == rc[w] = "DPL_SUCCESS"

Request(w, f, p, q, next) ==
    /\ Begin(w, f)
    /\ arg' = [arg EXCEPT ![w] = [path |-> p, to |-> q]]
    /\ pc'  = [pc EXCEPT ![w] = next]

(* FUSE's own buffers of the paths of a rename.                            *)
OLDPATH == -2
NEWPATH == -1
Address == OLDPATH .. TMPSTR_NB - 1

(* No path is in use: what the ring holds, and where it stands, will not   *)
(* matter to any later call.                                               *)
NoStrings(w) ==
    /\ strings' = [strings EXCEPT ![w] = [a \in Address |-> NULL]]
    /\ current' = [current EXCEPT ![w] = 0]

(* Mutant: the last buffer of the ring is not used.                        *)
tmpstr_new_mutated(a) == IF a + 1 >= TMPSTR_NB - 1 THEN 0 ELSE a + 1

(* The buffer handed out after buffer a.                                   *)
tmpstr_new(a) == IF a + 1 >= TMPSTR_NB THEN 0 ELSE a + 1

(* tmpstr_printf of string s.                                              *)
tmpstr_printf(w, s) ==
    LET a == tmpstr_new(current[w]) IN
    /\ strings' = [strings EXCEPT ![w][a] = s]
    /\ current' = [current EXCEPT ![w] = a]

(* The handler of w's call returns r.                                      *)
Return(w, r) ==
    /\ pc'    = [pc EXCEPT ![w] = "return"]
    /\ ret'   = [ret EXCEPT ![w] = r]
    /\ arg'   = [arg EXCEPT ![w] = NULL]
    /\ stack' = [stack EXCEPT ![w] = << >>]
    /\ End(w)
    /\ NoStrings(w)
    /\ UNCHANGED <<tree, cwd, opened, call, list, before>>

(* libfuse passes the result on and gives up its locks; it moves the paths *)
(* of the open directories when a rename has succeeded, and forgets those  *)
(* removed (external).                                                     *)
Reply(w) ==
    LET c  == call[w]
        ok == ret[w] = 0
    IN
    /\ call[w] # NULL /\ pc[w] = "return"
    /\ call'   = [call EXCEPT ![w] = NULL]
    /\ pc'     = [pc EXCEPT ![w] = NULL]
    /\ ret'    = [ret EXCEPT ![w] = 0]
    /\ list'   = [list EXCEPT ![w] = {}]
    /\ before' = [before EXCEPT ![w] = NULL]
    /\ opened' = CASE c.op = "opendir" /\ ok -> opened \cup {c.path}
                   [] c.op = "readdir"       -> opened \ {c.path}
                   [] c.op = "rmdir" /\ ok   -> opened \ {c.path}
                   [] c.op = "rename" /\ ok  ->
                        {IF Under(c.path, p) THEN Moved(p, c.path, c.to) ELSE p :
                            p \in {x \in opened : ~Under(c.to, x)}}
                   [] OTHER                  -> opened
    /\ UNCHANGED <<retryVars, tree, cache, cwd, arg, stack, ring>>

Enter(w, op) ==
    /\ call[w] = NULL
    /\ \E c \in Calls :
        /\ c.op = op /\ Allowed(c) /\ ~Busy(c)
        /\ call' = [call EXCEPT ![w] = c]

(* A handler that begins with request f on its path.                       *)
EnterWith(w, op, f, next) ==
    /\ Enter(w, op)
    /\ Request(w, f, call'[w].path, NULL, next)
    /\ UNCHANGED <<tree, cache, cwd, opened, stack, ring, list, ret, before>>

(* The values a DPL status has as the result of a handler: DPL_EIO stands  *)
(* for DPL_FAILURE, which is -1, and for statuses that are not.            *)
RcAsRet(s) == IF s = "DPL_EIO" THEN {-1, 1} ELSE {1}

-----------------------------------------------------------------------------
(* Handlers of one or two requests.                                        *)
dfs_mkdir(w) == EnterWith(w, "mkdir", "dpl_mkdir", "mkdir")

(* Mutant: every status is taken for success.                              *)
MkdirRet_mutated(s) == 0

MkdirRet(s) == IF s \in {"DPL_SUCCESS", "DPL_ENOENT"} THEN 0 ELSE -1

mkdir_done(w) ==
    /\ Waiting(w, "mkdir")
    /\ Return(w, MkdirRet(rc[w]))
    /\ UNCHANGED cache

dfs_mknod(w) == EnterWith(w, "mknod", "dpl_mknod", "mknod")

mknod_done(w) ==
    /\ Waiting(w, "mknod")
    /\ Return(w, IF Succeeded(w) THEN 0 ELSE -1)
    /\ UNCHANGED cache

dfs_rmdir(w) == EnterWith(w, "rmdir", "dpl_rmdir", "rmdir")

(* The cell of the directory stays: only its list of entries is touched.   *)
rmdir_done(w) ==
    /\ Waiting(w, "rmdir")
    /\ Return(w, IF Succeeded(w) THEN 0 ELSE -1)
    /\ UNCHANGED cache

dfs_symlink(w) == EnterWith(w, "symlink", "dpl_mknod", "symlink_mknod")

symlink_setattr(w) ==
    /\ Waiting(w, "symlink_mknod")
    /\ IF Succeeded(w)
       THEN /\ Request(w, "dpl_setattr", arg[w].path, NULL, "symlink_setattr")
            /\ UNCHANGED <<tree, cwd, opened, call, stack, ring, list, ret, before>>
       ELSE Return(w, 1)
    /\ UNCHANGED cache

symlink_done(w) ==
    /\ Waiting(w, "symlink_setattr")
    /\ Return(w, IF Succeeded(w) THEN 0 ELSE -1)
    /\ UNCHANGED cache

dfs_readlink(w) == EnterWith(w, "readlink", "dpl_getattr", "readlink")

(* The errors it notes are not returned.                                   *)
readlink_done(w) ==
    /\ Waiting(w, "readlink")
    /\ Return(w, 0)
    /\ UNCHANGED cache

dfs_opendir(w) == EnterWith(w, "opendir", "dpl_opendir", "opendir")

opendir_done(w) ==
    /\ Waiting(w, "opendir")
    /\ IF Succeeded(w)
       THEN /\ hash' = hash \cup {call[w].path}
            /\ Return(w, 0)
       ELSE /\ \E r \in RcAsRet(rc[w]) : Return(w, r)
            /\ UNCHANGED hash
    /\ UNCHANGED local

dfs_readdir(w) ==
    /\ EnterWith(w, "readdir", "dpl_chdir", "readdir_chdir")
    /\ call'[w].path \in hash

(* An open directory has no cell under the path a rename gave it.          *)
readdir_no_cell(w) ==
    /\ Enter(w, "readdir")
    /\ call'[w].path \notin hash
    /\ pc'  = [pc EXCEPT ![w] = "return"]
    /\ ret' = [ret EXCEPT ![w] = -1]
    /\ UNCHANGED <<retryVars, tree, cache, cwd, opened, arg, stack, ring, list, before>>

(* Mutant: the result of chdir is not looked at.                           *)
readdir_opendir_mutated(w) ==
    /\ Waiting(w, "readdir_chdir")
    /\ Request(w, "dpl_opendir", NULL, NULL, "readdir_opendir")
    /\ UNCHANGED <<tree, cache, cwd, opened, call, stack, ring, list, ret, before>>

readdir_opendir(w) ==
    /\ Waiting(w, "readdir_chdir")
    /\ IF Succeeded(w)
       THEN /\ Request(w, "dpl_opendir", NULL, NULL, "readdir_opendir")
            /\ UNCHANGED <<tree, cwd, opened, call, stack, ring, list, ret, before>>
       ELSE \E r \in RcAsRet(rc[w]) : Return(w, r)
    /\ UNCHANGED cache

(* The application gets the names of "list".                               *)
readdir_done(w) ==
    /\ Waiting(w, "readdir_opendir")
    /\ \E r \in IF Succeeded(w) THEN {0} ELSE RcAsRet(rc[w]) : Return(w, r)
    /\ UNCHANGED cache

-----------------------------------------------------------------------------
(* rename.c.  The bottom frame is dfs_rename's, the others are those of    *)
(* the calls of rename_directory in progress; "type" is the variable each  *)
(* of them passes to namei and does not initialise.                        *)
Frame(src, dst) ==
    [src |-> src, dst |-> dst, type |-> "uninitialised", todo |-> {},
     src_entry |-> src, dst_entry |-> dst, ret |-> 0]

(* The values of the type when it is tested.                               *)
Tested(t) == IF t = "uninitialised"
             THEN {"DPL_FTYPE_DIR", "DPL_FTYPE_REG", "other"} ELSE {t}

(* rename_file or rename_directory returns r to the caller whose frames    *)
(* are s.  dfs_rename reports -1 only.                                     *)
Leave(w, s, r) ==
    IF Len(s) = 1
    THEN Return(w, IF r = -1 THEN -1 ELSE 0)
    ELSE /\ stack' = [stack EXCEPT ![w] = [s EXCEPT ![Len(s)].ret = r]]
         /\ pc'    = [pc EXCEPT ![w] = "loop"]
         /\ UNCHANGED <<retryVars, tree, cwd, opened, call, arg, ring, list, ret, before>>

rename_file(w, src, dst) ==
    /\ Request(w, "dpl_fcopy", strings[w][src], strings[w][dst], "fcopy")
    /\ UNCHANGED stack

rename_directory(w, src, dst) ==
    /\ Request(w, "dpl_namei", strings[w][dst], NULL, "dir_namei")
    /\ stack' = [stack EXCEPT ![w] = Append(stack[w], Frame(src, dst))]

dfs_rename(w) ==
    /\ Enter(w, "rename")
    /\ LET c == call'[w] IN
        /\ Request(w, "dpl_namei", c.path, NULL, "rename_namei")
        /\ strings' = [strings EXCEPT ![w][OLDPATH] = c.path, ![w][NEWPATH] = c.to]
        /\ stack'   = [stack EXCEPT ![w] = <<Frame(OLDPATH, NEWPATH)>>]
        /\ before'  = [before EXCEPT ![w] = remote]
    /\ UNCHANGED <<tree, cache, cwd, opened, current, list, ret>>

(* The test of namei's status is never true: the type decides.             *)
rename_dispatch(w) ==
    /\ Waiting(w, "rename_namei")
    /\ \E type \in Tested(Top(w).type) :
           IF type = "other" THEN Return(w, -1)
           ELSE /\ IF type = "DPL_FTYPE_DIR" THEN rename_directory(w, OLDPATH, NEWPATH)
                                             ELSE rename_file(w, OLDPATH, NEWPATH)
                /\ UNCHANGED <<tree, cwd, opened, call, ring, list, ret, before>>
    /\ UNCHANGED cache

(* Mutant: the source is removed although the copy has failed.             *)
rename_unlink_mutated(w) ==
    /\ Waiting(w, "fcopy")
    /\ Request(w, "dpl_unlink", arg[w].path, NULL, "unlink")
    /\ UNCHANGED <<tree, cache, cwd, opened, call, stack, ring, list, ret, before>>

rename_unlink(w) ==
    /\ Waiting(w, "fcopy")
    /\ IF Succeeded(w)
       THEN /\ Request(w, "dpl_unlink", arg[w].path, NULL, "unlink")
            /\ UNCHANGED <<tree, cwd, opened, call, stack, ring, list, ret, before>>
       ELSE Leave(w, stack[w], -1)
    /\ UNCHANGED cache

dfs_unlink(w) == EnterWith(w, "unlink", "dpl_unlink", "unlink")

(* Mutant: the cache file is left behind.                                  *)
Forget_mutated(p) == hash' = hash \ {p} /\ UNCHANGED local

Forget(p) == hash' = hash \ {p} /\ local' = local \ {p}

(* dfs_unlink after its request, called by the kernel or, for an entry of  *)
(* a directory, by rename_file: the path of the cache file then takes a    *)
(* buffer of the ring.  dfs_rename has no other result for a file than 0.  *)
unlink_done(w) ==
    LET r == IF Succeeded(w) THEN 0 ELSE 1 IN
    /\ Waiting(w, "unlink")
    /\ IF Succeeded(w) THEN Forget(arg[w].path) ELSE UNCHANGED cache
    /\ CASE stack[w] = << >>   -> Return(w, r)
         [] Len(stack[w]) = 1  -> Return(w, 0)
         [] OTHER              ->
              /\ IF Succeeded(w) THEN tmpstr_printf(w, <<"cache_dir">> \o arg[w].path)
                                 ELSE UNCHANGED ring
              /\ stack' = [stack EXCEPT ![w][Len(stack[w])].ret = r]
              /\ pc'    = [pc EXCEPT ![w] = "loop"]
              /\ UNCHANGED <<retryVars, tree, cwd, opened, call, arg, list, ret, before>>

(* rename_directory: the destination is made when it is missing.           *)
dir_mkdir(w) ==
    /\ Waiting(w, "dir_namei")
    /\ CASE Succeeded(w)          ->
               /\ Request(w, "dpl_chdir", Src(w), NULL, "dir_chdir")
               /\ UNCHANGED <<tree, cwd, opened, call, stack, ring, list, ret, before>>
         [] rc[w] = "DPL_ENOENT"  ->
               /\ Request(w, "dpl_mkdir", Dst(w), NULL, "dir_mkdir")
               /\ UNCHANGED <<tree, cwd, opened, call, stack, ring, list, ret, before>>
         [] OTHER                 -> Leave(w, Front(stack[w]), -1)
    /\ UNCHANGED cache

dir_chdir(w) ==
    /\ Waiting(w, "dir_mkdir")
    /\ IF MkdirRet(rc[w]) = 0
       THEN /\ Request(w, "dpl_chdir", Src(w), NULL, "dir_chdir")
            /\ UNCHANGED <<tree, cwd, opened, call, stack, ring, list, ret, before>>
       ELSE Leave(w, Front(stack[w]), -1)
    /\ UNCHANGED cache

dir_opendir(w) ==
    /\ Waiting(w, "dir_chdir")
    /\ IF Succeeded(w)
       THEN /\ Request(w, "dpl_opendir", NULL, NULL, "dir_opendir")
            /\ UNCHANGED <<tree, cwd, opened, call, stack, ring, list, ret, before>>
       ELSE \E r \in RcAsRet(rc[w]) : Leave(w, Front(stack[w]), r)
    /\ UNCHANGED cache

dir_list(w) ==
    /\ Waiting(w, "dir_opendir")
    /\ IF Succeeded(w)
       THEN /\ stack' = [stack EXCEPT ![w][Len(stack[w])].todo = list[w]]
            /\ list'  = [list EXCEPT ![w] = {}]
            /\ pc'    = [pc EXCEPT ![w] = "loop"]
            /\ UNCHANGED <<retryVars, tree, cwd, opened, call, arg, ring, ret, before>>
       ELSE \E r \in RcAsRet(rc[w]) : Leave(w, Front(stack[w]), r)
    /\ UNCHANGED cache

(* The next entry of the listing: its two paths are printed from those of  *)
(* the directory, whose buffers the first one may be printed over.         *)
NextEntry(w, name) ==
    LET a == tmpstr_new(current[w])
        b == tmpstr_new(a)
        s == [strings[w] EXCEPT ![a] = Append(Src(w), name)]
    IN
    /\ strings' = [strings EXCEPT ![w] = [s EXCEPT ![b] = Append(s[Top(w).dst], name)]]
    /\ current' = [current EXCEPT ![w] = b]
    /\ stack'   = [stack EXCEPT ![w][Len(stack[w])] =
                      [Top(w) EXCEPT !.todo = @ \ {name}, !.src_entry = a, !.dst_entry = b]]

entry_namei(w) ==
    /\ Waiting(w, "loop")
    /\ \E name \in Top(w).todo :
        /\ NextEntry(w, name)
        /\ Request(w, "dpl_namei", Append(Src(w), name), NULL, "entry_namei")
    /\ UNCHANGED <<tree, cache, cwd, opened, call, list, ret, before>>

entry_rename(w) ==
    /\ Waiting(w, "entry_namei")
    /\ LET src == Top(w).src_entry
           dst == Top(w).dst_entry
       IN  IF rc[w] \in {"DPL_SUCCESS", "DPL_ENOENT"}
           THEN \E type \in Tested(Top(w).type) :
                /\ IF type = "DPL_FTYPE_DIR" THEN rename_directory(w, src, dst)
                                             ELSE rename_file(w, src, dst)
                /\ UNCHANGED <<tree, cwd, opened, call, ring, list, ret, before>>
           ELSE Leave(w, Front(stack[w]), -1)
    /\ UNCHANGED cache

(* All the entries done: the result of the last one decides.               *)
dir_rmdir(w) ==
    /\ Waiting(w, "loop") /\ Top(w).todo = {}
    /\ IF Top(w).ret = -1
       THEN Leave(w, Front(stack[w]), -1)
       ELSE /\ Request(w, "dpl_rmdir", Src(w), NULL, "dir_rmdir")
            /\ UNCHANGED <<tree, cwd, opened, call, stack, ring, list, ret, before>>
    /\ UNCHANGED cache

dir_done(w) ==
    /\ Waiting(w, "dir_rmdir")
    /\ Leave(w, Front(stack[w]), 0)
    /\ UNCHANGED cache

-----------------------------------------------------------------------------
Init ==
    /\ RetryInit
    /\ remote  = Tree
    /\ dropped = {}
    /\ hash    = {} /\ local = {}
    /\ cwd     = << >>
    /\ opened  = {}
    /\ call    = [w \in Worker |-> NULL]
    /\ pc      = [w \in Worker |-> NULL]
    /\ arg     = [w \in Worker |-> NULL]
    /\ stack   = [w \in Worker |-> << >>]
    /\ strings = [w \in Worker |-> [a \in Address |-> NULL]]
    /\ current = [w \in Worker |-> 0]
    /\ list    = [w \in Worker |-> {}]
    /\ ret     = [w \in Worker |-> 0]
    /\ before  = [w \in Worker |-> NULL]

Call(w) ==
    \/ dfs_mkdir(w) \/ dfs_mknod(w) \/ dfs_rmdir(w) \/ dfs_symlink(w)
    \/ dfs_readlink(w) \/ dfs_opendir(w) \/ dfs_readdir(w)
    \/ readdir_no_cell(w) \/ dfs_unlink(w) \/ dfs_rename(w)

Handler(w) ==
    \/ mkdir_done(w) \/ mknod_done(w) \/ rmdir_done(w)
    \/ symlink_setattr(w) \/ symlink_done(w) \/ readlink_done(w)
    \/ opendir_done(w) \/ readdir_opendir(w) \/ readdir_done(w)
    \/ unlink_done(w) \/ rename_dispatch(w) \/ rename_unlink(w)
    \/ dir_mkdir(w) \/ dir_chdir(w) \/ dir_opendir(w) \/ dir_list(w)
    \/ entry_namei(w) \/ entry_rename(w) \/ dir_rmdir(w) \/ dir_done(w)
    \/ Reply(w)

Next ==
    \/ \E w \in Worker : Call(w) \/ Attempt(w) \/ Handler(w)
    \/ \E p \in Cacheable : Cached(p)

Spec == Init /\ [][Next]_vars

(* Workers run, and libdroplet gives every attempt an answer.              *)
Fairness == \A w \in Worker : WF_vars(Attempt(w) \/ Handler(w))

FairSpec == Spec /\ Fairness

-----------------------------------------------------------------------------
FrameOK(f) ==
    /\ f.type \in {"uninitialised", "DPL_FTYPE_DIR", "DPL_FTYPE_REG"}
    /\ f.ret \in -1..1 /\ {f.src, f.dst} \subseteq Address

(* The type of the state; a rename has frames, and its own two paths are   *)
(* never in the ring.                                                      *)
TypeOK ==
    /\ RetryTypeOK
    /\ remote \in [Path -> Kinds] /\ dropped \subseteq Data
    /\ hash \subseteq Path /\ local \subseteq Path /\ opened \subseteq Path
    /\ cwd \in Path
    /\ call \in [Worker -> Calls \cup {NULL}]
    /\ ret \in [Worker -> -1..1]
    /\ \A w \in Worker :
        /\ \A i \in DOMAIN stack[w] : FrameOK(stack[w][i])
        /\ current[w] \in 0..TMPSTR_NB - 1
        /\ stack[w] # << >> => /\ strings[w][OLDPATH] = call[w].path
                               /\ strings[w][NEWPATH] = call[w].to
        /\ (stack[w] # << >>) <=> /\ call[w] # NULL /\ call[w].op = "rename"
                               /\ pc[w] # "return"

(* Nothing is lost: what the store held at the start is still somewhere in *)
(* it, unless an application removed it or put something in its place.     *)
(* Renames copy before they remove, whatever fails and whoever interferes, *)
(* as long as the ring of tmpstr.c reaches (RingSuffices).                 *)
NothingLost ==
    \A d \in Data : (\E p \in Path : Tree[p] = d)
        => d \in dropped \/ \E p \in Path : remote[p] = d

(* Worker w's handler has returned 0 for a call of op.                     *)
Succeeds(w, op) ==
    call[w] # NULL /\ call[w].op = op /\ pc[w] = "return" /\ ret[w] = 0

(* mkdir, mknod and symlink that report success have made the object the   *)
(* application asked for, retries after lost answers included.             *)
CreatedIsThere ==
    \A w \in Worker :
        /\ Succeeds(w, "mkdir")   => remote[call[w].path] = "dir"
        /\ Succeeds(w, "mknod")   => remote[call[w].path] = "empty"
        /\ Succeeds(w, "symlink") => remote[call[w].path] = "symlink"

(* The buffers a rename takes for what is below directory p: two for each  *)
(* entry and one more for each file.  The last use of a directory's own    *)
(* two buffers comes after all of those, so it may be a tree of NB - 2.    *)
Below(r, p)    == {q \in Path : q # p /\ Under(p, q) /\ r[q] # "absent"}
Buffers(r, p)  == 2 * Cardinality(Below(r, p))
                  + Cardinality({q \in Below(r, p) : r[q] # "dir"})
Fits(r, p)     == \A q \in Below(r, p) : Buffers(r, q) <= TMPSTR_NB - 2

(* A rename that reports success, none of its requests refused, onto a     *)
(* path that holds no directory with entries, has moved everything that    *)
(* was under the old path, at every level, and nothing is left there,      *)
(* provided no directory below it takes more than TMPSTR_NB - 2 buffers:   *)
(* the path a directory was entered with is then still there when it is    *)
(* removed.                                                                *)
RenameComplete ==
    \A w \in Worker : Succeeds(w, "rename") =>
        LET c   == call[w]
            was == before[w]
        IN  was # NULL /\ Names(was, c.to) = {} /\ Fits(was, c.path) =>
            \A p \in Path : Under(c.path, p) =>
                /\ remote[p] = "absent"
                /\ was[p] # "absent" => remote[Moved(p, c.path, c.to)] = was[p]

(* A listing that readdir reports as good has the names of the directory   *)
(* the application asked for, although it is read through the current      *)
(* directory of ctx, which renames change too.                             *)
ListsItsDirectory ==
    \A w \in Worker : Succeeds(w, "readdir") =>
        list[w] = Names(remote, call[w].path)

(* No file stays in the cache directory for a path that unlink or rename   *)
(* has taken out of the store, once they have returned.                    *)
NoOrphanCache ==
    \A p \in local : \/ remote[p] # "absent"
                     \/ \E w \in Worker : /\ call[w] # NULL
                                          /\ \E x \in Alone(call[w]) : Under(x, p)

(* Every call returns, however many requests fail.                         *)
CallsReturn == \A w \in Worker : call[w] # NULL ~> call[w] = NULL
=============================================================================
