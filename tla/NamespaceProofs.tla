-------------------------- MODULE NamespaceProofs --------------------------
(***************************************************************************)
(* Proofs about Namespace, for any tree, any calls, any number of workers, *)
(* any size of the ring and any set of faults, unless a theorem says       *)
(* otherwise.                                                              *)
(***************************************************************************)
EXTENDS Namespace, SequenceTheorems, TLAPS

-----------------------------------------------------------------------------
(* The inductive invariants.                                               *)

(* Where the handler of an operation may wait, and for which request.      *)
Stage ==
    {<<"mkdir", "mkdir">>, <<"mknod", "mknod">>, <<"rmdir", "rmdir">>,
     <<"symlink", "symlink_mknod">>, <<"symlink", "symlink_setattr">>,
     <<"readlink", "readlink">>, <<"opendir", "opendir">>,
     <<"readdir", "readdir_chdir">>, <<"readdir", "readdir_opendir">>,
     <<"unlink", "unlink">>} \cup ({"rename"} \X RenamePc)
RequestAt ==
    {<<"mkdir", "dpl_mkdir">>, <<"mknod", "dpl_mknod">>, <<"rmdir", "dpl_rmdir">>,
     <<"symlink_mknod", "dpl_mknod">>, <<"symlink_setattr", "dpl_setattr">>,
     <<"readlink", "dpl_getattr">>, <<"opendir", "dpl_opendir">>,
     <<"readdir_chdir", "dpl_chdir">>, <<"readdir_opendir", "dpl_opendir">>,
     <<"unlink", "dpl_unlink">>, <<"rename_namei", "dpl_namei">>,
     <<"dir_namei", "dpl_namei">>, <<"dir_mkdir", "dpl_mkdir">>,
     <<"dir_chdir", "dpl_chdir">>, <<"dir_opendir", "dpl_opendir">>,
     <<"entry_namei", "dpl_namei">>, <<"fcopy", "dpl_fcopy">>,
     <<"dir_rmdir", "dpl_rmdir">>}

(* Types, without what TypeOK says of one worker.                          *)
String  == Seq(Name) \cup {NULL}
Frames  == [src : Address, dst : Address, src_entry : Address, dst_entry : Address,
            type : {"uninitialised", "DPL_FTYPE_DIR", "DPL_FTYPE_REG"},
            todo : SUBSET Name, ret : -1..1]
ShapeInv ==
    /\ RetryTypeOK
    /\ remote \in [Path -> Kinds] /\ dropped \subseteq Data
    /\ hash \subseteq Path /\ local \subseteq Path /\ opened \subseteq Path
    /\ cwd \in Path
    /\ call \in [Worker -> Calls \cup {NULL}]
    /\ pc \in [Worker -> Pc \cup {NULL}]
    /\ arg \in [Worker -> [path : String, to : String] \cup {NULL}]
    /\ stack \in [Worker -> Seq(Frames)]
    /\ strings \in [Worker -> [Address -> String]]
    /\ current \in [Worker -> 0..TMPSTR_NB - 1]
    /\ list \in [Worker -> SUBSET Name]
    /\ ret \in [Worker -> -1..1]

(* A worker follows its handler; a rename has the frames its pc needs.     *)
Serving(w) == call[w] # NULL /\ pc[w] # "return"
ServeInv(w) ==
    /\ call[w] = NULL <=> pc[w] = NULL
    /\ ~Serving(w) => fn[w] = NULL /\ rc[w] = NULL
    /\ Serving(w) =>
        /\ <<call[w].op, pc[w]>> \in Stage /\ arg[w] \in [path : String, to : String]
        /\ IF pc[w] = "loop" THEN rc[w] # NULL ELSE <<pc[w], fn[w]>> \in RequestAt
        /\ call[w].op # "rename" =>
            arg[w].path = IF pc[w] = "readdir_opendir" THEN NULL ELSE call[w].path
    /\ (stack[w] # << >>) <=> Serving(w) /\ call[w].op = "rename"
    /\ Serving(w) /\ pc[w] \in BelowPc => Len(stack[w]) > 1

(* Every path a rename has printed, whichever buffers it had to print it   *)
(* from, is below one of its two own, or is the name of a cache file.      *)
Touches(c, p) == IF c.op = "rename" THEN Under(c.path, p) \/ Under(c.to, p)
                                    ELSE p = c.path
Reaches(c, p) == Touches(c, p) \/ Under(<<"cache_dir">>, p)
Printed(w, f) ==
    \A a \in {f.src, f.dst, f.src_entry, f.dst_entry} : strings[w][a] # NULL
ReachInv(w) ==
    /\ stack[w] = << >> => \A a \in Address : strings[w][a] = NULL
    /\ stack[w] # << >> =>
        /\ strings[w][OLDPATH] = call[w].path /\ strings[w][NEWPATH] = call[w].to
        /\ \A a \in Address : strings[w][a] # NULL => Reaches(call[w], strings[w][a])
        /\ \A i \in DOMAIN stack[w] : Printed(w, stack[w][i])
        /\ pc[w] \notin {"loop", "dir_opendir"} =>
            arg[w].path # NULL /\ Reaches(call[w], arg[w].path)
        /\ pc[w] = "fcopy" => arg[w].to # NULL /\ Reaches(call[w], arg[w].to)

(* What libfuse and the kernel do not let run together does not.           *)
LocksInv ==
    \A v, w \in Worker :
        v # w /\ call[v] # NULL /\ call[w] # NULL => ~Blocks(call[v], call[w])

(* A path that is being made has its directory, and nobody else makes or   *)
(* removes it.                                                             *)
MakingInv(w) ==
    LET p == call[w].path IN
    call[w] # NULL /\ call[w].op \in {"mkdir", "mknod", "symlink"} =>
        /\ HasParent(p)
        /\ remote[p] \in CASE call[w].op = "mkdir" -> {"absent", "dir"}
                           [] call[w].op = "mknod" -> {"absent", "empty"}
                           [] OTHER                -> {"absent", "empty", "symlink"}
        /\ pc[w] = "mkdir" => rc[w] # "DPL_ENOENT"
        /\ pc[w] \in {"mkdir", "mknod", "symlink_mknod"} /\ rc[w] = "DPL_SUCCESS"
            => remote[p] # "absent"
        /\ pc[w] = "symlink_setattr" =>
            /\ remote[p] # "absent"
            /\ rc[w] = "DPL_SUCCESS" => remote[p] = "symlink"
        /\ pc[w] = "return" /\ ret[w] = 0 =>
            remote[p] = CASE call[w].op = "mkdir" -> "dir"
                          [] call[w].op = "mknod" -> "empty"
                          [] OTHER                -> "symlink"

(* Where a rename prints, tmpstr.c hands out no buffer that a frame uses.  *)
InUse(w) == {a \in Address : \E i \in DOMAIN stack[w] :
                                a \in {stack[w][i].src, stack[w][i].dst}}
RingSuffices ==
    \A w \in Worker : LET a == tmpstr_new(current[w]) IN
        /\ pc[w] = "loop" /\ Top(w).todo # {} => InUse(w) \cap {a, tmpstr_new(a)} = {}
        /\ pc[w] = "unlink" /\ Succeeded(w) => a \notin InUse(w)

(* As long as it does not, each frame has the two paths of one object, and *)
(* what is removed has been copied to the second of them.                  *)
Pair(w, p, q) == Under(call[w].path, p) /\ q = Moved(p, call[w].path, call[w].to)
CopiedInv(w) ==
    call[w] # NULL /\ call[w].op = "rename" =>
        /\ ~Under(call[w].path, call[w].to) /\ ~Under(call[w].to, call[w].path)
        /\ \A i \in DOMAIN stack[w] :
            Pair(w, strings[w][stack[w][i].src], strings[w][stack[w][i].dst])
        /\ pc[w] = "entry_namei" =>
            Pair(w, strings[w][Top(w).src_entry], strings[w][Top(w).dst_entry])
        /\ pc[w] = "fcopy" => Pair(w, arg[w].path, arg[w].to)
        /\ pc[w] = "unlink" \/ (pc[w] = "fcopy" /\ Succeeded(w)) =>
            LET p == arg[w].path
                q == Moved(p, call[w].path, call[w].to)
            IN  Under(call[w].path, p) /\ (There(p) /\ remote[p] \in Data =>
                                             There(q) /\ remote[q] = remote[p])

(* A cache file whose object is gone is about to be removed.               *)
OrphanInv ==
    \A p \in local : remote[p] \in {"absent", "dir"} =>
        \E w \in Worker : pc[w] = "unlink" /\ Succeeded(w) /\ arg[w].path = p

(* With one worker the current directory is the one listed.                *)
ListingInv(w) ==
    LET p == call[w].path IN
    /\ pc[w] = "readdir_chdir" /\ Succeeded(w) => cwd = p
    /\ pc[w] = "readdir_opendir" =>
        cwd = p /\ (Succeeded(w) => list[w] = Names(remote, p))
    /\ Succeeds(w, "readdir") => list[w] = Names(remote, p)

-----------------------------------------------------------------------------
USE NamespaceAssumption, RetryAssumption

-----------------------------------------------------------------------------
(* What a step of a worker leaves alone.                                   *)

(* The variables of worker v.                                              *)
Unmoved(v) ==
    /\ fn'[v] = fn[v] /\ tries'[v] = tries[v] /\ rc'[v] = rc[v]
    /\ call'[v] = call[v] /\ pc'[v] = pc[v] /\ arg'[v] = arg[v]
    /\ stack'[v] = stack[v] /\ strings'[v] = strings[v] /\ current'[v] = current[v]
    /\ list'[v] = list[v] /\ ret'[v] = ret[v]

(* A step of one worker leaves the variables of the others alone.          *)
LEMMA CallOthers ==
    ASSUME ShapeInv, NEW w \in Worker, Call(w), NEW v \in Worker, v # w
    PROVE  Unmoved(v)
<1> USE DEF ShapeInv, RetryTypeOK, Unmoved, EnterWith, Enter, Request, Begin,
            self, cache, tree, ring, retryVars
<1>1. CASE dfs_mkdir(w)       BY <1>1 DEF dfs_mkdir
<1>2. CASE dfs_mknod(w)       BY <1>2 DEF dfs_mknod
<1>3. CASE dfs_rmdir(w)       BY <1>3 DEF dfs_rmdir
<1>4. CASE dfs_symlink(w)     BY <1>4 DEF dfs_symlink
<1>5. CASE dfs_readlink(w)    BY <1>5 DEF dfs_readlink
<1>6. CASE dfs_opendir(w)     BY <1>6 DEF dfs_opendir
<1>7. CASE dfs_readdir(w)     BY <1>7 DEF dfs_readdir
<1>8. CASE readdir_no_cell(w) BY <1>8 DEF readdir_no_cell
<1>9. CASE dfs_unlink(w)      BY <1>9 DEF dfs_unlink
<1>10. CASE dfs_rename(w)     BY <1>10 DEF dfs_rename
<1> QED  BY <1>1, <1>2, <1>3, <1>4, <1>5, <1>6, <1>7, <1>8, <1>9, <1>10 DEF Call

(* An attempt of a request changes nothing that belongs to another worker. *)
LEMMA AttemptOthers ==
    ASSUME ShapeInv, NEW w \in Worker, Attempt(w), NEW v \in Worker, v # w
    PROVE  Unmoved(v)
BY DEF ShapeInv, RetryTypeOK, Unmoved, Attempt, Answer, ERR_TIMEOUT, ring

(* A step of a handler changes nothing that belongs to another worker: stack, strings
   and place are per thread. *)
LEMMA HandlerOthers ==
    ASSUME ShapeInv, NEW w \in Worker, Handler(w), NEW v \in Worker, v # w
    PROVE  Unmoved(v)
<1> USE DEF ShapeInv, RetryTypeOK, Unmoved, Request, Begin, Return, End, NoStrings,
            Leave, cache, tree, ring, retryVars
<1>1. CASE mkdir_done(w)      BY <1>1 DEF mkdir_done
<1>2. CASE mknod_done(w)      BY <1>2 DEF mknod_done
<1>3. CASE rmdir_done(w)      BY <1>3 DEF rmdir_done
<1>4. CASE symlink_setattr(w) BY <1>4 DEF symlink_setattr
<1>5. CASE symlink_done(w)    BY <1>5 DEF symlink_done
<1>6. CASE readlink_done(w)   BY <1>6 DEF readlink_done
<1>7. CASE opendir_done(w)    BY <1>7 DEF opendir_done
<1>8. CASE readdir_opendir(w) BY <1>8 DEF readdir_opendir
<1>9. CASE readdir_done(w)    BY <1>9 DEF readdir_done
<1>10. CASE unlink_done(w)    BY <1>10 DEF unlink_done, tmpstr_printf, Forget
<1>11. CASE rename_dispatch(w)
    BY <1>11 DEF rename_dispatch, rename_file, rename_directory
<1>12. CASE rename_unlink(w)  BY <1>12 DEF rename_unlink
<1>13. CASE dir_mkdir(w)      BY <1>13 DEF dir_mkdir
<1>14. CASE dir_chdir(w)      BY <1>14 DEF dir_chdir
<1>15. CASE dir_opendir(w)    BY <1>15 DEF dir_opendir
<1>16. CASE dir_list(w)       BY <1>16 DEF dir_list
<1>17. CASE entry_namei(w)    BY <1>17 DEF entry_namei, NextEntry
<1>18. CASE entry_rename(w)
    BY <1>18 DEF entry_rename, rename_file, rename_directory
<1>19. CASE dir_rmdir(w)      BY <1>19 DEF dir_rmdir
<1>20. CASE dir_done(w)       BY <1>20 DEF dir_done
<1>21. CASE Reply(w)          BY <1>21 DEF Reply
<1> QED  BY <1>1, <1>2, <1>3, <1>4, <1>5, <1>6, <1>7, <1>8, <1>9, <1>10, <1>11,
            <1>12, <1>13, <1>14, <1>15, <1>16, <1>17, <1>18, <1>19, <1>20, <1>21
         DEF Handler

-----------------------------------------------------------------------------
(* Types.                                                                  *)

(* A rename has a top frame; it may be replaced, and others may be above   *)
(* or below it.                                                            *)
LEMMA FrameFacts ==
    ASSUME NEW s \in Seq(Frames), s # << >>
    PROVE  /\ Len(s) \in Nat /\ Len(s) > 0
           /\ s[Len(s)] \in Frames
           /\ Front(s) \in Seq(Frames) /\ Len(Front(s)) = Len(s) - 1
           /\ \A e \in Frames : /\ [s EXCEPT ![Len(s)] = e] \in Seq(Frames)
                                /\ Len([s EXCEPT ![Len(s)] = e]) = Len(s)
                                /\ Append(s, e) \in Seq(Frames)
                                /\ Len(Append(s, e)) = Len(s) + 1
<1>1. Len(s) \in Nat /\ Len(s) > 0 /\ s[Len(s)] \in Frames
    OBVIOUS
<1>2. Front(s) \in Seq(Frames) /\ Len(Front(s)) = Len(s) - 1
    BY <1>1 DEF Front
<1>3. ASSUME NEW e \in Frames
      PROVE  /\ [s EXCEPT ![Len(s)] = e] \in Seq(Frames)
             /\ Len([s EXCEPT ![Len(s)] = e]) = Len(s)
             /\ Append(s, e) \in Seq(Frames)
             /\ Len(Append(s, e)) = Len(s) + 1
    BY <1>1
<1> QED  BY <1>1, <1>2, <1>3

(* The buffers of the ring are addresses, FUSE's own two are not in it.    *)
LEMMA RingFacts ==
    ASSUME NEW a \in 0..TMPSTR_NB - 1
    PROVE  /\ tmpstr_new(a) \in 0..TMPSTR_NB - 1
           /\ tmpstr_new(a) # a
           /\ a \in Address /\ a \notin {OLDPATH, NEWPATH}
BY DEF tmpstr_new, Address, OLDPATH, NEWPATH

(* The two strings of fuse are addresses of their own. *)
LEMMA OwnAddresses == OLDPATH \in Address /\ NEWPATH \in Address /\ OLDPATH # NEWPATH
BY DEF Address, OLDPATH, NEWPATH

(* A new frame.                                                            *)
LEMMA NewFrame ==
    ASSUME NEW a \in Address, NEW b \in Address PROVE Frame(a, b) \in Frames
BY DEF Frame, Frames

(* Entering a handler.                                                     *)
LEMMA EnterTypes ==
    ASSUME ShapeInv, NEW w \in Worker, NEW op, NEW f \in Fn, NEW next \in Pc,
           EnterWith(w, op, f, next)
    PROVE  ShapeInv'
<1>1. PICK c \in Calls : call' = [call EXCEPT ![w] = c]
    BY DEF EnterWith, Enter
<1>2. call'[w] = c /\ call'[w].path \in String
    BY <1>1 DEF ShapeInv, String
<1>3. RetryTypeOK'
    <2>1. /\ fn'    = [fn EXCEPT ![w] = f]
          /\ tries' = [tries EXCEPT ![w] = 0]
          /\ rc'    = [rc EXCEPT ![w] = NULL]
        BY DEF EnterWith, Request, Begin
    <2> QED  BY <2>1 DEF ShapeInv, RetryTypeOK
<1>4. arg' \in [Worker -> [path : String, to : String] \cup {NULL}]
    BY <1>2 DEF EnterWith, Request, ShapeInv, String
<1> QED
    BY <1>1, <1>3, <1>4 DEF ShapeInv, EnterWith, Request, tree, cache, ring

(* A new request of fuse keeps the ranges. *)
LEMMA CallTypes ==
    ASSUME ShapeInv, NEW w \in Worker, Call(w)
    PROVE  ShapeInv'
<1> USE DEF Fn, Pc, RenamePc, BelowPc
<1>1. CASE dfs_mkdir(w)       BY <1>1, EnterTypes DEF dfs_mkdir
<1>2. CASE dfs_mknod(w)       BY <1>2, EnterTypes DEF dfs_mknod
<1>3. CASE dfs_rmdir(w)       BY <1>3, EnterTypes DEF dfs_rmdir
<1>4. CASE dfs_symlink(w)     BY <1>4, EnterTypes DEF dfs_symlink
<1>5. CASE dfs_readlink(w)    BY <1>5, EnterTypes DEF dfs_readlink
<1>6. CASE dfs_opendir(w)     BY <1>6, EnterTypes DEF dfs_opendir
<1>7. CASE dfs_readdir(w)     BY <1>7, EnterTypes DEF dfs_readdir
<1>8. CASE readdir_no_cell(w)
    BY <1>8 DEF readdir_no_cell, Enter, ShapeInv, RetryTypeOK, retryVars, tree, cache, ring
<1>9. CASE dfs_unlink(w)      BY <1>9, EnterTypes DEF dfs_unlink
<1>10. CASE dfs_rename(w)
    <2>1. PICK c \in Calls : call' = [call EXCEPT ![w] = c]
        BY <1>10 DEF dfs_rename, Enter
    <2>2. call'[w] = c /\ c.path \in String /\ c.to \in String
        BY <2>1 DEF ShapeInv, String
    <2>3. RetryTypeOK'
        BY <1>10 DEF dfs_rename, Request, Begin, ShapeInv, RetryTypeOK
    <2>4. arg' \in [Worker -> [path : String, to : String] \cup {NULL}]
        BY <1>10, <2>2 DEF dfs_rename, Request, ShapeInv, String
    <2>5. strings' \in [Worker -> [Address -> String]]
        BY <1>10, <2>2, OwnAddresses DEF dfs_rename, ShapeInv
    <2>6. stack' \in [Worker -> Seq(Frames)]
        BY <1>10, OwnAddresses, NewFrame DEF dfs_rename, ShapeInv
    <2> QED
        BY <1>10, <2>1, <2>3, <2>4, <2>5, <2>6
        DEF dfs_rename, Request, ShapeInv, tree, cache
<1> QED  BY <1>1, <1>2, <1>3, <1>4, <1>5, <1>6, <1>7, <1>8, <1>9, <1>10 DEF Call

(* A request keeps the store a tree of the kinds of objects there are.     *)
LEMMA EffectTypes ==
    ASSUME remote \in [Path -> Kinds], NEW f, NEW p, NEW q,
           StatusOf(f, p, q) = "DPL_SUCCESS"
    PROVE  Effect(f, p, q) \in [Path -> Kinds]
<1> USE DEF Kinds
<1>1. CASE f = "dpl_fcopy"
    BY <1>1 DEF Effect, StatusOf, There, HasParent
<1>2. CASE f # "dpl_fcopy"
    BY <1>2 DEF Effect
<1> QED  BY <1>1, <1>2

(* The store answers with a status. *)
LEMMA StatusTypes ==
    ASSUME NEW f, NEW p, NEW q PROVE StatusOf(f, p, q) \in Status
BY DEF StatusOf, Status

(* A listing of the store is a set of names. *)
LEMMA NamesTypes ==
    ASSUME NEW r, NEW p \in Path PROVE Names(r, p) \in SUBSET Name
<1>1. ASSUME NEW q \in Path, Len(q) = Len(p) + 1 PROVE q[Len(q)] \in Name
    <2>1. q \in Seq(Name) /\ p \in Seq(Name)
        OBVIOUS
    <2> QED  BY <2>1, <1>1
<1> QED  BY <1>1 DEF Names

(* An attempt, whatever fails, keeps the ranges. *)
LEMMA AttemptTypes ==
    ASSUME ShapeInv, NEW w \in Worker, ServeInv(w), Attempt(w)
    PROVE  ShapeInv'
<1> DEFINE f == fn[w]
           p == Resolve(arg[w].path)
           q == arg[w].to
           s == StatusOf(f, p, q)
<1>1. RetryTypeOK'
    <2>1. s \in Status /\ "DPL_EIO" \in Status
        BY StatusTypes DEF Status
    <2>2. PICK x \in Status : Answer(w, x)
        BY <2>1 DEF Attempt
    <2>3. CASE ERR_TIMEOUT(w) /\ tries[w] < MaxRetry
        BY <2>3 DEF ERR_TIMEOUT, ShapeInv, RetryTypeOK
    <2>4. CASE rc' = [rc EXCEPT ![w] = x] /\ UNCHANGED <<fn, tries>>
        BY <2>4 DEF ShapeInv, RetryTypeOK
    <2> QED  BY <2>2, <2>3, <2>4 DEF Answer, ERR_TIMEOUT
<1>2. remote' \in [Path -> Kinds] /\ dropped' \subseteq Data
    <2>1. remote \in [Path -> Kinds] /\ dropped \subseteq Data
        BY DEF ShapeInv
    <2>2. s = "DPL_SUCCESS" => Effect(f, p, q) \in [Path -> Kinds]
        BY <2>1, EffectTypes
    <2>3. \/ remote' = remote /\ dropped' = dropped
          \/ /\ remote' = IF s = "DPL_SUCCESS" THEN Effect(f, p, q) ELSE remote
             /\ dropped' \subseteq dropped \cup Data
        BY DEF Attempt, tree
    <2> QED  BY <2>1, <2>2, <2>3
<1>3. cwd' \in Path
    <2>1. s = "DPL_SUCCESS" /\ f = "dpl_chdir" => p \in Path
        BY DEF StatusOf, There
    <2> QED  BY <2>1 DEF Attempt, ShapeInv
<1>4. list' \in [Worker -> SUBSET Name]
    <2>1. s = "DPL_SUCCESS" /\ f = "dpl_opendir" => p \in Path
        BY DEF StatusOf, IsDir
    <2>2. s = "DPL_SUCCESS" /\ f = "dpl_opendir" => Names(remote, p) \in SUBSET Name
        BY <2>1, NamesTypes
    <2>3. list \in [Worker -> SUBSET Name]
        BY DEF ShapeInv
    <2> QED  BY <2>2, <2>3 DEF Attempt
<1>5. stack' \in [Worker -> Seq(Frames)]
    <2>1. stack[w] \in Seq(Frames) /\ stack \in [Worker -> Seq(Frames)]
        BY DEF ShapeInv
    <2>2. CASE stack' = stack
        BY <2>1, <2>2
    <2>3. CASE /\ stack' = [stack EXCEPT ![w][Len(stack[w])].type = TypeOf(p)]
               /\ f = "dpl_namei"
        <3>1. Serving(w) /\ call[w].op = "rename"
            <4>1. Serving(w) /\ pc[w] # "loop"
                BY <2>3 DEF ServeInv, Attempt, Fn
            <4>2. pc[w] \in {"rename_namei", "dir_namei", "entry_namei"}
                BY <2>3, <4>1 DEF ServeInv, RequestAt
            <4> QED  BY <4>1, <4>2 DEF ServeInv, Stage
        <3>2. stack[w] # << >>
            BY <3>1 DEF ServeInv
        <3> DEFINE e == [Top(w) EXCEPT !.type = TypeOf(p)]
        <3>3. Top(w) \in Frames
            BY <2>1, <3>2, FrameFacts DEF Top
        <3>4. e \in Frames
            BY <3>3 DEF Frames, TypeOf
        <3>5. stack' = [stack EXCEPT ![w] = [stack[w] EXCEPT ![Len(stack[w])] = e]]
            BY <2>3 DEF Top
        <3> QED  BY <2>1, <3>2, <3>4, <3>5, FrameFacts
    <2> QED  BY <2>2, <2>3 DEF Attempt
<1> QED
    BY <1>1, <1>2, <1>3, <1>4, <1>5 DEF Attempt, ShapeInv, cache, ring

(* A handler returns, a call of rename_directory or rename_file does, and  *)
(* a handler makes its next request.                                       *)
LEMMA ReturnTypes ==
    ASSUME ShapeInv, NEW w \in Worker, NEW r \in -1..1, Return(w, r),
           hash' \subseteq Path, local' \subseteq Path
    PROVE  ShapeInv'
<1>1. RetryTypeOK'
    BY DEF Return, End, ShapeInv, RetryTypeOK
<1>2. strings' \in [Worker -> [Address -> String]]
    BY DEF Return, NoStrings, ShapeInv, String
<1>3. stack' \in [Worker -> Seq(Frames)]
    BY DEF Return, ShapeInv
<1>4. current' \in [Worker -> 0..TMPSTR_NB - 1]
    BY DEF Return, NoStrings, ShapeInv
<1>5. pc' \in [Worker -> Pc \cup {NULL}]
    BY DEF Return, ShapeInv, Pc
<1> QED  BY <1>1, <1>2, <1>3, <1>4, <1>5 DEF Return, ShapeInv, tree

(* A return from rename_directory or from a rename, to the frame below or to fuse,
   keeps the ranges. *)
LEMMA LeaveTypes ==
    ASSUME ShapeInv, NEW w \in Worker, NEW s \in Seq(Frames), s # << >>,
           NEW r \in -1..1, Leave(w, s, r), UNCHANGED cache
    PROVE  ShapeInv'
<1>1. CASE Len(s) = 1
    <2>1. hash' \subseteq Path /\ local' \subseteq Path
        BY DEF cache, ShapeInv
    <2>2. CASE r = -1
        <3>1. Return(w, -1)
            BY <1>1, <2>2 DEF Leave
        <3> QED  BY <2>1, <3>1, ReturnTypes
    <2>3. CASE r # -1
        <3>1. Return(w, 0)
            BY <1>1, <2>3 DEF Leave
        <3> QED  BY <2>1, <3>1, ReturnTypes
    <2> QED  BY <2>2, <2>3
<1>2. CASE Len(s) # 1
    <2> DEFINE e == [s[Len(s)] EXCEPT !.ret = r]
    <2>0. s[Len(s)] \in Frames
        BY FrameFacts
    <2>1. e \in Frames
        BY <2>0 DEF Frames
    <2>2. [s EXCEPT ![Len(s)].ret = r] \in Seq(Frames)
        <3>1. [s EXCEPT ![Len(s)] = e] \in Seq(Frames)
            BY <2>1, FrameFacts
        <3>2. [s EXCEPT ![Len(s)].ret = r] = [s EXCEPT ![Len(s)] = e]
            OBVIOUS
        <3> QED  BY <3>1, <3>2
    <2>3. stack' \in [Worker -> Seq(Frames)]
        <3> DEFINE t == [s EXCEPT ![Len(s)].ret = r]
        <3>1. stack' = [stack EXCEPT ![w] = t]
            BY <1>2 DEF Leave
        <3>2. t \in Seq(Frames)
            BY <2>2
        <3>3. stack \in [Worker -> Seq(Frames)]
            BY DEF ShapeInv
        <3> HIDE DEF t
        <3> QED  BY <3>1, <3>2, <3>3
    <2>4. pc' \in [Worker -> Pc \cup {NULL}]
        BY <1>2 DEF Leave, ShapeInv, Pc, RenamePc, BelowPc
    <2> QED
        BY <1>2, <2>3, <2>4
        DEF Leave, ShapeInv, RetryTypeOK, retryVars, tree, cache, ring
<1> QED  BY <1>1, <1>2

(* Beginning a request with a string just printed keeps the ranges. *)
LEMMA RequestTypes ==
    ASSUME ShapeInv, NEW w \in Worker, NEW f \in Fn, NEW p \in String, NEW q \in String,
           NEW next \in Pc, Request(w, f, p, q, next),
           UNCHANGED <<tree, cache, cwd, opened, call, list, ret>>,
           stack' \in [Worker -> Seq(Frames)],
           strings' \in [Worker -> [Address -> String]],
           current' \in [Worker -> 0..TMPSTR_NB - 1]
    PROVE  ShapeInv'
<1>1. RetryTypeOK'
    BY DEF Request, Begin, ShapeInv, RetryTypeOK
<1>2. arg' \in [Worker -> [path : String, to : String] \cup {NULL}]
    BY DEF Request, ShapeInv
<1> QED  BY <1>1, <1>2 DEF Request, ShapeInv, tree, cache

(* Beginning a request and nothing else keeps the ranges. *)
LEMMA RequestOnly ==
    ASSUME ShapeInv, NEW w \in Worker, NEW f \in Fn, NEW p \in String, NEW q \in String,
           NEW next \in Pc, Request(w, f, p, q, next),
           UNCHANGED <<tree, cache, cwd, opened, call, stack, ring, list, ret>>
    PROVE  ShapeInv'
BY RequestTypes DEF ShapeInv, ring

(* A worker whose rename is in a directory has that call's frame on top,   *)
(* the caller's below, and its paths are there.                            *)
LEMMA BelowFacts ==
    ASSUME ShapeInv, NEW w \in Worker, ServeInv(w), ReachInv(w),
           call[w] # NULL, pc[w] \in BelowPc
    PROVE  /\ Serving(w) /\ call[w].op = "rename" /\ stack[w] \in Seq(Frames)
           /\ Len(stack[w]) > 1 /\ stack[w] # << >> /\ Top(w) \in Frames
           /\ Front(stack[w]) \in Seq(Frames) /\ Front(stack[w]) # << >>
           /\ Len(Front(stack[w])) = Len(stack[w]) - 1
           /\ Src(w) \in Seq(Name) /\ Dst(w) \in Seq(Name)
           /\ strings[w][Top(w).src_entry] \in Seq(Name)
           /\ strings[w][Top(w).dst_entry] \in Seq(Name)
<1>1. Serving(w) /\ Len(stack[w]) > 1
    BY DEF ServeInv, Serving, BelowPc
<1>2. stack[w] \in Seq(Frames) /\ stack[w] # << >>
    BY <1>1 DEF ShapeInv
<1>3. call[w].op = "rename"
    BY <1>2 DEF ServeInv
<1>4. /\ Top(w) \in Frames
      /\ Front(stack[w]) \in Seq(Frames) /\ Len(Front(stack[w])) = Len(stack[w]) - 1
    BY <1>2, FrameFacts DEF Top
<1>5. Front(stack[w]) # << >>
    BY <1>1, <1>2, <1>4
<1>6. Len(stack[w]) \in DOMAIN stack[w]
    BY <1>1, <1>2
<1>7. \A a \in {Top(w).src, Top(w).dst, Top(w).src_entry, Top(w).dst_entry} :
          strings[w][a] # NULL
    BY <1>2, <1>6 DEF ReachInv, Printed, Top
<1>8. {Top(w).src, Top(w).dst, Top(w).src_entry, Top(w).dst_entry} \subseteq Address
    BY <1>4 DEF Frames
<1>9. \A a \in Address : strings[w][a] \in Seq(Name) \cup {NULL}
    BY DEF ShapeInv, String
<1> QED  BY <1>1, <1>2, <1>3, <1>4, <1>5, <1>7, <1>8, <1>9 DEF Src, Dst

(* A handler asks for one object only.                                     *)
LEMMA OneRequest ==
    ASSUME ShapeInv, NEW w \in Worker, NEW f \in Fn, NEW p \in String, NEW next \in Pc,
           Request(w, f, p, NULL, next),
           UNCHANGED <<tree, cache, cwd, opened, call, stack, ring, list, ret>>
    PROVE  ShapeInv'
BY RequestOnly DEF String

(* Simple handlers.                                                        *)
LEMMA SimpleTypes ==
    ASSUME ShapeInv, NEW w \in Worker, ServeInv(w),
           \/ mkdir_done(w) \/ mknod_done(w) \/ rmdir_done(w)
           \/ symlink_setattr(w) \/ symlink_done(w) \/ readlink_done(w)
           \/ opendir_done(w) \/ readdir_opendir(w) \/ readdir_done(w)
    PROVE  ShapeInv'
<1> DEFINE kept == hash' \subseteq Path /\ local' \subseteq Path
<1>0. UNCHANGED cache => kept
    BY DEF ShapeInv, cache
<1>1. CASE mkdir_done(w)
    <2>1. MkdirRet(rc[w]) \in -1..1
        BY DEF MkdirRet
    <2> QED  BY <1>0, <1>1, <2>1, ReturnTypes DEF mkdir_done
<1>2. CASE mknod_done(w)
    <2>1. (IF Succeeded(w) THEN 0 ELSE -1) \in -1..1
        OBVIOUS
    <2> QED  BY <1>0, <1>2, <2>1, ReturnTypes DEF mknod_done
<1>3. CASE rmdir_done(w)
    <2>1. (IF Succeeded(w) THEN 0 ELSE -1) \in -1..1
        OBVIOUS
    <2> QED  BY <1>0, <1>3, <2>1, ReturnTypes DEF rmdir_done
<1>4. CASE symlink_setattr(w)
    <2>1. CASE Succeeded(w)
        <3>1. Serving(w) /\ call[w].op # "rename" /\ pc[w] = "symlink_mknod"
            BY <1>4 DEF symlink_setattr, Waiting, Serving, ServeInv, Stage, RenamePc, BelowPc
        <3>2. arg[w].path = call[w].path /\ call[w] \in Calls
            BY <3>1 DEF ServeInv, ShapeInv, Serving
        <3>3. arg[w].path \in String /\ NULL \in String
            BY <3>2 DEF String
        <3> QED
            BY <1>4, <2>1, <3>3, OneRequest DEF symlink_setattr, Fn, Pc, cache
    <2>2. CASE ~Succeeded(w)
        BY <1>0, <1>4, <2>2, ReturnTypes DEF symlink_setattr
    <2> QED  BY <2>1, <2>2
<1>5. CASE symlink_done(w)
    <2>1. (IF Succeeded(w) THEN 0 ELSE -1) \in -1..1
        OBVIOUS
    <2> QED  BY <1>0, <1>5, <2>1, ReturnTypes DEF symlink_done
<1>6. CASE readlink_done(w)
    BY <1>0, <1>6, ReturnTypes DEF readlink_done
<1>7. CASE opendir_done(w)
    <2>1. call[w].path \in Path
        BY <1>7 DEF opendir_done, Waiting, ShapeInv
    <2>2. kept
        BY <1>7, <2>1 DEF opendir_done, ShapeInv
    <2>3. \E r \in -1..1 : Return(w, r)
        BY <1>7 DEF opendir_done, RcAsRet
    <2> QED  BY <2>2, <2>3, ReturnTypes
<1>8. CASE readdir_opendir(w)
    <2>1. CASE Succeeded(w)
        BY <1>8, <2>1, OneRequest DEF readdir_opendir, Fn, Pc, cache, String
    <2>2. CASE ~Succeeded(w)
        <3>1. \E r \in -1..1 : Return(w, r)
            BY <1>8, <2>2 DEF readdir_opendir, RcAsRet
        <3> QED  BY <1>0, <1>8, <3>1, ReturnTypes DEF readdir_opendir
    <2> QED  BY <2>1, <2>2
<1>9. CASE readdir_done(w)
    <2>1. \E r \in -1..1 : Return(w, r)
        BY <1>9 DEF readdir_done, RcAsRet
    <2> QED  BY <1>0, <1>9, <2>1, ReturnTypes DEF readdir_done
<1> QED  BY <1>1, <1>2, <1>3, <1>4, <1>5, <1>6, <1>7, <1>8, <1>9

(* rename_file and rename_directory, entered with addresses a and b.       *)
LEMMA DispatchTypes ==
    ASSUME ShapeInv, NEW w \in Worker, NEW a \in Address, NEW b \in Address,
           rename_directory(w, a, b) \/ rename_file(w, a, b),
           UNCHANGED <<tree, cache, cwd, opened, call, ring, list, ret>>
    PROVE  ShapeInv'
<1>1. strings[w][a] \in String /\ strings[w][b] \in String /\ NULL \in String
    BY DEF ShapeInv, String
<1>2. CASE rename_file(w, a, b)
    BY <1>1, <1>2, RequestOnly DEF rename_file, Fn, Pc, RenamePc
<1>3. CASE rename_directory(w, a, b)
    <2>1. Append(stack[w], Frame(a, b)) \in Seq(Frames)
        BY NewFrame DEF ShapeInv
    <2>2. stack' \in [Worker -> Seq(Frames)]
        BY <1>3, <2>1 DEF rename_directory, ShapeInv
    <2>3. /\ strings' \in [Worker -> [Address -> String]]
          /\ current' \in [Worker -> 0..TMPSTR_NB - 1]
        BY DEF ring, ShapeInv
    <2>4. Request(w, "dpl_namei", strings[w][b], NULL, "dir_namei")
        BY <1>3 DEF rename_directory
    <2>5. "dpl_namei" \in Fn /\ "dir_namei" \in Pc
        BY DEF Fn, Pc, RenamePc, BelowPc
    <2> QED
        BY <1>1, <2>2, <2>3, <2>4, <2>5, RequestTypes
<1> QED  BY <1>2, <1>3

(* tmpstr_printf writes a path to a buffer of the ring and moves on to the next one. *)
LEMMA PrintTypes ==
    ASSUME ShapeInv, NEW w \in Worker, NEW s \in String, tmpstr_printf(w, s)
    PROVE  /\ strings' \in [Worker -> [Address -> String]]
           /\ current' \in [Worker -> 0..TMPSTR_NB - 1]
<1>1. current[w] \in 0..TMPSTR_NB - 1
    BY DEF ShapeInv
<1>2. tmpstr_new(current[w]) \in 0..TMPSTR_NB - 1 /\ tmpstr_new(current[w]) \in Address
    BY <1>1, RingFacts
<1> QED  BY <1>2 DEF tmpstr_printf, ShapeInv

(* The frame a rename of one object or of a directory is in.               *)
LEMMA RenameFacts ==
    ASSUME ShapeInv, NEW w \in Worker, ServeInv(w), ReachInv(w),
           call[w] # NULL, pc[w] \in RenamePc \ {"unlink"}
    PROVE  /\ Serving(w) /\ call[w].op = "rename"
           /\ stack[w] \in Seq(Frames) /\ stack[w] # << >> /\ Top(w) \in Frames
<1>1. Serving(w)
    BY DEF Serving, RenamePc, BelowPc
<1>2. call[w].op = "rename"
    BY <1>1 DEF ServeInv, Stage, RenamePc, BelowPc
<1>3. stack[w] \in Seq(Frames) /\ stack[w] # << >>
    BY <1>1, <1>2 DEF ShapeInv, ServeInv
<1> QED  BY <1>1, <1>2, <1>3, FrameFacts DEF Top

(* The cache directory is a path of one name. *)
LEMMA CacheDirName == <<"cache_dir">> \in Seq(Name)
<1>1. "cache_dir" \in Name
    BY DEF Name
<1>2. \A S : \A e \in S : <<e>> \in Seq(S)
    OBVIOUS
<1> QED  BY <1>1, <1>2

(* The end of dfs_unlink keeps the ranges. *)
LEMMA UnlinkTypes ==
    ASSUME ShapeInv, NEW w \in Worker, ServeInv(w), ReachInv(w), unlink_done(w)
    PROVE  ShapeInv'
<1>1. hash' \subseteq Path /\ local' \subseteq Path
    BY DEF unlink_done, Forget, cache, ShapeInv
<1>2. CASE stack[w] = << >> \/ Len(stack[w]) = 1
    <2>1. \E r \in -1..1 : Return(w, r)
        BY <1>2 DEF unlink_done
    <2> QED  BY <1>1, <2>1, ReturnTypes
<1>3. CASE ~(stack[w] = << >> \/ Len(stack[w]) = 1)
    <2> DEFINE r == IF Succeeded(w) THEN 0 ELSE 1
               e == [Top(w) EXCEPT !.ret = r]
               t == [stack[w] EXCEPT ![Len(stack[w])].ret = r]
    <2>1. Top(w) \in Frames /\ stack[w] \in Seq(Frames)
        BY <1>3, FrameFacts DEF Top, ShapeInv
    <2>2. e \in Frames
        <3>1. r \in -1..1
            OBVIOUS
        <3> HIDE DEF r
        <3> QED  BY <2>1, <3>1 DEF Frames
    <2>3. t = [stack[w] EXCEPT ![Len(stack[w])] = e]
        BY DEF Top
    <2>4. t \in Seq(Frames)
        BY <1>3, <2>1, <2>2, <2>3, FrameFacts
    <2>5. /\ stack' = [stack EXCEPT ![w] = t]
          /\ pc' = [pc EXCEPT ![w] = "loop"]
          /\ UNCHANGED <<retryVars, tree, cwd, opened, call, arg, list, ret>>
        BY <1>3 DEF unlink_done
    <2>6. stack' \in [Worker -> Seq(Frames)]
        <3> HIDE DEF t
        <3>1. stack \in [Worker -> Seq(Frames)]
            BY DEF ShapeInv
        <3> QED  BY <2>4, <2>5, <3>1
    <2>7. pc' \in [Worker -> Pc \cup {NULL}]
        BY <2>5 DEF ShapeInv, Pc, RenamePc, BelowPc
    <2>8. /\ strings' \in [Worker -> [Address -> String]]
          /\ current' \in [Worker -> 0..TMPSTR_NB - 1]
        <3>1. CASE UNCHANGED ring
            BY <3>1 DEF ring, ShapeInv
        <3>2. CASE tmpstr_printf(w, <<"cache_dir">> \o arg[w].path)
            <4>1. pc[w] = "unlink" /\ stack[w] # << >>
                BY <1>3 DEF unlink_done, Waiting
            <4>2. arg[w].path # NULL /\ Serving(w)
                BY <4>1 DEF ReachInv, ServeInv
            <4>3. arg[w] \in [path : String, to : String]
                BY <4>2 DEF ServeInv
            <4>4. arg[w].path \in Seq(Name)
                BY <4>2, <4>3 DEF String
            <4>5. <<"cache_dir">> \o arg[w].path \in Seq(Name)
                BY <4>4, CacheDirName
            <4>6. <<"cache_dir">> \o arg[w].path \in String
                BY <4>5 DEF String
            <4> QED  BY <3>2, <4>6, PrintTypes
        <3> QED  BY <1>3, <3>1, <3>2 DEF unlink_done
    <2> QED
        BY <1>1, <2>5, <2>6, <2>7, <2>8 DEF ShapeInv, RetryTypeOK, retryVars, tree
<1> QED  BY <1>2, <1>3

(* The steps of rename_file keep the ranges. *)
LEMMA FileTypes ==
    ASSUME ShapeInv, NEW w \in Worker, ServeInv(w), ReachInv(w),
           rename_dispatch(w) \/ rename_unlink(w)
    PROVE  ShapeInv'
<1>1. CASE rename_dispatch(w)
    <2>1. PICK type : \/ Return(w, -1)
                      \/ /\ \/ rename_directory(w, OLDPATH, NEWPATH)
                            \/ rename_file(w, OLDPATH, NEWPATH)
                         /\ UNCHANGED <<tree, cwd, opened, call, ring, list, ret, before>>
        BY <1>1 DEF rename_dispatch
    <2>2. UNCHANGED cache
        BY <1>1 DEF rename_dispatch
    <2>3. hash' \subseteq Path /\ local' \subseteq Path
        BY <2>2 DEF ShapeInv, cache
    <2>4. -1 \in -1..1
        OBVIOUS
    <2> QED  BY <2>1, <2>2, <2>3, <2>4, ReturnTypes, DispatchTypes, OwnAddresses
<1>2. CASE rename_unlink(w)
    <2>0. pc[w] = "fcopy" /\ call[w] # NULL /\ UNCHANGED cache
        BY <1>2 DEF rename_unlink, Waiting
    <2>1. Serving(w) /\ stack[w] \in Seq(Frames) /\ stack[w] # << >>
        BY <2>0, RenameFacts DEF RenamePc
    <2>2. CASE Succeeded(w)
        <3>1. arg[w].path \in String
            BY <2>1 DEF ServeInv
        <3> QED
            BY <1>2, <2>0, <2>2, <3>1, OneRequest DEF rename_unlink, Fn, Pc, RenamePc
    <2>3. CASE ~Succeeded(w)
        <3>1. Leave(w, stack[w], -1)
            BY <1>2, <2>3 DEF rename_unlink
        <3> QED  BY <2>0, <2>1, <3>1, LeaveTypes
    <2> QED  BY <2>2, <2>3
<1> QED  BY <1>1, <1>2

(* A call of rename_directory goes on, returns, or calls itself.           *)
LEMMA DirectoryTypes ==
    ASSUME ShapeInv, NEW w \in Worker, ServeInv(w), ReachInv(w),
           \/ dir_mkdir(w) \/ dir_chdir(w) \/ dir_opendir(w) \/ dir_rmdir(w) \/ dir_done(w)
    PROVE  ShapeInv'
<1>0. UNCHANGED cache /\ call[w] # NULL /\ pc[w] \in BelowPc
    BY DEF dir_mkdir, dir_chdir, dir_opendir, dir_rmdir, dir_done, Waiting, BelowPc
<1>1. /\ Front(stack[w]) \in Seq(Frames) /\ Front(stack[w]) # << >>
      /\ Src(w) \in String /\ Dst(w) \in String /\ NULL \in String
    BY <1>0, BelowFacts DEF String
<1>2. \/ \E r \in -1..1 : Leave(w, Front(stack[w]), r)
      \/ /\ \E f \in Fn, p \in {Src(w), Dst(w), NULL}, next \in Pc : Request(w, f, p, NULL, next)
         /\ UNCHANGED <<tree, cwd, opened, call, stack, ring, list, ret>>
    <2> USE DEF Fn, Pc, RenamePc, BelowPc
    <2>1. CASE dir_mkdir(w)    BY <2>1 DEF dir_mkdir
    <2>2. CASE dir_chdir(w)    BY <2>2 DEF dir_chdir
    <2>3. CASE dir_opendir(w)  BY <2>3 DEF dir_opendir, RcAsRet
    <2>4. CASE dir_rmdir(w)    BY <2>4 DEF dir_rmdir
    <2>5. CASE dir_done(w)     BY <2>5 DEF dir_done
    <2> QED  BY <2>1, <2>2, <2>3, <2>4, <2>5
<1>3. CASE \E r \in -1..1 : Leave(w, Front(stack[w]), r)
    BY <1>0, <1>1, <1>3, LeaveTypes
<1>4. CASE /\ \E f \in Fn, p \in {Src(w), Dst(w), NULL}, next \in Pc : Request(w, f, p, NULL, next)
           /\ UNCHANGED <<tree, cwd, opened, call, stack, ring, list, ret>>
    <2>1. PICK f \in Fn, p \in {Src(w), Dst(w), NULL}, next \in Pc : Request(w, f, p, NULL, next)
        BY <1>4
    <2>2. p \in String
        BY <1>1, <2>1
    <2> QED  BY <1>0, <1>4, <2>1, <2>2, OneRequest
<1> QED  BY <1>2, <1>3, <1>4

(* The listing of a directory in rename_directory keeps the ranges. *)
LEMMA ListTypes ==
    ASSUME ShapeInv, NEW w \in Worker, ServeInv(w), ReachInv(w), dir_list(w)
    PROVE  ShapeInv'
<1>0. UNCHANGED cache /\ call[w] # NULL /\ pc[w] \in BelowPc
    BY DEF dir_list, Waiting, BelowPc
<1>1. CASE Succeeded(w)
    <2> DEFINE e == [Top(w) EXCEPT !.todo = list[w]]
               t == [stack[w] EXCEPT ![Len(stack[w])].todo = list[w]]
    <2>1. Top(w) \in Frames /\ stack[w] \in Seq(Frames) /\ stack[w] # << >>
        BY <1>0, BelowFacts
    <2>2. list[w] \in SUBSET Name
        BY DEF ShapeInv
    <2>3. e \in Frames
        BY <2>1, <2>2 DEF Frames
    <2>4. t = [stack[w] EXCEPT ![Len(stack[w])] = e]
        BY DEF Top
    <2>5. t \in Seq(Frames)
        BY <2>1, <2>3, <2>4, FrameFacts
    <2>6. stack' = [stack EXCEPT ![w] = t]
        BY <1>1 DEF dir_list
    <2>7. stack' \in [Worker -> Seq(Frames)]
        <3> HIDE DEF t
        <3>1. stack \in [Worker -> Seq(Frames)]
            BY DEF ShapeInv
        <3> QED  BY <2>5, <2>6, <3>1
    <2>8. pc' \in [Worker -> Pc \cup {NULL}] /\ list' \in [Worker -> SUBSET Name]
        BY <1>1 DEF dir_list, ShapeInv, Pc, RenamePc, BelowPc
    <2> QED
        BY <1>0, <1>1, <2>7, <2>8
        DEF dir_list, ShapeInv, RetryTypeOK, retryVars, tree, cache, ring
<1>2. CASE ~Succeeded(w)
    <2>1. \E r \in -1..1 : Leave(w, Front(stack[w]), r)
        BY <1>2 DEF dir_list, RcAsRet
    <2> QED  BY <1>0, <2>1, BelowFacts, LeaveTypes
<1> QED  BY <1>1, <1>2

(* The two buffers of an entry, what is printed there and from what.       *)
LEMMA EntryFacts ==
    ASSUME ShapeInv, NEW w \in Worker, ServeInv(w), ReachInv(w),
           call[w] # NULL, pc[w] \in BelowPc, NEW name \in Top(w).todo, NextEntry(w, name)
    PROVE  LET a == tmpstr_new(current[w])
               b == tmpstr_new(a)
               d == IF Top(w).dst = a THEN Append(Src(w), name) ELSE Dst(w)
               e == [Top(w) EXCEPT !.todo = @ \ {name}, !.src_entry = a, !.dst_entry = b]
           IN  /\ a \in 0..TMPSTR_NB - 1 /\ b \in 0..TMPSTR_NB - 1 /\ a # b
               /\ name \in Name /\ d \in Seq(Name) /\ Src(w) \in Seq(Name)
               /\ Append(Src(w), name) \in Seq(Name) /\ Append(d, name) \in Seq(Name)
               /\ strings' = [strings EXCEPT ![w] =
                                [strings[w] EXCEPT ![a] = Append(Src(w), name),
                                                   ![b] = Append(d, name)]]
               /\ current' = [current EXCEPT ![w] = b]
               /\ e \in Frames
               /\ stack' = [stack EXCEPT ![w] = [stack[w] EXCEPT ![Len(stack[w])] = e]]
<1> DEFINE a == tmpstr_new(current[w])
           b == tmpstr_new(a)
           d == IF Top(w).dst = a THEN Append(Src(w), name) ELSE Dst(w)
           e == [Top(w) EXCEPT !.todo = @ \ {name}, !.src_entry = a, !.dst_entry = b]
           s == [strings[w] EXCEPT ![a] = Append(Src(w), name)]
<1>1. a \in 0..TMPSTR_NB - 1 /\ b \in 0..TMPSTR_NB - 1 /\ a # b
    <2>1. current[w] \in 0..TMPSTR_NB - 1
        BY DEF ShapeInv
    <2>2. a \in 0..TMPSTR_NB - 1
        BY <2>1, RingFacts
    <2> QED  BY <2>2, RingFacts
<1>2. a \in Address /\ b \in Address
    BY <1>1, RingFacts
<1>3. Top(w) \in Frames /\ Src(w) \in Seq(Name) /\ Dst(w) \in Seq(Name)
    BY BelowFacts
<1>4. name \in Name /\ Top(w).dst \in Address
    BY <1>3 DEF Frames
<1>5. Append(Src(w), name) \in Seq(Name)
    BY <1>3, <1>4
<1>6. strings[w] \in [Address -> String]
    BY DEF ShapeInv
<1>7. s[Top(w).dst] = d
    BY <1>2, <1>4, <1>6 DEF Dst
<1>8. d \in Seq(Name)
    BY <1>3, <1>5
<1>9. Append(d, name) \in Seq(Name)
    BY <1>4, <1>8
<1>10. strings' = [strings EXCEPT ![w] = [s EXCEPT ![b] = Append(d, name)]]
    BY <1>7 DEF NextEntry
<1>11. e \in Frames
    BY <1>2, <1>3 DEF Frames
<1>12. /\ current' = [current EXCEPT ![w] = b]
       /\ stack' = [stack EXCEPT ![w][Len(stack[w])] = e]
    BY DEF NextEntry
<1> HIDE DEF a, b, d, e
<1>13. stack' = [stack EXCEPT ![w] = [stack[w] EXCEPT ![Len(stack[w])] = e]]
    BY <1>12
<1>14. [s EXCEPT ![b] = Append(d, name)]
       = [strings[w] EXCEPT ![a] = Append(Src(w), name), ![b] = Append(d, name)]
    OBVIOUS
<1> QED
    BY <1>1, <1>3, <1>4, <1>5, <1>8, <1>9, <1>10, <1>11, <1>12, <1>13, <1>14 DEF a, b, d, e

(* The steps for one entry of a directory keep the ranges. *)
LEMMA EntryTypes ==
    ASSUME ShapeInv, NEW w \in Worker, ServeInv(w), ReachInv(w),
           entry_namei(w) \/ entry_rename(w)
    PROVE  ShapeInv'
<1>0. UNCHANGED cache /\ call[w] # NULL /\ pc[w] \in BelowPc
    BY DEF entry_namei, entry_rename, Waiting, BelowPc
<1>1. /\ Top(w) \in Frames /\ stack[w] \in Seq(Frames) /\ stack[w] # << >>
      /\ Front(stack[w]) \in Seq(Frames) /\ Front(stack[w]) # << >>
    BY <1>0, BelowFacts
<1>2. CASE entry_namei(w)
    <2>1. PICK name \in Top(w).todo :
              /\ NextEntry(w, name)
              /\ Request(w, "dpl_namei", Append(Src(w), name), NULL, "entry_namei")
              /\ UNCHANGED <<tree, cwd, opened, call, list, ret>>
        BY <1>2 DEF entry_namei
    <2> DEFINE a == tmpstr_new(current[w])
               b == tmpstr_new(a)
               d == IF Top(w).dst = a THEN Append(Src(w), name) ELSE Dst(w)
               e == [Top(w) EXCEPT !.todo = @ \ {name}, !.src_entry = a, !.dst_entry = b]
    <2>2. /\ b \in 0..TMPSTR_NB - 1 /\ a \in Address /\ b \in Address
          /\ Append(Src(w), name) \in Seq(Name) /\ Append(d, name) \in Seq(Name)
          /\ strings' = [strings EXCEPT ![w] =
                            [strings[w] EXCEPT ![a] = Append(Src(w), name),
                                               ![b] = Append(d, name)]]
          /\ current' = [current EXCEPT ![w] = b]
          /\ e \in Frames
          /\ stack' = [stack EXCEPT ![w] = [stack[w] EXCEPT ![Len(stack[w])] = e]]
        BY <1>0, <2>1, EntryFacts, RingFacts
    <2> HIDE DEF a, b, d, e
    <2>3. stack' \in [Worker -> Seq(Frames)]
        <3>1. [stack[w] EXCEPT ![Len(stack[w])] = e] \in Seq(Frames)
            BY <1>1, <2>2, FrameFacts
        <3> QED  BY <2>2, <3>1 DEF ShapeInv
    <2>4. strings' \in [Worker -> [Address -> String]]
        BY <2>2 DEF ShapeInv, String
    <2>5. current' \in [Worker -> 0..TMPSTR_NB - 1]
        BY <2>2 DEF ShapeInv
    <2>6. Append(Src(w), name) \in String /\ NULL \in String
        BY <2>2 DEF String
    <2> QED
        BY <1>0, <2>1, <2>3, <2>4, <2>5, <2>6, RequestTypes DEF Fn, Pc, RenamePc, BelowPc
<1>3. CASE entry_rename(w)
    <2>1. CASE Leave(w, Front(stack[w]), -1)
        BY <1>0, <1>1, <2>1, LeaveTypes
    <2>2. CASE /\ \/ rename_directory(w, Top(w).src_entry, Top(w).dst_entry)
                  \/ rename_file(w, Top(w).src_entry, Top(w).dst_entry)
               /\ UNCHANGED <<tree, cwd, opened, call, ring, list, ret, before>>
        <3>1. Top(w).src_entry \in Address /\ Top(w).dst_entry \in Address
            BY <1>1 DEF Frames
        <3> QED  BY <1>0, <2>2, <3>1, DispatchTypes
    <2> QED  BY <1>3, <2>1, <2>2 DEF entry_rename
<1> QED  BY <1>2, <1>3

(* The answer to fuse keeps the ranges. *)
LEMMA ReplyTypes ==
    ASSUME ShapeInv, NEW w \in Worker, Reply(w)
    PROVE  ShapeInv'
<1>1. call[w] \in Calls /\ call[w].path \in Path
    BY DEF Reply, ShapeInv
<1>2. opened' \subseteq Path
    <2>1. \A p \in opened : Under(call[w].path, p) /\ call[w].op = "rename"
              => Moved(p, call[w].path, call[w].to) \in Path
        BY <1>1 DEF ShapeInv
    <2> QED  BY <1>1, <2>1 DEF Reply, ShapeInv
<1>3. list' \in [Worker -> SUBSET Name] /\ ret' \in [Worker -> -1..1]
    BY DEF Reply, ShapeInv
<1> QED
    BY <1>2, <1>3 DEF Reply, ShapeInv, RetryTypeOK, retryVars, tree, cache, ring

(* A file that is opened gets a copy in the cache: the ranges are kept. *)
LEMMA CachedTypes ==
    ASSUME ShapeInv, NEW p \in Cacheable, Cached(p)
    PROVE  ShapeInv'
BY DEF Cached, ShapeInv, RetryTypeOK, retryVars, self, tree, ring

(* Every step of a handler keeps the ranges. *)
LEMMA HandlerTypes ==
    ASSUME ShapeInv, NEW w \in Worker, ServeInv(w), ReachInv(w), Handler(w)
    PROVE  ShapeInv'
BY SimpleTypes, UnlinkTypes, FileTypes, DirectoryTypes, ListTypes, EntryTypes, ReplyTypes
   DEF Handler

-----------------------------------------------------------------------------
(* Prefixes of paths.                                                      *)

(* A path is under itself. *)
LEMMA UnderRefl == \A p \in Seq(Name) : Under(p, p)
BY DEF Under, IsPrefix

(* What is in a directory under p is under p. *)
LEMMA UnderAppend ==
    ASSUME NEW p \in Seq(Name), NEW q \in Seq(Name), NEW n \in Name, Under(p, q)
    PROVE  Under(p, Append(q, n))
<1>1. Len(p) <= Len(q) /\ Len(Append(q, n)) = Len(q) + 1 /\ Len(p) \in Nat /\ Len(q) \in Nat
    BY DEF Under, IsPrefix
<1>2. SubSeq(Append(q, n), 1, Len(p)) = SubSeq(q, 1, Len(p))
    BY <1>1
<1> QED  BY <1>1, <1>2 DEF Under, IsPrefix

(* A path is under each of its prefixes. *)
LEMMA UnderConcat ==
    ASSUME NEW p \in Seq(Name), NEW q \in Seq(Name) PROVE Under(p, p \o q)
<1>1. Len(p \o q) = Len(p) + Len(q) /\ Len(p) \in Nat /\ Len(q) \in Nat
    OBVIOUS
<1>2. SubSeq(p \o q, 1, Len(p)) = SubSeq(p, 1, Len(p))
    BY <1>1
<1> QED  BY <1>1, <1>2 DEF Under, IsPrefix

(* A path is under another one when that one is the beginning of it, name by name. *)
LEMMA UnderItems ==
    ASSUME NEW p \in Seq(Name), NEW q \in Seq(Name)
    PROVE  Under(p, q) <=> /\ Len(p) <= Len(q)
                           /\ \A i \in 1..Len(p) : p[i] = q[i]
<1>1. ASSUME Len(p) <= Len(q)
      PROVE  (SubSeq(p, 1, Len(p)) = SubSeq(q, 1, Len(p)))
             <=> \A i \in 1..Len(p) : p[i] = q[i]
    <2>1. Len(p) \in Nat /\ Len(q) \in Nat
        OBVIOUS
    <2>2. /\ SubSeq(p, 1, Len(p)) \in Seq(Name) /\ SubSeq(q, 1, Len(p)) \in Seq(Name)
          /\ Len(SubSeq(p, 1, Len(p))) = Len(p) /\ Len(SubSeq(q, 1, Len(p))) = Len(p)
        BY <1>1, <2>1
    <2>3. \A i \in 1..Len(p) : /\ SubSeq(p, 1, Len(p))[i] = p[i]
                               /\ SubSeq(q, 1, Len(p))[i] = q[i]
        BY <1>1, <2>1
    <2> QED  BY <2>2, <2>3
<1> QED  BY <1>1 DEF Under, IsPrefix

(* Two prefixes of one path are one below the other.                       *)
LEMMA UnderChain ==
    ASSUME NEW p \in Seq(Name), NEW q \in Seq(Name), NEW r \in Seq(Name),
           Under(p, r), Under(q, r)
    PROVE  Under(p, q) \/ Under(q, p)
<1>1. /\ Len(p) <= Len(r) /\ \A i \in 1..Len(p) : p[i] = r[i]
      /\ Len(q) <= Len(r) /\ \A i \in 1..Len(q) : q[i] = r[i]
    BY UnderItems
<1>2. Len(p) \in Nat /\ Len(q) \in Nat
    OBVIOUS
<1>3. CASE Len(p) <= Len(q)
    BY <1>1, <1>2, <1>3, UnderItems
<1>4. CASE Len(q) <= Len(p)
    BY <1>1, <1>2, <1>4, UnderItems
<1> QED  BY <1>2, <1>3, <1>4

(* Being under a directory is transitive. *)
LEMMA UnderTrans ==
    ASSUME NEW p \in Seq(Name), NEW q \in Seq(Name), NEW r \in Seq(Name),
           Under(p, q), Under(q, r)
    PROVE  Under(p, r)
BY UnderItems

(* A path is under its parent, and is not its parent. *)
LEMMA UnderFront ==
    ASSUME NEW p \in Seq(Name), p # << >>
    PROVE  Front(p) \in Seq(Name) /\ Under(Front(p), p) /\ Front(p) # p
<1>1. Len(p) \in Nat /\ Len(p) > 0
    OBVIOUS
<1>2. /\ Front(p) \in Seq(Name) /\ Len(Front(p)) = Len(p) - 1
      /\ \A i \in 1..Len(p) - 1 : Front(p)[i] = p[i]
    BY <1>1 DEF Front
<1> QED  BY <1>1, <1>2, UnderItems

(* What a rename may print stays what it may print.                        *)
LEMMA ReachAppend ==
    ASSUME NEW c \in Calls, c.op = "rename", NEW p \in Seq(Name), NEW n \in Name,
           Reaches(c, p)
    PROVE  Reaches(c, Append(p, n))
<1>1. c.path \in Seq(Name) /\ c.to \in Seq(Name)
    OBVIOUS
<1> QED  BY <1>1, UnderAppend, CacheDirName DEF Reaches, Touches

(* A rename reaches both of its paths. *)
LEMMA ReachOwn ==
    ASSUME NEW c \in Calls, c.op = "rename"
    PROVE  /\ c.path \in Seq(Name) /\ c.to \in Seq(Name)
           /\ Reaches(c, c.path) /\ Reaches(c, c.to)
<1>1. c.path \in Seq(Name) /\ c.to \in Seq(Name)
    OBVIOUS
<1> QED  BY <1>1, UnderRefl DEF Reaches, Touches

-----------------------------------------------------------------------------
(* A worker follows its handler, and what its rename prints is its own.    *)

Own(w) == ServeInv(w) /\ ReachInv(w)

(* Both say nothing of other workers.                                      *)
LEMMA OwnOthers ==
    ASSUME NEW v \in Worker, Unmoved(v), Own(v)
    PROVE  Own(v)'
BY DEF Unmoved, Own, ServeInv, ReachInv, Serving, Printed

(* A handler of one request begins with the stage and the request of its own
   operation. *)
LEMMA EnterOwn ==
    ASSUME ShapeInv, NEW w \in Worker, Own(w), NEW op, NEW f, NEW next,
           EnterWith(w, op, f, next),
           <<op, next>> \in Stage, <<next, f>> \in RequestAt, op # "rename",
           next \in Pc \ ({"return", "loop", "readdir_opendir"} \cup BelowPc)
    PROVE  Own(w)'
<1>1. PICK c \in Calls : c.op = op /\ call' = [call EXCEPT ![w] = c]
    BY DEF EnterWith, Enter
<1>2. /\ call'[w] = c /\ c.path \in String /\ pc'[w] = next /\ next # NULL
      /\ arg'[w] = [path |-> c.path, to |-> NULL]
      /\ fn'[w] = f /\ stack' = stack /\ strings' = strings
    <2>1. next # NULL
        OBVIOUS
    <2> QED
        BY <1>1, <2>1
        DEF EnterWith, Request, Begin, ShapeInv, RetryTypeOK, String, ring
<1>3. call[w] = NULL /\ stack[w] = << >>
    BY DEF EnterWith, Enter, Own, ServeInv, Serving
<1>4. c # NULL /\ Serving(w)' /\ arg'[w] \in [path : String, to : String]
    BY <1>2 DEF Serving, String
<1>5. ServeInv(w)'
    <2>1. stack'[w] = << >> /\ call'[w].op # "rename" /\ pc'[w] \notin BelowPc
        BY <1>1, <1>2, <1>3
    <2>2. <<call'[w].op, pc'[w]>> \in Stage /\ <<pc'[w], fn'[w]>> \in RequestAt
        BY <1>1, <1>2
    <2> QED  BY <1>2, <1>4, <2>1, <2>2 DEF ServeInv
<1>6. ReachInv(w)'
    BY <1>2, <1>3 DEF Own, ReachInv
<1> QED  BY <1>5, <1>6 DEF Own

(* dfs_rename begins with a stack and two strings that agree with its request. *)
LEMMA RenameOwn ==
    ASSUME ShapeInv, NEW w \in Worker, Own(w), dfs_rename(w)
    PROVE  Own(w)'
<1>1. PICK c \in Calls : c.op = "rename" /\ call' = [call EXCEPT ![w] = c]
    BY DEF dfs_rename, Enter
<1>2. /\ call'[w] = c /\ c # NULL /\ pc'[w] = "rename_namei" /\ fn'[w] = "dpl_namei"
      /\ arg'[w] = [path |-> c.path, to |-> NULL]
    BY <1>1 DEF dfs_rename, Request, Begin, ShapeInv, RetryTypeOK
<1>3. stack[w] = << >> /\ \A a \in Address : strings[w][a] = NULL
    BY DEF dfs_rename, Enter, Own, ServeInv, ReachInv, Serving
<1>4. stack'[w] = <<Frame(OLDPATH, NEWPATH)>>
    BY <1>1 DEF dfs_rename, ShapeInv
<1>5. /\ strings'[w][OLDPATH] = c.path /\ strings'[w][NEWPATH] = c.to
      /\ \A a \in Address \ {OLDPATH, NEWPATH} : strings'[w][a] = NULL
    <2>1. strings[w] \in [Address -> String] /\ strings \in [Worker -> [Address -> String]]
        BY DEF ShapeInv
    <2>2. strings' = [strings EXCEPT ![w][OLDPATH] = c.path, ![w][NEWPATH] = c.to]
        BY <1>1, <1>2 DEF dfs_rename
    <2> QED  BY <1>3, <2>1, <2>2, OwnAddresses
<1>6. /\ c.path \in Seq(Name) /\ c.to \in Seq(Name) /\ c.path # NULL /\ c.to # NULL
      /\ Reaches(c, c.path) /\ Reaches(c, c.to)
    <2>1. c.path \in Seq(Name) /\ c.to \in Seq(Name) /\ Reaches(c, c.path) /\ Reaches(c, c.to)
        BY <1>1, ReachOwn
    <2> QED  BY <2>1
<1>7. stack'[w] # << >> /\ DOMAIN stack'[w] = {1} /\ stack'[w][1] = Frame(OLDPATH, NEWPATH)
    BY <1>4
<1>8. ServeInv(w)'
    <2>1. Serving(w)' /\ arg'[w] \in [path : String, to : String]
        BY <1>2, <1>6 DEF Serving, String
    <2>2. <<call'[w].op, pc'[w]>> \in Stage /\ <<pc'[w], fn'[w]>> \in RequestAt
        BY <1>1, <1>2 DEF Stage, RenamePc, RequestAt
    <2>3. pc'[w] \notin BelowPc /\ pc'[w] # NULL
        BY <1>2 DEF BelowPc, Pc, RenamePc
    <2> QED  BY <1>1, <1>2, <1>7, <2>1, <2>2, <2>3 DEF ServeInv, BelowPc
<1>9. ReachInv(w)'
    <2>1. \A a \in Address : strings'[w][a] # NULL => Reaches(call'[w], strings'[w][a])
        BY <1>2, <1>5, <1>6
    <2>2. \A i \in DOMAIN stack'[w] : Printed(w, stack[w][i])'
        BY <1>5, <1>6, <1>7 DEF Frame, Printed
    <2> QED  BY <1>2, <1>5, <1>6, <1>7, <2>1, <2>2 DEF ReachInv
<1> QED  BY <1>8, <1>9 DEF Own

(* Every request begins in the invariant of its handler (Own). *)
LEMMA CallOwn ==
    ASSUME ShapeInv, NEW w \in Worker, Own(w), Call(w)
    PROVE  Own(w)'
<1> USE DEF Stage, RequestAt, Pc, BelowPc
<1>1. CASE dfs_mkdir(w)       BY <1>1, EnterOwn DEF dfs_mkdir
<1>2. CASE dfs_mknod(w)       BY <1>2, EnterOwn DEF dfs_mknod
<1>3. CASE dfs_rmdir(w)       BY <1>3, EnterOwn DEF dfs_rmdir
<1>4. CASE dfs_symlink(w)     BY <1>4, EnterOwn DEF dfs_symlink
<1>5. CASE dfs_readlink(w)    BY <1>5, EnterOwn DEF dfs_readlink
<1>6. CASE dfs_opendir(w)     BY <1>6, EnterOwn DEF dfs_opendir
<1>7. CASE dfs_readdir(w)     BY <1>7, EnterOwn DEF dfs_readdir
<1>8. CASE readdir_no_cell(w)
    <2>1. PICK c \in Calls : c.op = "readdir" /\ call' = [call EXCEPT ![w] = c]
        BY <1>8 DEF readdir_no_cell, Enter
    <2>2. /\ call'[w] = c /\ c # NULL /\ pc'[w] = "return"
          /\ UNCHANGED <<stack, strings, fn, rc>>
        BY <1>8, <2>1 DEF readdir_no_cell, ShapeInv, retryVars, ring
    <2>3. fn[w] = NULL /\ rc[w] = NULL /\ stack[w] = << >>
        BY <1>8 DEF readdir_no_cell, Enter, Own, ServeInv, Serving
    <2>4. ServeInv(w)'
        BY <2>2, <2>3 DEF ServeInv, Serving
    <2>5. ReachInv(w)'
        BY <2>2, <2>3 DEF Own, ReachInv
    <2> QED  BY <2>4, <2>5 DEF Own
<1>9. CASE dfs_unlink(w)      BY <1>9, EnterOwn DEF dfs_unlink, RenamePc
<1>10. CASE dfs_rename(w)     BY <1>10, RenameOwn
<1> QED  BY <1>1, <1>2, <1>3, <1>4, <1>5, <1>6, <1>7, <1>8, <1>9, <1>10 DEF Call

(* An answer fills in the type of the top frame at most.                   *)
LEMMA AttemptFrames ==
    ASSUME ShapeInv, NEW w \in Worker, Own(w), Attempt(w)
    PROVE  /\ Serving(w) /\ pc[w] # "loop"
           /\ Len(stack'[w]) = Len(stack[w]) /\ (stack'[w] # << >> <=> stack[w] # << >>)
           /\ DOMAIN stack'[w] = DOMAIN stack[w]
           /\ \A i \in DOMAIN stack[w] :
                /\ stack'[w][i].src = stack[w][i].src /\ stack'[w][i].dst = stack[w][i].dst
                /\ stack'[w][i].src_entry = stack[w][i].src_entry
                /\ stack'[w][i].dst_entry = stack[w][i].dst_entry
<1>1. call[w] # NULL /\ rc[w] = NULL
    BY DEF Attempt
<1>2. Serving(w) /\ pc[w] # "loop"
    <2>1. fn[w] # NULL
        BY DEF Attempt, Answer
    <2> QED  BY <1>1, <2>1 DEF Own, ServeInv
<1>3. CASE stack' = stack
    BY <1>2, <1>3
<1>4. CASE \E p : /\ stack' = [stack EXCEPT ![w][Len(stack[w])].type = TypeOf(p)]
                  /\ fn[w] = "dpl_namei"
    <2>1. PICK p : stack' = [stack EXCEPT ![w][Len(stack[w])].type = TypeOf(p)]
        BY <1>4
    <2>2. call[w].op = "rename"
        <3>1. pc[w] \in {"rename_namei", "dir_namei", "entry_namei"}
            BY <1>2, <1>4 DEF Own, ServeInv, RequestAt
        <3> QED  BY <1>2, <3>1 DEF Own, ServeInv, Stage
    <2>3. stack[w] # << >> /\ stack[w] \in Seq(Frames)
        BY <1>2, <2>2 DEF Own, ServeInv, ShapeInv
    <2> DEFINE e == [Top(w) EXCEPT !.type = TypeOf(p)]
    <2>4. Top(w) \in Frames /\ e \in Frames
        <3>1. Top(w) \in Frames
            BY <2>3, FrameFacts DEF Top
        <3> QED  BY <3>1 DEF Frames, TypeOf
    <2>5. stack'[w] = [stack[w] EXCEPT ![Len(stack[w])] = e]
        BY <2>1 DEF Top, ShapeInv
    <2>6. e.src = Top(w).src /\ e.dst = Top(w).dst
          /\ e.src_entry = Top(w).src_entry /\ e.dst_entry = Top(w).dst_entry
        BY <2>4 DEF Frames
    <2> HIDE DEF e
    <2>7. Len(stack'[w]) = Len(stack[w]) /\ stack'[w] \in Seq(Frames)
        BY <2>3, <2>4, <2>5, FrameFacts
    <2> QED  BY <1>2, <2>3, <2>5, <2>6, <2>7 DEF Top
<1> QED  BY <1>3, <1>4 DEF Attempt

(* An attempt of a request keeps the invariant of the handler. *)
LEMMA AttemptOwn ==
    ASSUME ShapeInv, NEW w \in Worker, Own(w), Attempt(w)
    PROVE  Own(w)'
<1>1. UNCHANGED <<fn, call, pc, arg, strings, current>>
    BY DEF Attempt, Answer, ERR_TIMEOUT, ring
<1>2. ServeInv(w)'
    BY <1>1, AttemptFrames DEF Own, ServeInv, Serving
<1>3. ReachInv(w)'
    <2>1. ASSUME NEW i \in DOMAIN stack'[w], stack[w] # << >> PROVE Printed(w, stack[w][i])'
        <3>1. i \in DOMAIN stack[w] /\ Printed(w, stack[w][i])
            BY <2>1, AttemptFrames DEF Own, ReachInv
        <3> QED  BY <1>1, <3>1, AttemptFrames DEF Printed
    <2> QED  BY <1>1, <2>1, AttemptFrames DEF Own, ReachInv
<1> QED  BY <1>2, <1>3 DEF Own

(* Leaving a handler establishes the invariant of a worker that answers. *)
LEMMA ReturnOwn ==
    ASSUME ShapeInv, NEW w \in Worker, Own(w), call[w] # NULL, NEW r, Return(w, r)
    PROVE  Own(w)'
<1>1. /\ pc'[w] = "return" /\ call' = call /\ stack'[w] = << >>
      /\ fn'[w] = NULL /\ rc'[w] = NULL
      /\ strings'[w] = [a \in Address |-> NULL]
    BY DEF Return, End, NoStrings, ShapeInv, RetryTypeOK
<1>2. ServeInv(w)'
    BY <1>1 DEF ServeInv, Serving, Pc
<1>3. ReachInv(w)'
    BY <1>1 DEF ReachInv
<1> QED  BY <1>2, <1>3 DEF Own

(* A call returns to the frames s: all of them, or all but the top one.    *)
LEMMA LeaveOwn ==
    ASSUME ShapeInv, NEW w \in Worker, Own(w), call[w] # NULL, rc[w] # NULL,
           stack[w] # << >>,
           NEW s \in Seq(Frames), s # << >>,
           s = stack[w] \/ s = Front(stack[w]), NEW r, Leave(w, s, r)
    PROVE  Own(w)'
<1>1. CASE Len(s) = 1
    BY <1>1, ReturnOwn DEF Leave
<1>2. CASE Len(s) # 1
    <2> DEFINE t == [s EXCEPT ![Len(s)].ret = r]
    <2>1. /\ stack' = [stack EXCEPT ![w] = t] /\ pc'[w] = "loop"
          /\ UNCHANGED <<call, arg, strings, fn, rc>>
        BY <1>2 DEF Leave, ShapeInv, retryVars, ring
    <2>2. stack'[w] = t
        <3> HIDE DEF t
        <3> QED  BY <2>1 DEF ShapeInv
    <2>3. Len(s) \in Nat /\ Len(s) > 1 /\ DOMAIN s = 1..Len(s)
        BY <1>2
    <2>4. \A i \in 1..Len(s) : s[i] = stack[w][i] /\ i \in DOMAIN stack[w]
        <3>1. stack[w] \in Seq(Frames) /\ stack[w] # << >>
            BY DEF ShapeInv
        <3>2. CASE s = stack[w]
            BY <2>3, <3>2
        <3>3. CASE s = Front(stack[w])
            BY <2>3, <3>1, <3>3 DEF Front
        <3> QED  BY <3>2, <3>3
    <2>5. /\ DOMAIN t = 1..Len(s) /\ Len(t) = Len(s) /\ t # << >>
          /\ \A i \in 1..Len(s) : /\ t[i].src = s[i].src /\ t[i].dst = s[i].dst
                                  /\ t[i].src_entry = s[i].src_entry
                                  /\ t[i].dst_entry = s[i].dst_entry
        <3>1. DOMAIN t = 1..Len(s)
            BY <2>3
        <3>2. s[Len(s)] \in Frames
            BY FrameFacts
        <3>3. t[Len(s)] = [s[Len(s)] EXCEPT !.ret = r]
            BY <2>3
        <3>4. \A i \in 1..Len(s) : i # Len(s) => t[i] = s[i]
            BY <2>3
        <3>5. \A i \in 1..Len(s) : /\ t[i].src = s[i].src /\ t[i].dst = s[i].dst
                                   /\ t[i].src_entry = s[i].src_entry
                                   /\ t[i].dst_entry = s[i].dst_entry
            BY <3>2, <3>3, <3>4 DEF Frames
        <3>6. Len(t) = Len(s)
            BY <2>3, <3>1
        <3> QED  BY <2>3, <3>1, <3>5, <3>6
    <2> HIDE DEF t
    <2>6. Serving(w) /\ call[w].op = "rename"
        BY DEF Own, ServeInv
    <2>7. ServeInv(w)'
        <3>1. Serving(w)' /\ stack'[w] # << >> /\ call'[w].op = "rename" /\ Len(stack'[w]) > 1
            BY <2>1, <2>2, <2>3, <2>5, <2>6 DEF Serving
        <3>2. <<"rename", "loop">> \in Stage /\ "loop" # NULL /\ "loop" \in BelowPc
            BY DEF Stage, Pc, RenamePc, BelowPc
        <3>3. arg'[w] \in [path : String, to : String] /\ rc'[w] # NULL /\ call'[w] # NULL
            BY <2>1, <2>6 DEF Own, ServeInv
        <3> QED  BY <2>1, <3>1, <3>2, <3>3 DEF ServeInv
    <2>8. ReachInv(w)'
        <3>1. ASSUME NEW i \in DOMAIN stack'[w] PROVE Printed(w, stack[w][i])'
            <4>1. i \in DOMAIN stack[w] /\ Printed(w, stack[w][i])
                BY <2>2, <2>4, <2>5 DEF Own, ReachInv
            <4> QED  BY <2>1, <2>2, <2>4, <2>5, <4>1 DEF Printed
        <3> QED  BY <2>1, <2>2, <2>5, <3>1 DEF Own, ReachInv
    <2> QED  BY <2>7, <2>8 DEF Own
<1> QED  BY <1>1, <1>2

(* The next request of a handler, the frames as they are.                  *)
LEMMA RequestOwn ==
    ASSUME ShapeInv, NEW w \in Worker, Own(w), Serving(w),
           NEW f \in Fn, NEW p \in String, NEW q \in String, NEW next \in Pc,
           Request(w, f, p, q, next), <<call[w].op, next>> \in Stage,
           <<next, f>> \in RequestAt, next \notin {"return", "loop"},
           next \in BelowPc => pc[w] \in BelowPc,
           call[w].op # "rename" =>
               p = IF next = "readdir_opendir" THEN NULL ELSE call[w].path,
           call[w].op = "rename" =>
               /\ next # "dir_opendir" => p # NULL /\ Reaches(call[w], p)
               /\ next = "fcopy" => q # NULL /\ Reaches(call[w], q),
           UNCHANGED <<call, stack, ring>>
    PROVE  Own(w)'
<1>1. /\ fn'[w] = f /\ pc'[w] = next /\ arg'[w] = [path |-> p, to |-> q]
      /\ UNCHANGED <<call, stack, strings>>
    BY DEF Request, Begin, ShapeInv, RetryTypeOK, ring
<1>2. next # NULL /\ arg'[w] \in [path : String, to : String] /\ Serving(w)'
    BY <1>1 DEF Serving
<1>3. ServeInv(w)'
    BY <1>1, <1>2 DEF Own, ServeInv, Serving
<1>4. ReachInv(w)'
    <2>1. stack[w] # << >> => call[w].op = "rename"
        BY DEF Own, ServeInv
    <2> QED  BY <1>1, <2>1 DEF Own, ReachInv, Printed
<1> QED  BY <1>3, <1>4 DEF Own

(* The handlers of one or two requests keep their invariant. *)
LEMMA SimpleOwn ==
    ASSUME ShapeInv, NEW w \in Worker, Own(w),
           \/ mkdir_done(w) \/ mknod_done(w) \/ rmdir_done(w)
           \/ symlink_setattr(w) \/ symlink_done(w) \/ readlink_done(w)
           \/ opendir_done(w) \/ readdir_opendir(w) \/ readdir_done(w)
    PROVE  Own(w)'
<1>0. call[w] # NULL
    BY DEF mkdir_done, mknod_done, rmdir_done, symlink_setattr, symlink_done,
           readlink_done, opendir_done, readdir_opendir, readdir_done, Waiting
<1>1. CASE \E r : Return(w, r)
    BY <1>0, <1>1, ReturnOwn
<1>2. CASE symlink_setattr(w) /\ Succeeded(w)
    <2>1. Serving(w) /\ call[w].op = "symlink"
        BY <1>2 DEF symlink_setattr, Waiting, Serving, Own, ServeInv, Stage, RenamePc, BelowPc
    <2>2. arg[w].path = call[w].path /\ arg[w].path \in String /\ NULL \in String
        BY <1>2, <2>1 DEF Own, ServeInv, symlink_setattr, Waiting, String
    <2>3. /\ "dpl_setattr" \in Fn /\ "symlink_setattr" \in Pc \ BelowPc
          /\ <<call[w].op, "symlink_setattr">> \in Stage
          /\ <<"symlink_setattr", "dpl_setattr">> \in RequestAt
        BY <2>1 DEF Fn, Pc, Stage, RequestAt, BelowPc
    <2>4. Request(w, "dpl_setattr", arg[w].path, NULL, "symlink_setattr")
          /\ UNCHANGED <<call, stack, ring>>
        BY <1>2 DEF symlink_setattr
    <2> QED  BY <2>1, <2>2, <2>3, <2>4, RequestOwn
<1>3. CASE readdir_opendir(w) /\ Succeeded(w)
    <2>1. Serving(w) /\ call[w].op = "readdir"
        BY <1>3 DEF readdir_opendir, Waiting, Serving, Own, ServeInv, Stage, RenamePc, BelowPc
    <2>2. NULL \in String
        BY DEF String
    <2>3. /\ "dpl_opendir" \in Fn /\ "readdir_opendir" \in Pc \ BelowPc
          /\ <<call[w].op, "readdir_opendir">> \in Stage
          /\ <<"readdir_opendir", "dpl_opendir">> \in RequestAt
        BY <2>1 DEF Fn, Pc, Stage, RequestAt, BelowPc
    <2>4. Request(w, "dpl_opendir", NULL, NULL, "readdir_opendir")
          /\ UNCHANGED <<call, stack, ring>>
        BY <1>3 DEF readdir_opendir
    <2> QED  BY <2>1, <2>2, <2>3, <2>4, RequestOwn
<1>4. \/ \E r : Return(w, r)
      \/ symlink_setattr(w) /\ Succeeded(w)
      \/ readdir_opendir(w) /\ Succeeded(w)
    BY DEF mkdir_done, mknod_done, rmdir_done, symlink_setattr, symlink_done,
           readlink_done, opendir_done, readdir_opendir, readdir_done
<1> QED  BY <1>1, <1>2, <1>3, <1>4

(* Choosing between rename_file and rename_directory keeps the invariant of the
   handler. *)
LEMMA DispatchOwn ==
    ASSUME ShapeInv, NEW w \in Worker, Own(w), Serving(w), call[w].op = "rename",
           stack[w] # << >>, NEW a \in Address, NEW b \in Address,
           strings[w][a] # NULL, strings[w][b] # NULL,
           rename_directory(w, a, b) \/ rename_file(w, a, b),
           UNCHANGED <<tree, cwd, opened, call, ring, list, ret, before>>,
           rename_file(w, a, b) => UNCHANGED stack
    PROVE  Own(w)'
<1>1. /\ strings[w][a] \in String /\ strings[w][b] \in String /\ NULL \in String
      /\ Reaches(call[w], strings[w][a]) /\ Reaches(call[w], strings[w][b])
    BY DEF ShapeInv, String, Own, ReachInv
<1>2. CASE rename_file(w, a, b)
    <2>1. <<call[w].op, "fcopy">> \in Stage /\ <<"fcopy", "dpl_fcopy">> \in RequestAt
          /\ "fcopy" \in Pc \ BelowPc /\ "dpl_fcopy" \in Fn
        BY DEF Stage, RequestAt, Pc, RenamePc, BelowPc, Fn
    <2> QED  BY <1>1, <1>2, <2>1, RequestOwn DEF rename_file
<1>3. CASE rename_directory(w, a, b)
    <2>1. /\ fn'[w] = "dpl_namei" /\ pc'[w] = "dir_namei"
          /\ arg'[w] = [path |-> strings[w][b], to |-> NULL]
          /\ stack'[w] = Append(stack[w], Frame(a, b))
          /\ UNCHANGED <<call, strings>>
        BY <1>3 DEF rename_directory, Request, Begin, ShapeInv, RetryTypeOK, ring
    <2>2. stack[w] \in Seq(Frames) /\ Frame(a, b) \in Frames
        BY NewFrame DEF ShapeInv
    <2>3. /\ stack'[w] # << >> /\ Len(stack'[w]) > 1
          /\ DOMAIN stack'[w] = 1..Len(stack[w]) + 1
          /\ \A i \in 1..Len(stack[w]) : stack'[w][i] = stack[w][i]
          /\ stack'[w][Len(stack[w]) + 1] = Frame(a, b)
        <3> DEFINE u == stack[w]
                   e == Frame(a, b)
        <3>1. u \in Seq(Frames) /\ e \in Frames /\ stack'[w] = Append(u, e) /\ u # << >>
            BY <2>1, <2>2
        <3> HIDE DEF u, e
        <3>2. /\ Len(Append(u, e)) = Len(u) + 1 /\ Len(u) \in Nat /\ Len(u) > 0
              /\ DOMAIN Append(u, e) = 1..(Len(u) + 1)
              /\ \A i \in 1..Len(u) : Append(u, e)[i] = u[i]
              /\ Append(u, e)[Len(u) + 1] = e
            <4>1. Len(Append(u, e)) = Len(u) + 1 /\ Len(u) \in Nat /\ Len(u) > 0
                BY <3>1, FrameFacts
            <4>2. Append(u, e) \in Seq(Frames)
                BY <3>1
            <4>3. DOMAIN Append(u, e) = 1..(Len(u) + 1)
                BY <4>1, <4>2
            <4>4. \A i \in 1..Len(u) : Append(u, e)[i] = u[i]
                BY <3>1, <4>1
            <4>5. Append(u, e)[Len(u) + 1] = e
                BY <3>1, <4>1
            <4> QED  BY <4>1, <4>3, <4>4, <4>5
        <3>3. Append(u, e) # << >>
            <4> SUFFICES ASSUME Append(u, e) = << >> PROVE FALSE
                OBVIOUS
            <4>1. Len(Append(u, e)) = Len(<< >>)
                BY Zenon
            <4> QED  BY <3>2, <4>1
        <3> QED  BY <3>1, <3>2, <3>3 DEF u, e
    <2>4. ServeInv(w)'
        <3>1. <<call[w].op, "dir_namei">> \in Stage /\ <<"dir_namei", "dpl_namei">> \in RequestAt
              /\ "dir_namei" # NULL /\ Serving(w)'
            BY <2>1 DEF Stage, RequestAt, Pc, RenamePc, BelowPc, Serving
        <3>2. arg'[w] \in [path : String, to : String]
            BY <1>1, <2>1
        <3> QED  BY <2>1, <2>3, <3>1, <3>2 DEF ServeInv, Serving
    <2>5. ReachInv(w)'
        <3>1. ASSUME NEW i \in DOMAIN stack'[w] PROVE Printed(w, stack[w][i])'
            <4>1. CASE i \in 1..Len(stack[w])
                BY <2>1, <2>2, <2>3, <4>1 DEF Own, ReachInv, Printed
            <4>2. CASE i = Len(stack[w]) + 1
                BY <2>1, <2>3, <4>2 DEF Frame, Printed
            <4> QED  BY <2>2, <2>3, <4>1, <4>2
        <3> QED  BY <1>1, <2>1, <2>3, <3>1 DEF Own, ReachInv
    <2> QED  BY <2>4, <2>5 DEF Own
<1> QED  BY <1>2, <1>3

(* Replacing the last frame of a stack leaves its length and the frames below alone. *)
LEMMA TopFacts ==
    ASSUME NEW s \in Seq(Frames), s # << >>, NEW e \in Frames
    PROVE  LET t == [s EXCEPT ![Len(s)] = e] IN
           /\ Len(t) = Len(s) /\ DOMAIN t = 1..Len(s) /\ Len(s) \in Nat /\ Len(s) > 0
           /\ t[Len(s)] = e /\ \A i \in 1..Len(s) : i # Len(s) => t[i] = s[i]
<1>1. Len(s) \in Nat /\ Len(s) > 0 /\ DOMAIN s = 1..Len(s)
    OBVIOUS
<1> QED  BY <1>1, FrameFacts

(* A rename in a directory goes on with e for its top frame.               *)
LEMMA TopOwn ==
    ASSUME ShapeInv, NEW w \in Worker, Own(w), call[w] # NULL, pc[w] \in RenamePc,
           Len(stack[w]) > 1, stack[w] # << >>, call' = call, NEW e \in Frames,
           stack' = [stack EXCEPT ![w] = [stack[w] EXCEPT ![Len(stack[w])] = e]],
           pc'[w] \in {"loop", "entry_namei"},
           IF pc'[w] = "loop" THEN rc'[w] # NULL ELSE fn'[w] = "dpl_namei",
           arg'[w] \in [path : String, to : String],
           pc'[w] # "loop" => arg'[w].path # NULL /\ Reaches(call[w], arg'[w].path),
           strings'[w][OLDPATH] = strings[w][OLDPATH],
           strings'[w][NEWPATH] = strings[w][NEWPATH],
           \A a \in Address : strings[w][a] # NULL => strings'[w][a] # NULL,
           \A a \in Address : strings'[w][a] # NULL => Reaches(call[w], strings'[w][a]),
           \A a \in {e.src, e.dst, e.src_entry, e.dst_entry} : strings'[w][a] # NULL
    PROVE  Own(w)'
<1>1. Serving(w) /\ call[w].op = "rename" /\ stack[w] \in Seq(Frames)
    BY DEF Own, ServeInv, ShapeInv
<1> DEFINE s == stack[w]
           t == [s EXCEPT ![Len(s)] = e]
<1>2. stack'[w] = t
    BY DEF ShapeInv
<1>3. /\ Len(t) = Len(s) /\ DOMAIN t = 1..Len(s) /\ Len(s) \in Nat /\ Len(s) > 1
      /\ t[Len(s)] = e /\ \A i \in 1..Len(s) : i # Len(s) => t[i] = s[i]
    BY <1>1, TopFacts
<1> HIDE DEF t
<1>4. stack'[w] # << >>
    <2> SUFFICES ASSUME t = << >> PROVE FALSE
        BY <1>2
    <2>1. Len(t) = Len(<< >>)
        BY Zenon
    <2> QED  BY <1>3, <2>1
<1>5. ServeInv(w)'
    <2>1. <<call'[w].op, pc'[w]>> \in Stage /\ pc'[w] # NULL
        BY <1>1 DEF Stage, Pc, RenamePc, BelowPc
    <2>2. IF pc'[w] = "loop" THEN rc'[w] # NULL ELSE <<pc'[w], fn'[w]>> \in RequestAt
        BY DEF RequestAt
    <2>3. Serving(w)' /\ call'[w].op = "rename"
        BY <1>1 DEF Serving
    <2> QED  BY <1>2, <1>3, <1>4, <2>1, <2>2, <2>3 DEF ServeInv
<1>6. ReachInv(w)'
    <2>1. ASSUME NEW i \in DOMAIN stack'[w] PROVE Printed(w, stack[w][i])'
        <3>1. CASE i = Len(s)
            BY <1>2, <1>3, <3>1 DEF Printed
        <3>2. CASE i # Len(s)
            <4>1. i \in DOMAIN stack[w] /\ s[i] \in Frames /\ stack'[w][i] = s[i]
                BY <1>1, <1>2, <1>3, <3>2
            <4>2. Printed(w, stack[w][i])
                BY <4>1 DEF Own, ReachInv
            <4>3. {s[i].src, s[i].dst, s[i].src_entry, s[i].dst_entry} \subseteq Address
                BY <4>1 DEF Frames
            <4> QED  BY <4>1, <4>2, <4>3 DEF Printed
        <3> QED  BY <3>1, <3>2
    <2>2. strings[w][OLDPATH] = call[w].path /\ strings[w][NEWPATH] = call[w].to
        BY DEF Own, ReachInv
    <2> QED  BY <1>4, <2>1, <2>2 DEF ReachInv
<1> QED  BY <1>5, <1>6 DEF Own

(* The steps of rename_file keep the invariant of the handler. *)
LEMMA FileOwn ==
    ASSUME ShapeInv, NEW w \in Worker, Own(w), rename_dispatch(w) \/ rename_unlink(w)
    PROVE  Own(w)'
<1>0. call[w] # NULL /\ rc[w] # NULL /\ pc[w] \in {"rename_namei", "fcopy"}
    BY DEF rename_dispatch, rename_unlink, Waiting
<1>1. /\ Serving(w) /\ call[w].op = "rename" /\ call[w] \in Calls
      /\ stack[w] # << >> /\ stack[w] \in Seq(Frames)
    BY <1>0, RenameFacts DEF Own, RenamePc, ShapeInv
<1>2. CASE rename_dispatch(w)
    <2>1. CASE Return(w, -1)
        BY <1>0, <2>1, ReturnOwn
    <2>2. CASE /\ \/ rename_directory(w, OLDPATH, NEWPATH)
                  \/ rename_file(w, OLDPATH, NEWPATH)
               /\ UNCHANGED <<tree, cwd, opened, call, ring, list, ret, before>>
        <3>1. strings[w][OLDPATH] = call[w].path /\ strings[w][NEWPATH] = call[w].to
            BY <1>1 DEF Own, ReachInv
        <3>2. strings[w][OLDPATH] # NULL /\ strings[w][NEWPATH] # NULL
            BY <1>1, <3>1, ReachOwn
        <3>3. rename_file(w, OLDPATH, NEWPATH) => UNCHANGED stack
            BY DEF rename_file
        <3> QED  BY <1>1, <2>2, <3>2, <3>3, OwnAddresses, DispatchOwn
    <2> QED  BY <1>2, <2>1, <2>2 DEF rename_dispatch
<1>3. CASE rename_unlink(w)
    <2>1. CASE Succeeded(w)
        <3>1. /\ arg[w].path \in String /\ arg[w].path # NULL /\ NULL \in String
              /\ Reaches(call[w], arg[w].path)
            BY <1>1, <1>3 DEF rename_unlink, Waiting, Own, ServeInv, ReachInv, String
        <3>2. Request(w, "dpl_unlink", arg[w].path, NULL, "unlink")
              /\ UNCHANGED <<call, stack, ring>>
            BY <1>3, <2>1 DEF rename_unlink
        <3>3. /\ "dpl_unlink" \in Fn /\ "unlink" \in Pc \ BelowPc
              /\ <<call[w].op, "unlink">> \in Stage /\ <<"unlink", "dpl_unlink">> \in RequestAt
            BY <1>1 DEF Fn, Pc, RenamePc, BelowPc, Stage, RequestAt
        <3> QED  BY <1>1, <3>1, <3>2, <3>3, RequestOwn
    <2>2. CASE ~Succeeded(w)
        <3>1. Leave(w, stack[w], -1)
            BY <1>3, <2>2 DEF rename_unlink
        <3> QED  BY <1>0, <1>1, <3>1, LeaveOwn
    <2> QED  BY <2>1, <2>2
<1> QED  BY <1>2, <1>3

(* The end of dfs_unlink, alone or in rename_file, keeps the invariant of the
   handler. *)
LEMMA UnlinkOwn ==
    ASSUME ShapeInv, NEW w \in Worker, Own(w), unlink_done(w)
    PROVE  Own(w)'
<1>0. call[w] # NULL /\ rc[w] # NULL /\ pc[w] = "unlink" /\ Serving(w)
    BY DEF unlink_done, Waiting, Serving
<1>1. CASE stack[w] = << >> \/ Len(stack[w]) = 1
    <2>1. \E r : Return(w, r)
        BY <1>1 DEF unlink_done
    <2> QED  BY <1>0, <2>1, ReturnOwn
<1>2. CASE ~(stack[w] = << >> \/ Len(stack[w]) = 1)
    <2> DEFINE r == IF Succeeded(w) THEN 0 ELSE 1
               e == [Top(w) EXCEPT !.ret = r]
    <2>1. /\ stack[w] \in Seq(Frames) /\ stack[w] # << >> /\ Len(stack[w]) > 1
          /\ Top(w) \in Frames
        <3>1. stack[w] \in Seq(Frames) /\ stack[w] # << >>
            BY <1>2 DEF ShapeInv
        <3> QED  BY <1>2, <3>1, FrameFacts DEF Top
    <2>2. /\ e \in Frames /\ e.src = Top(w).src /\ e.dst = Top(w).dst
          /\ e.src_entry = Top(w).src_entry /\ e.dst_entry = Top(w).dst_entry
        <3>1. r \in -1..1
            OBVIOUS
        <3> HIDE DEF r
        <3> QED  BY <2>1, <3>1 DEF Frames
    <2>3. /\ stack' = [stack EXCEPT ![w] = [stack[w] EXCEPT ![Len(stack[w])] = e]]
          /\ pc'[w] = "loop" /\ UNCHANGED <<call, arg, rc>>
          /\ UNCHANGED ring \/ tmpstr_printf(w, <<"cache_dir">> \o arg[w].path)
        BY <1>2 DEF unlink_done, Top, ShapeInv, retryVars
    <2>4. call[w].op = "rename" /\ call[w] \in Calls
        BY <1>0, <2>1 DEF Own, ServeInv, ShapeInv
    <2>5. \A a \in {e.src, e.dst, e.src_entry, e.dst_entry} :
                a \in Address /\ strings[w][a] # NULL
        <3>1. Len(stack[w]) \in DOMAIN stack[w]
            BY <2>1
        <3>2. Printed(w, Top(w))
            BY <2>1, <3>1 DEF Own, ReachInv, Top
        <3> QED  BY <2>1, <2>2, <3>2 DEF Printed, Frames
    <2>6. /\ strings'[w][OLDPATH] = strings[w][OLDPATH]
          /\ strings'[w][NEWPATH] = strings[w][NEWPATH]
          /\ \A a \in Address : strings[w][a] # NULL => strings'[w][a] # NULL
          /\ \A a \in Address : strings'[w][a] # NULL => Reaches(call[w], strings'[w][a])
        <3>1. \A a \in Address : strings[w][a] # NULL => Reaches(call[w], strings[w][a])
            BY <2>1 DEF Own, ReachInv
        <3>2. CASE UNCHANGED ring
            BY <3>1, <3>2 DEF ring
        <3>3. CASE tmpstr_printf(w, <<"cache_dir">> \o arg[w].path)
            <4> DEFINE a == tmpstr_new(current[w])
                       p == <<"cache_dir">> \o arg[w].path
            <4>1. a \in Address /\ a \notin {OLDPATH, NEWPATH}
                <5>1. current[w] \in 0..TMPSTR_NB - 1
                    BY DEF ShapeInv
                <5>2. a \in 0..TMPSTR_NB - 1
                    BY <5>1, RingFacts
                <5> QED  BY <5>2, RingFacts
            <4>2. arg[w].path \in Seq(Name)
                BY <1>0, <2>1 DEF Own, ReachInv, ServeInv, String
            <4>3. p \in Seq(Name) /\ Reaches(call[w], p)
                <5>1. p \in Seq(Name)
                    BY <4>2, CacheDirName
                <5>2. Under(<<"cache_dir">>, p)
                    BY <4>2, CacheDirName, UnderConcat
                <5> QED  BY <5>1, <5>2 DEF Reaches
            <4>4. strings' = [strings EXCEPT ![w][a] = p]
                BY <3>3 DEF tmpstr_printf
            <4>5. strings \in [Worker -> [Address -> String]]
                BY DEF ShapeInv
            <4>6. p # NULL
                BY <4>3
            <4> HIDE DEF a, p
            <4> QED  BY <3>1, <4>1, <4>3, <4>4, <4>5, <4>6, OwnAddresses
        <3> QED  BY <2>3, <3>2, <3>3
    <2>7. arg'[w] \in [path : String, to : String]
        BY <1>0, <2>3 DEF Own, ServeInv
    <2> HIDE DEF e
    <2>8. \A a \in {e.src, e.dst, e.src_entry, e.dst_entry} : strings'[w][a] # NULL
        BY <2>5, <2>6
    <2> QED
        BY <1>0, <2>1, <2>2, <2>3, <2>6, <2>7, <2>8, TopOwn DEF RenamePc
<1> QED  BY <1>1, <1>2

(* The steps of rename_directory around its loop keep the invariant of the handler. *)
LEMMA DirectoryOwn ==
    ASSUME ShapeInv, NEW w \in Worker, Own(w),
           \/ dir_mkdir(w) \/ dir_chdir(w) \/ dir_opendir(w) \/ dir_rmdir(w) \/ dir_done(w)
    PROVE  Own(w)'
<1>0. call[w] # NULL /\ pc[w] \in BelowPc /\ rc[w] # NULL
    BY DEF dir_mkdir, dir_chdir, dir_opendir, dir_rmdir, dir_done, Waiting, BelowPc
<1>1. /\ Serving(w) /\ call[w].op = "rename" /\ stack[w] # << >> /\ Top(w) \in Frames
      /\ Front(stack[w]) \in Seq(Frames) /\ Front(stack[w]) # << >>
      /\ Src(w) \in Seq(Name) /\ Dst(w) \in Seq(Name)
    BY <1>0, BelowFacts DEF Own
<1>2. /\ Src(w) \in String /\ Dst(w) \in String /\ NULL \in String
      /\ Src(w) # NULL /\ Dst(w) # NULL
      /\ Reaches(call[w], Src(w)) /\ Reaches(call[w], Dst(w))
    <2>1. Src(w) \in String /\ Dst(w) \in String /\ NULL \in String
          /\ Src(w) # NULL /\ Dst(w) # NULL
        BY <1>1 DEF String
    <2>2. Top(w).src \in Address /\ Top(w).dst \in Address
        BY <1>1 DEF Frames
    <2> QED  BY <1>1, <2>1, <2>2 DEF Own, ReachInv, Src, Dst
<1> DEFINE steps == {<<"dir_chdir", "dpl_chdir", Src(w)>>, <<"dir_mkdir", "dpl_mkdir", Dst(w)>>,
                     <<"dir_opendir", "dpl_opendir", NULL>>, <<"dir_rmdir", "dpl_rmdir", Src(w)>>}
<1>3. \/ \E r : Leave(w, Front(stack[w]), r)
      \/ /\ \E s \in steps : Request(w, s[2], s[3], NULL, s[1])
         /\ UNCHANGED <<call, stack, ring>>
    <2>1. CASE dir_mkdir(w)    BY <2>1 DEF dir_mkdir
    <2>2. CASE dir_chdir(w)    BY <2>2 DEF dir_chdir
    <2>3. CASE dir_opendir(w)  BY <2>3 DEF dir_opendir
    <2>4. CASE dir_rmdir(w)    BY <2>4 DEF dir_rmdir
    <2>5. CASE dir_done(w)     BY <2>5 DEF dir_done
    <2> QED  BY <2>1, <2>2, <2>3, <2>4, <2>5
<1>4. CASE \E r : Leave(w, Front(stack[w]), r)
    BY <1>0, <1>1, <1>4, LeaveOwn
<1>5. CASE /\ \E s \in steps : Request(w, s[2], s[3], NULL, s[1])
           /\ UNCHANGED <<call, stack, ring>>
    <2>1. PICK s \in steps : Request(w, s[2], s[3], NULL, s[1])
        BY <1>5
    <2>2. /\ s[2] \in Fn /\ s[1] \in Pc /\ s[1] \notin {"return", "loop", "fcopy"}
          /\ <<call[w].op, s[1]>> \in Stage /\ <<s[1], s[2]>> \in RequestAt
        BY <1>1, <2>1 DEF Fn, Pc, RenamePc, BelowPc, Stage, RequestAt
    <2>3. /\ s[3] \in String
          /\ s[1] # "dir_opendir" => s[3] # NULL /\ Reaches(call[w], s[3])
        BY <1>2, <2>1
    <2> HIDE DEF steps
    <2> QED  BY <1>0, <1>1, <1>2, <1>5, <2>1, <2>2, <2>3, RequestOwn
<1> QED  BY <1>3, <1>4, <1>5

(* A rename reads the listing of a directory.                              *)
LEMMA ListOwn ==
    ASSUME ShapeInv, NEW w \in Worker, Own(w), dir_list(w)
    PROVE  Own(w)'
<1>0. call[w] # NULL /\ pc[w] = "dir_opendir" /\ pc[w] \in BelowPc /\ rc[w] # NULL
    BY DEF dir_list, Waiting, BelowPc
<1>1. /\ Serving(w) /\ call[w].op = "rename" /\ stack[w] # << >> /\ Top(w) \in Frames
      /\ Front(stack[w]) \in Seq(Frames) /\ Front(stack[w]) # << >>
      /\ stack[w] \in Seq(Frames) /\ Len(stack[w]) > 1
    BY <1>0, BelowFacts DEF Own, ShapeInv, ServeInv
<1>2. CASE ~Succeeded(w)
    <2>1. \E r : Leave(w, Front(stack[w]), r)
        BY <1>2 DEF dir_list
    <2> QED  BY <1>0, <1>1, <2>1, LeaveOwn
<1>3. CASE Succeeded(w)
    <2> DEFINE e == [Top(w) EXCEPT !.todo = list[w]]
    <2>1. list[w] \in SUBSET Name
        BY DEF ShapeInv
    <2>2. /\ e \in Frames /\ e.src = Top(w).src /\ e.dst = Top(w).dst
          /\ e.src_entry = Top(w).src_entry /\ e.dst_entry = Top(w).dst_entry
        BY <1>1, <2>1 DEF Frames
    <2>3. /\ stack' = [stack EXCEPT ![w] = [stack[w] EXCEPT ![Len(stack[w])] = e]]
          /\ pc'[w] = "loop" /\ UNCHANGED <<call, arg, rc, strings>>
        BY <1>3 DEF dir_list, Top, ShapeInv, retryVars, ring
    <2>4. \A a \in {e.src, e.dst, e.src_entry, e.dst_entry} : strings[w][a] # NULL
        <3>1. Len(stack[w]) \in DOMAIN stack[w]
            BY <1>1
        <3>2. Printed(w, Top(w))
            BY <1>1, <3>1 DEF Own, ReachInv, Top
        <3> QED  BY <2>2, <3>2 DEF Printed
    <2>5. \A a \in Address : strings[w][a] # NULL => Reaches(call[w], strings[w][a])
        BY <1>1 DEF Own, ReachInv
    <2>6. arg'[w] \in [path : String, to : String]
        BY <1>1, <2>3 DEF Own, ServeInv
    <2> HIDE DEF e
    <2> QED
        BY <1>0, <1>1, <2>2, <2>3, <2>4, <2>5, <2>6, TopOwn DEF RenamePc
<1> QED  BY <1>2, <1>3

(* A rename goes on with the next entry of a directory.                    *)
LEMMA EntryOwn ==
    ASSUME ShapeInv, NEW w \in Worker, Own(w), entry_namei(w) \/ entry_rename(w)
    PROVE  Own(w)'
<1>0. call[w] # NULL /\ pc[w] \in BelowPc /\ rc[w] # NULL /\ pc[w] # "return"
    BY DEF entry_namei, entry_rename, Waiting, BelowPc
<1>1. /\ Serving(w) /\ call[w].op = "rename" /\ stack[w] # << >> /\ Top(w) \in Frames
      /\ Front(stack[w]) \in Seq(Frames) /\ Front(stack[w]) # << >>
      /\ stack[w] \in Seq(Frames) /\ Len(stack[w]) > 1 /\ call[w] \in Calls
    BY <1>0, BelowFacts DEF Own, ShapeInv, ServeInv
<1>2. Printed(w, Top(w))
    <2>1. Len(stack[w]) \in DOMAIN stack[w]
        BY <1>1
    <2> QED  BY <1>1, <2>1 DEF Own, ReachInv, Top
<1>3. /\ Top(w).src \in Address /\ Top(w).dst \in Address
      /\ Top(w).src_entry \in Address /\ Top(w).dst_entry \in Address
    BY <1>1 DEF Frames
<1>4. \A a \in Address : strings[w][a] # NULL => Reaches(call[w], strings[w][a])
    BY <1>1 DEF Own, ReachInv
<1>5. CASE entry_rename(w)
    <2>1. CASE Leave(w, Front(stack[w]), -1)
        BY <1>0, <1>1, <2>1, LeaveOwn
    <2>2. CASE /\ \/ rename_directory(w, Top(w).src_entry, Top(w).dst_entry)
                  \/ rename_file(w, Top(w).src_entry, Top(w).dst_entry)
               /\ UNCHANGED <<tree, cwd, opened, call, ring, list, ret, before>>
        <3>1. /\ strings[w][Top(w).src_entry] # NULL
              /\ strings[w][Top(w).dst_entry] # NULL
            BY <1>2 DEF Printed
        <3>2. rename_file(w, Top(w).src_entry, Top(w).dst_entry) => UNCHANGED stack
            BY DEF rename_file
        <3> QED  BY <1>1, <1>3, <2>2, <3>1, <3>2, DispatchOwn
    <2> QED  BY <1>5, <2>1, <2>2 DEF entry_rename
<1>6. CASE entry_namei(w)
    <2>1. PICK name \in Top(w).todo :
              /\ NextEntry(w, name)
              /\ Request(w, "dpl_namei", Append(Src(w), name), NULL, "entry_namei")
              /\ UNCHANGED call
        BY <1>6 DEF entry_namei
    <2> DEFINE a == tmpstr_new(current[w])
               b == tmpstr_new(a)
               d == IF Top(w).dst = a THEN Append(Src(w), name) ELSE Dst(w)
               e == [Top(w) EXCEPT !.todo = @ \ {name}, !.src_entry = a, !.dst_entry = b]
               p == Append(Src(w), name)
               q == Append(d, name)
    <2>2. /\ a \in 0..TMPSTR_NB - 1 /\ b \in 0..TMPSTR_NB - 1
          /\ a # b /\ name \in Name /\ d \in Seq(Name) /\ Src(w) \in Seq(Name)
          /\ p \in Seq(Name) /\ q \in Seq(Name)
          /\ strings' = [strings EXCEPT ![w] = [strings[w] EXCEPT ![a] = p, ![b] = q]]
          /\ e \in Frames
          /\ stack' = [stack EXCEPT ![w] = [stack[w] EXCEPT ![Len(stack[w])] = e]]
        BY <1>0, <2>1, EntryFacts DEF Own
    <2>3. /\ a \in Address /\ b \in Address
          /\ {a, b} \cap {OLDPATH, NEWPATH} = {}
        BY <2>2, RingFacts
    <2>4. /\ Reaches(call[w], p) /\ Reaches(call[w], q)
        <3>1. Reaches(call[w], Src(w)) /\ (Dst(w) # NULL => Reaches(call[w], Dst(w)))
            BY <1>2, <1>3, <1>4 DEF Src, Dst, Printed
        <3>2. Reaches(call[w], p)
            BY <1>1, <2>2, <3>1, ReachAppend
        <3>3. Dst(w) # NULL
            BY <1>2 DEF Printed, Dst
        <3>4. Reaches(call[w], d)
            BY <3>1, <3>2, <3>3
        <3> QED  BY <1>1, <2>2, <3>2, <3>4, ReachAppend
    <2>5. /\ e.src = Top(w).src /\ e.dst = Top(w).dst
          /\ e.src_entry = a /\ e.dst_entry = b
        BY <1>1 DEF Frames
    <2>6. /\ fn'[w] = "dpl_namei" /\ pc'[w] = "entry_namei"
          /\ arg'[w] = [path |-> p, to |-> NULL]
        BY <2>1 DEF Request, Begin, ShapeInv, RetryTypeOK
    <2> HIDE DEF a, b, d, e, p, q
    <2>7. /\ p # NULL /\ q # NULL /\ arg'[w] \in [path : String, to : String]
          /\ arg'[w].path # NULL /\ Reaches(call[w], arg'[w].path)
        BY <2>2, <2>4, <2>6 DEF String
    <2>8. \A x \in Address : strings'[w][x] = IF x = b THEN q ELSE IF x = a THEN p
                                              ELSE strings[w][x]
        <3>1. strings \in [Worker -> [Address -> String]]
            BY DEF ShapeInv
        <3> QED  BY <2>2, <2>3, <3>1
    <2>9. /\ strings'[w][OLDPATH] = strings[w][OLDPATH]
          /\ strings'[w][NEWPATH] = strings[w][NEWPATH]
          /\ \A x \in Address : strings[w][x] # NULL => strings'[w][x] # NULL
          /\ \A x \in Address : strings'[w][x] # NULL => Reaches(call[w], strings'[w][x])
        BY <1>4, <2>3, <2>4, <2>7, <2>8, OwnAddresses
    <2>10. \A x \in {e.src, e.dst, e.src_entry, e.dst_entry} : strings'[w][x] # NULL
        BY <1>2, <1>3, <2>3, <2>5, <2>9, <2>8, <2>7 DEF Printed
    <2> QED
        BY <1>0, <1>1, <2>1, <2>2, <2>6, <2>7, <2>9, <2>10, TopOwn DEF RenamePc
<1> QED  BY <1>5, <1>6

(* The call has been answered.                                             *)
LEMMA ReplyOwn ==
    ASSUME ShapeInv, NEW w \in Worker, Own(w), Reply(w)
    PROVE  Own(w)'
<1>1. /\ call[w] # NULL /\ pc[w] = "return" /\ call'[w] = NULL /\ pc'[w] = NULL
      /\ UNCHANGED <<fn, rc, stack, strings>>
    BY DEF Reply, ShapeInv, retryVars, ring
<1>2. fn[w] = NULL /\ rc[w] = NULL /\ stack[w] = << >>
    BY <1>1 DEF Own, ServeInv, Serving
<1>3. ServeInv(w)'
    BY <1>1, <1>2 DEF ServeInv, Serving
<1>4. ReachInv(w)'
    BY <1>1, <1>2 DEF Own, ReachInv
<1> QED  BY <1>3, <1>4 DEF Own

(* Every step of a handler keeps its own invariant. *)
LEMMA HandlerOwn ==
    ASSUME ShapeInv, NEW w \in Worker, Own(w), Handler(w)
    PROVE  Own(w)'
BY SimpleOwn, FileOwn, UnlinkOwn, DirectoryOwn, ListOwn, EntryOwn, ReplyOwn DEF Handler

-----------------------------------------------------------------------------
(* The invariant that every later proof starts from.                       *)

BaseInv == ShapeInv /\ \A w \in Worker : Own(w)

(* What a step may be, for a worker v that it is not about.                *)
LEMMA Steps ==
    ASSUME BaseInv, [Next]_vars, NEW v \in Worker
    PROVE  \/ Call(v) \/ Attempt(v) \/ Handler(v)
           \/ /\ Unmoved(v)
              /\ \/ \E w \in Worker \ {v} : Call(w) \/ Attempt(w) \/ Handler(w)
                 \/ \E p \in Cacheable : Cached(p)
                 \/ UNCHANGED vars
<1>1. CASE \E w \in Worker : Call(w) \/ Attempt(w) \/ Handler(w)
    BY <1>1, CallOthers, AttemptOthers, HandlerOthers DEF BaseInv
<1>2. CASE \E p \in Cacheable : Cached(p)
    BY <1>2 DEF Cached, Unmoved, self, retryVars, ring
<1>3. CASE UNCHANGED vars
    BY <1>3 DEF vars, Unmoved, self, retryVars, ring
<1> QED  BY <1>1, <1>2, <1>3 DEF Next

(* The initial states are in the invariant. *)
LEMMA BaseInit == Init => BaseInv
<1> SUFFICES ASSUME Init PROVE BaseInv
    OBVIOUS
<1>1. 0 \in 0..MaxRetry /\ 0 \in 0..TMPSTR_NB - 1 /\ 0 \in -1..1
    OBVIOUS
<1>2. << >> \in Seq(Frames) /\ NULL \in String
    BY DEF String
<1>3. ShapeInv
    BY <1>1, <1>2 DEF Init, RetryInit, ShapeInv, RetryTypeOK, Kinds
<1>4. ASSUME NEW w \in Worker PROVE Own(w)
    BY DEF Init, RetryInit, Own, ServeInv, ReachInv, Serving
<1> QED  BY <1>3, <1>4 DEF BaseInv

(* Every step keeps the invariant: a worker keeps its own part, and leaves the
   others' alone. *)
LEMMA BaseStep ==
    ASSUME BaseInv, [Next]_vars PROVE BaseInv'
<1>1. ShapeInv'
    <2>1. ASSUME NEW w \in Worker, Call(w) PROVE ShapeInv'
        BY <2>1, CallTypes DEF BaseInv
    <2>2. ASSUME NEW w \in Worker, Attempt(w) PROVE ShapeInv'
        BY <2>2, AttemptTypes DEF BaseInv, Own
    <2>3. ASSUME NEW w \in Worker, Handler(w) PROVE ShapeInv'
        BY <2>3, HandlerTypes DEF BaseInv, Own
    <2>4. ASSUME NEW p \in Cacheable, Cached(p) PROVE ShapeInv'
        BY <2>4, CachedTypes DEF BaseInv
    <2>5. CASE UNCHANGED vars
        BY <2>5 DEF BaseInv, ShapeInv, RetryTypeOK, vars, retryVars, tree, cache, self, ring
    <2> QED  BY <2>1, <2>2, <2>3, <2>4, <2>5 DEF Next
<1>2. ASSUME NEW v \in Worker PROVE Own(v)'
    <2>1. ShapeInv /\ Own(v)
        BY DEF BaseInv
    <2>2. CASE Call(v)     BY <2>1, <2>2, CallOwn
    <2>3. CASE Attempt(v)  BY <2>1, <2>3, AttemptOwn
    <2>4. CASE Handler(v)  BY <2>1, <2>4, HandlerOwn
    <2>5. CASE Unmoved(v)  BY <2>1, <2>5, OwnOthers
    <2> QED  BY <2>2, <2>3, <2>4, <2>5, Steps
<1> QED  BY <1>1, <1>2 DEF BaseInv

(* Every reachable state has the types above, and every worker follows its *)
(* handler.                                                                *)
LEMMA Base == Spec => []BaseInv
BY BaseInit, BaseStep, PTL DEF Spec

(* TypeOK: the state has its types, a worker has frames exactly while it   *)
(* serves a rename, and the rename's own two paths, which are FUSE's, stay *)
(* what the application asked for, however the ring is used.               *)
THEOREM TypeCorrect == Spec => []TypeOK
<1>1. ASSUME BaseInv PROVE TypeOK
    <2>1. ShapeInv /\ \A w \in Worker : Own(w)
        BY <1>1 DEF BaseInv
    <2>2. ASSUME NEW w \in Worker
          PROVE  /\ \A i \in DOMAIN stack[w] : FrameOK(stack[w][i])
                 /\ current[w] \in 0..TMPSTR_NB - 1
                 /\ stack[w] # << >> => /\ strings[w][OLDPATH] = call[w].path
                                        /\ strings[w][NEWPATH] = call[w].to
                 /\ (stack[w] # << >>) <=> /\ call[w] # NULL /\ call[w].op = "rename"
                                           /\ pc[w] # "return"
        <3>1. stack[w] \in Seq(Frames) /\ current[w] \in 0..TMPSTR_NB - 1
            BY <2>1 DEF ShapeInv
        <3>2. \A f \in Frames : FrameOK(f)
            BY DEF Frames, FrameOK
        <3>3. \A i \in DOMAIN stack[w] : stack[w][i] \in Frames
            BY <3>1
        <3>4. ServeInv(w) /\ ReachInv(w)
            BY <2>1 DEF Own
        <3> QED  BY <3>1, <3>2, <3>3, <3>4 DEF ServeInv, ReachInv, Serving
    <2>3. /\ RetryTypeOK
          /\ remote \in [Path -> Kinds] /\ dropped \subseteq Data
          /\ hash \subseteq Path /\ local \subseteq Path /\ opened \subseteq Path
          /\ cwd \in Path /\ call \in [Worker -> Calls \cup {NULL}]
          /\ ret \in [Worker -> -1..1]
        BY <2>1 DEF ShapeInv
    <2> QED  BY <2>2, <2>3 DEF TypeOK
<1> QED  BY <1>1, Base, PTL

-----------------------------------------------------------------------------
(* What libfuse and the kernel let run together, and who changes the store. *)

(* A handler sends requests and does not change the store itself; its call *)
(* is over when it has been answered.                                      *)
LEMMA HandlerKeeps ==
    ASSUME NEW w \in Worker, Handler(w)
    PROVE  UNCHANGED tree /\ (call' = call \/ call' = [call EXCEPT ![w] = NULL])
<1> USE DEF Return, Leave
<1>1. CASE Reply(w)  BY <1>1 DEF Reply
<1>2. CASE unlink_done(w)  BY <1>2 DEF unlink_done
<1>3. CASE rename_dispatch(w) \/ rename_unlink(w)
    BY <1>3 DEF rename_dispatch, rename_unlink
<1>4. CASE dir_mkdir(w) \/ dir_chdir(w) \/ dir_opendir(w) \/ dir_list(w)
    BY <1>4 DEF dir_mkdir, dir_chdir, dir_opendir, dir_list
<1>5. CASE entry_namei(w) \/ entry_rename(w) \/ dir_rmdir(w) \/ dir_done(w)
    BY <1>5 DEF entry_namei, entry_rename, dir_rmdir, dir_done
<1>6. CASE mkdir_done(w) \/ mknod_done(w) \/ rmdir_done(w)
    BY <1>6 DEF mkdir_done, mknod_done, rmdir_done
<1>7. CASE symlink_setattr(w) \/ symlink_done(w) \/ readlink_done(w)
    BY <1>7 DEF symlink_setattr, symlink_done, readlink_done
<1>8. CASE opendir_done(w) \/ readdir_opendir(w) \/ readdir_done(w)
    BY <1>8 DEF opendir_done, readdir_opendir, readdir_done
<1> QED  BY <1>1, <1>2, <1>3, <1>4, <1>5, <1>6, <1>7, <1>8 DEF Handler

(* Calls begin with the locks they need, and end.                          *)
LEMMA CallSteps ==
    ASSUME BaseInv, [Next]_vars
    PROVE  \/ call' = call
           \/ \E w \in Worker : call' = [call EXCEPT ![w] = NULL]
           \/ \E w \in Worker, c \in Calls : ~Busy(c) /\ call' = [call EXCEPT ![w] = c]
<1>1. ASSUME NEW w \in Worker, Call(w)
      PROVE  \E c \in Calls : ~Busy(c) /\ call' = [call EXCEPT ![w] = c]
    BY <1>1
    DEF Call, dfs_mkdir, dfs_mknod, dfs_rmdir, dfs_symlink, dfs_readlink, dfs_opendir,
        dfs_readdir, readdir_no_cell, dfs_unlink, dfs_rename, EnterWith, Enter
<1>2. ASSUME NEW w \in Worker, Attempt(w) PROVE call' = call
    BY <1>2 DEF Attempt
<1>3. ASSUME NEW w \in Worker, Handler(w)
      PROVE  call' = call \/ call' = [call EXCEPT ![w] = NULL]
    BY <1>3, HandlerKeeps
<1>4. ASSUME NEW p \in Cacheable, Cached(p) PROVE call' = call
    BY <1>4 DEF Cached, self
<1>5. CASE UNCHANGED vars
    BY <1>5 DEF vars, self
<1> QED  BY <1>1, <1>2, <1>3, <1>4, <1>5 DEF Next

(* Every step keeps LocksInv: the kernel never runs two changes of overlapping
   subtrees, or of one directory, at once. *)
LEMMA LocksStep ==
    ASSUME BaseInv, LocksInv, [Next]_vars PROVE LocksInv'
<1>0. call \in [Worker -> Calls \cup {NULL}]
    BY DEF BaseInv, ShapeInv
<1>1. CASE call' = call
    BY <1>1 DEF LocksInv
<1>2. ASSUME NEW w \in Worker, call' = [call EXCEPT ![w] = NULL] PROVE LocksInv'
    BY <1>0, <1>2 DEF LocksInv
<1>3. ASSUME NEW w \in Worker, NEW c \in Calls, ~Busy(c), call' = [call EXCEPT ![w] = c]
      PROVE  LocksInv'
    <2>1. \A v \in Worker : call[v] # NULL => ~Blocks(c, call[v]) /\ ~Blocks(call[v], c)
        BY <1>3 DEF Busy
    <2>2. \A v \in Worker : call'[v] = IF v = w THEN c ELSE call[v]
        BY <1>0, <1>3
    <2> QED  BY <2>1, <2>2 DEF LocksInv
<1> QED  BY <1>1, <1>2, <1>3, CallSteps

(* Only a request changes the store.                                       *)
LEMMA CallKeeps ==
    ASSUME NEW w \in Worker, Call(w) PROVE UNCHANGED tree
BY DEF Call, dfs_mkdir, dfs_mknod, dfs_rmdir, dfs_symlink, dfs_readlink, dfs_opendir,
       dfs_readdir, readdir_no_cell, dfs_unlink, dfs_rename, EnterWith

(* A request changes one path of the store, one its call may touch.        *)
Changers == {"unlink", "rmdir", "mkdir", "mknod", "symlink", "rename"}

(* An attempt changes the tree at one path at most, which the request it serves
   touches. *)
LEMMA Changes ==
    ASSUME BaseInv, NEW v \in Worker, Attempt(v)
    PROVE  \/ UNCHANGED tree
           \/ \E r \in Path, k \in Kinds :
                /\ remote' = [remote EXCEPT ![r] = k]
                /\ Serving(v) /\ call[v] \in Calls /\ call[v].op \in Changers
                /\ Touches(call[v], r)
<1>0. ShapeInv /\ ServeInv(v) /\ ReachInv(v)
    BY DEF BaseInv, Own
<1>1. call[v] # NULL /\ rc[v] = NULL /\ fn[v] # NULL
    BY DEF Attempt, Answer
<1>2. /\ Serving(v) /\ call[v] \in Calls /\ <<call[v].op, pc[v]>> \in Stage
      /\ pc[v] # "loop" /\ <<pc[v], fn[v]>> \in RequestAt
      /\ arg[v] \in [path : String, to : String]
    BY <1>0, <1>1 DEF ServeInv, Serving, ShapeInv
<1> DEFINE f == fn[v]
           p == Resolve(arg[v].path)
           q == arg[v].to
<1>3. CASE UNCHANGED tree
    BY <1>3
<1>4. CASE StatusOf(f, p, q) = "DPL_SUCCESS" /\ remote' = Effect(f, p, q)
    <2>1. CASE f \notin {"dpl_mknod", "dpl_mkdir", "dpl_unlink", "dpl_rmdir", "dpl_fcopy",
                         "dpl_setattr"}
        <3>1. remote' = remote
            BY <1>4, <2>1 DEF Effect
        <3>2. dropped' = dropped \/ dropped' = dropped \cup (Data \cap Drops(v, f, p, q))
            BY DEF Attempt, tree
        <3>3. Drops(v, f, p, q) = {}
            BY <2>1 DEF Drops
        <3> QED  BY <3>1, <3>2, <3>3 DEF tree
    <2>2. CASE f \in {"dpl_mknod", "dpl_mkdir", "dpl_unlink", "dpl_rmdir", "dpl_fcopy",
                      "dpl_setattr"}
        <3>1. pc[v] \in {"mkdir", "mknod", "rmdir", "symlink_mknod", "symlink_setattr",
                         "unlink", "dir_mkdir", "fcopy", "dir_rmdir"}
            BY <1>2, <2>2 DEF RequestAt
        <3>2. call[v].op \in Changers
            BY <1>2, <3>1 DEF Stage, Changers
        <3>3. /\ arg[v].path # NULL /\ Reaches(call[v], arg[v].path)
              /\ pc[v] = "fcopy" => arg[v].to # NULL /\ Reaches(call[v], arg[v].to)
            <4>1. CASE call[v].op = "rename"
                BY <1>0, <1>2, <3>1, <4>1 DEF ServeInv, ReachInv
            <4>2. CASE call[v].op # "rename"
                <5>1. arg[v].path = call[v].path /\ pc[v] # "fcopy"
                    BY <1>0, <1>2, <3>1, <4>2
                    DEF ServeInv, Stage, RenamePc, BelowPc
                <5>2. call[v].path \in Seq(Name)
                    BY <1>2
                <5> QED  BY <4>2, <5>1, <5>2 DEF Reaches, Touches
            <4> QED  BY <4>1, <4>2
        <3>4. p = arg[v].path /\ Reaches(call[v], p)
            BY <3>3 DEF Resolve
        <3>5. ASSUME NEW r \in Path, Reaches(call[v], r) PROVE Touches(call[v], r)
            BY <3>5 DEF Reaches
        <3>6. CASE f = "dpl_fcopy"
            <4>1. pc[v] = "fcopy"
                BY <1>2, <3>6 DEF RequestAt
            <4>2. q \in Path /\ remote[p] \in Kinds
                BY <1>0, <1>4, <3>6 DEF StatusOf, There, HasParent, ShapeInv
            <4>3. remote' = [remote EXCEPT ![q] = remote[p]]
                BY <1>4, <3>6 DEF Effect
            <4> QED  BY <1>2, <3>2, <3>3, <3>5, <4>1, <4>2, <4>3
        <3>7. CASE f # "dpl_fcopy"
            <4>1. p \in Path
                BY <1>4, <2>2, <3>7 DEF StatusOf, There, HasParent
            <4>2. \E k \in Kinds : remote' = [remote EXCEPT ![p] = k]
                BY <1>4, <2>2, <3>7 DEF Effect, Kinds
            <4> QED  BY <1>2, <3>2, <3>4, <3>5, <4>1, <4>2
        <3> QED  BY <3>6, <3>7
    <2> QED  BY <2>1, <2>2
<1> QED  BY <1>3, <1>4 DEF Attempt, tree

(* A call that removes or moves is alone with what is below its paths.     *)
LEMMA Apart ==
    ASSUME BaseInv, LocksInv, NEW v \in Worker, NEW w \in Worker, v # w,
           call[v] # NULL, call[w] # NULL, call[v].op \in {"unlink", "rmdir", "rename"},
           NEW r \in Seq(Name), Touches(call[v], r), NEW x \in Paths(call[w]), x \in Seq(Name)
    PROVE  ~Under(r, x)
<1>1. call[v] \in Calls
    BY DEF BaseInv, ShapeInv
<1>2. call[v].path \in Seq(Name) /\ call[v].to \in Seq(Name)
    BY <1>1
<1>3. \A y \in Alone(call[v]) : ~Under(y, x)
    BY DEF LocksInv, Blocks
<1>4. \E y \in Alone(call[v]) : y \in Seq(Name) /\ Under(y, r)
    BY <1>2, UnderRefl DEF Touches, Alone, Paths
<1> QED  BY <1>3, <1>4, UnderTrans

-----------------------------------------------------------------------------
(* mkdir, mknod and symlink.                                               *)

Making == \A w \in Worker : MakingInv(w)
Makers == {"mkdir", "mknod", "symlink"}

(* Nobody else touches a path that is being made, or removes its directory. *)
LEMMA MakingAlone ==
    ASSUME BaseInv, LocksInv, Making, NEW v \in Worker, NEW w \in Worker, v # w,
           call[w] # NULL, call[w].op \in Makers,
           NEW r \in Path, NEW k \in Kinds, Attempt(v), remote' = [remote EXCEPT ![r] = k],
           call[v] # NULL, call[v] \in Calls, call[v].op \in Changers, Touches(call[v], r)
    PROVE  r # call[w].path /\ HasParent(call[w].path)'
<1> DEFINE p == call[w].path
<1>1. /\ call[w] \in Calls /\ p \in Path /\ p \in Seq(Name) /\ p # << >>
      /\ Front(p) \in Path /\ remote[Front(p)] = "dir" /\ p \in Paths(call[w])
    <2>1. call[w] \in Calls /\ p \in Path
        BY DEF BaseInv, ShapeInv
    <2>2. HasParent(p)
        BY DEF Making, MakingInv, Makers
    <2> QED  BY <2>1, <2>2 DEF HasParent, IsDir, Paths, Makers
<1>2. Front(p) \in Seq(Name) /\ Under(Front(p), p) /\ Under(p, p)
    BY <1>1, UnderFront, UnderRefl
<1>3. remote \in [Path -> Kinds] /\ r \in Seq(Name) /\ call' = call
    BY DEF BaseInv, ShapeInv, Attempt
<1>4. CASE call[v].op \in {"unlink", "rmdir", "rename"}
    <2>1. ~Under(r, p)
        BY <1>1, <1>3, <1>4, Apart
    <2>2. r # p /\ r # Front(p)
        BY <1>2, <2>1
    <2> QED  BY <1>1, <1>3, <2>2 DEF HasParent, IsDir
<1>5. CASE call[v].op \in Makers
    <2>1. r = call[v].path
        BY <1>5 DEF Touches, Makers
    <2>2. HasParent(r) /\ r # << >>
        BY <1>5, <2>1 DEF Making, MakingInv, Makers, HasParent
    <2>3. Front(r) # Front(p)
        <3>1. Held(call[v]) = {Front(r)} /\ Held(call[w]) = {Front(p)}
            BY <1>5, <2>1 DEF Held, Makers, Paths
        <3> QED  BY <3>1 DEF LocksInv, Blocks
    <2>4. CASE r # Front(p)
        BY <1>1, <1>3, <2>3, <2>4 DEF HasParent, IsDir
    <2>5. CASE r = Front(p)
        <3>1. MakingInv(v) /\ remote[r] = "dir"
            BY <1>1, <2>5 DEF Making
        <3>2. call[v].op = "mkdir"
            BY <1>5, <2>1, <3>1 DEF MakingInv, Makers
        <3>3. fn[v] = "dpl_mkdir"
            <4>1. fn[v] # NULL /\ rc[v] = NULL
                BY DEF Attempt, Answer
            <4>2. /\ <<call[v].op, pc[v]>> \in Stage /\ pc[v] # "loop"
                  /\ <<pc[v], fn[v]>> \in RequestAt
                BY <4>1 DEF BaseInv, Own, ServeInv, Serving
            <4>3. pc[v] = "mkdir"
                BY <3>2, <4>2 DEF Stage
            <4> QED  BY <4>2, <4>3 DEF RequestAt
        <3>4. remote' = remote \/ \E x : remote' = [remote EXCEPT ![x] = "dir"]
            BY <3>3 DEF Attempt, Effect, tree
        <3>5. remote'[Front(p)] = "dir"
            BY <1>1, <1>3, <3>4
        <3>6. r # p
            BY <2>3
        <3>7. HasParent(p)'
            BY <1>1, <1>3, <3>5 DEF HasParent, IsDir
        <3> QED  BY <3>6, <3>7
    <2> QED  BY <2>4, <2>5
<1> QED  BY <1>4, <1>5 DEF Changers, Makers

(* The steps of other workers.                                             *)
LEMMA MakingOthers ==
    ASSUME BaseInv, LocksInv, Making, NEW w \in Worker, Unmoved(w),
           \/ UNCHANGED remote
           \/ \E v \in Worker \ {w} : Attempt(v)
    PROVE  MakingInv(w)'
<1>1. MakingInv(w)
    BY DEF Making
<1>2. CASE UNCHANGED remote
    BY <1>1, <1>2 DEF Unmoved, MakingInv, HasParent, IsDir
<1>3. CASE ~UNCHANGED remote /\ \E v \in Worker \ {w} : Attempt(v)
    <2>1. PICK v \in Worker \ {w} : Attempt(v)
        BY <1>3
    <2>2. PICK r \in Path, k \in Kinds :
              /\ remote' = [remote EXCEPT ![r] = k]
              /\ Serving(v) /\ call[v] \in Calls /\ call[v].op \in Changers
              /\ Touches(call[v], r)
        BY <1>3, <2>1, Changes DEF tree
    <2>3. CASE call[w] # NULL /\ call[w].op \in Makers
        <3>1. r # call[w].path /\ HasParent(call[w].path)'
            BY <2>1, <2>2, <2>3, MakingAlone DEF Serving
        <3>2. remote'[call[w].path] = remote[call[w].path]
            BY <2>2, <3>1 DEF BaseInv, ShapeInv
        <3> QED  BY <1>1, <2>3, <3>1, <3>2 DEF Unmoved, MakingInv, Makers
    <2>4. CASE ~(call[w] # NULL /\ call[w].op \in Makers)
        BY <2>4 DEF Unmoved, MakingInv, Makers
    <2> QED  BY <2>3, <2>4
<1> QED  BY <1>2, <1>3

(* What the kernel has checked.                                            *)
LEMMA MakingEnter ==
    ASSUME BaseInv, NEW w \in Worker, Call(w) PROVE MakingInv(w)'
<1>1. call \in [Worker -> Calls \cup {NULL}] /\ pc \in [Worker -> Pc \cup {NULL}]
      /\ rc \in [Worker -> Status \cup {NULL}] /\ "DPL_SUCCESS" # NULL /\ "DPL_ENOENT" # NULL
    BY DEF BaseInv, ShapeInv, RetryTypeOK, Status
<1>2. PICK c \in Calls : Allowed(c) /\ call' = [call EXCEPT ![w] = c]
    BY DEF Call, dfs_mkdir, dfs_mknod, dfs_rmdir, dfs_symlink, dfs_readlink, dfs_opendir,
           dfs_readdir, readdir_no_cell, dfs_unlink, dfs_rename, EnterWith, Enter
<1>3. call'[w] = c /\ remote' = remote
    BY <1>1, <1>2, CallKeeps DEF tree
<1>4. CASE c.op \in Makers
    <2>1. remote[c.path] = "absent" /\ HasParent(c.path)
        BY <1>4 , <1>2 DEF Allowed, Makers, There
    <2>2. HasParent(c.path)'
        BY <1>3, <2>1 DEF HasParent, IsDir
    <2>3. dfs_mkdir(w) \/ dfs_mknod(w) \/ dfs_symlink(w)
        BY <1>3, <1>4, <1>1
        DEF Call, dfs_mkdir, dfs_mknod, dfs_rmdir, dfs_symlink, dfs_readlink, dfs_opendir,
            dfs_readdir, readdir_no_cell, dfs_unlink, dfs_rename, EnterWith, Enter, Makers
    <2>4. rc'[w] = NULL /\ pc'[w] \in {"mkdir", "mknod", "symlink_mknod"}
        BY <1>1, <2>3 DEF dfs_mkdir, dfs_mknod, dfs_symlink, EnterWith, Request, Begin
    <2> QED  BY <1>1, <1>3, <2>1, <2>2, <2>4 DEF MakingInv
<1>5. CASE c.op \notin Makers
    BY <1>3, <1>5 DEF MakingInv, Makers
<1> QED  BY <1>4, <1>5

(* A request of the call itself.                                           *)
LEMMA MakingAttempt ==
    ASSUME BaseInv, Making, NEW w \in Worker, Attempt(w) PROVE MakingInv(w)'
<1>1. /\ call' = call /\ pc' = pc /\ ret' = ret /\ call[w] # NULL /\ rc[w] = NULL
      /\ fn[w] # NULL
    BY DEF Attempt, Answer
<1>2. CASE call[w].op \notin Makers
    BY <1>1, <1>2 DEF MakingInv, Makers
<1>3. CASE call[w].op \in Makers
    <2> DEFINE p == call[w].path
    <2>1. /\ ServeInv(w) /\ MakingInv(w) /\ remote \in [Path -> Kinds]
          /\ rc \in [Worker -> Status \cup {NULL}] /\ p \in Path /\ p # NULL
        BY <1>1 DEF BaseInv, Own, Making, ShapeInv, RetryTypeOK
    <2>2. /\ <<call[w].op, pc[w]>> \in Stage /\ pc[w] \notin {"loop", "return"}
          /\ <<pc[w], fn[w]>> \in RequestAt
        BY <1>1, <2>1 DEF ServeInv, Serving
    <2>3. arg[w].path = p /\ Resolve(arg[w].path) = p
        <3>1. pc[w] # "readdir_opendir"
            BY <1>3, <2>2 DEF Stage, Makers
        <3> QED  BY <1>1, <1>3, <2>1, <2>2, <3>1 DEF ServeInv, Serving, Resolve, Makers
    <2>4. HasParent(p) /\ remote[Front(p)] = "dir" /\ Front(p) # p /\ p # << >>
        <3>1. HasParent(p)
            BY <1>1, <1>3, <2>1 DEF MakingInv, Makers
        <3>2. Front(p) # p
            BY <2>1, <3>1, UnderFront DEF HasParent
        <3> QED  BY <3>1, <3>2 DEF HasParent, IsDir
    <2> DEFINE s == StatusOf(fn[w], p, arg[w].to)
    <2>5. \/ rc'[w] = s /\ remote' = (IF s = "DPL_SUCCESS" THEN Effect(fn[w], p, arg[w].to)
                                      ELSE remote)
          \/ /\ rc'[w] \in {NULL, "DPL_EIO"}
             /\ \/ remote' = remote
                \/ s = "DPL_SUCCESS" /\ remote' = Effect(fn[w], p, arg[w].to)
          \/ /\ rc'[w] = NULL
             /\ s # "DPL_SUCCESS" /\ remote' = remote
        <3>1. \A x : Answer(w, x) => rc'[w] \in {x, NULL}
            BY <1>1, <2>1 DEF Answer, ERR_TIMEOUT
        <3>2. \A x : Answer(w, x) /\ rc'[w] # x => rc'[w] = NULL
            BY <3>1
        <3> QED  BY <2>3, <3>1, <3>2 DEF Attempt, tree
    <2>6. CASE call[w].op = "mkdir"
        <3>1. pc[w] = "mkdir" /\ fn[w] = "dpl_mkdir"
            <4>1. pc[w] = "mkdir"
                BY <2>2, <2>6 DEF Stage
            <4> QED  BY <2>2, <4>1 DEF RequestAt
        <3>2. remote[p] \in {"absent", "dir"}
            BY <1>1, <2>1, <2>6 DEF MakingInv
        <3>3. s = "DPL_SUCCESS"
            BY <2>1, <2>4, <3>1, <3>2 DEF StatusOf, There, IsDir
        <3>4. Effect(fn[w], p, arg[w].to) = [remote EXCEPT ![p] = "dir"]
            BY <3>1 DEF Effect
        <3>5. remote'[p] \in {"absent", "dir"} /\ rc'[w] \in {NULL, "DPL_EIO", "DPL_SUCCESS"}
              /\ (rc'[w] = "DPL_SUCCESS" => remote'[p] = "dir")
              /\ remote'[Front(p)] = "dir"
            BY <2>1, <2>4, <2>5, <3>2, <3>3, <3>4 DEF Status
        <3>6. HasParent(p)'
            BY <1>1, <2>4, <3>5 DEF HasParent, IsDir
        <3> QED  BY <1>1, <2>6, <3>1, <3>5, <3>6 DEF MakingInv, Status
    <2>7. CASE call[w].op = "mknod"
        <3>1. pc[w] = "mknod" /\ fn[w] = "dpl_mknod"
            <4>1. pc[w] = "mknod"
                BY <2>2, <2>7 DEF Stage
            <4> QED  BY <2>2, <4>1 DEF RequestAt
        <3>2. remote[p] \in {"absent", "empty"}
            BY <1>1, <2>1, <2>7 DEF MakingInv
        <3>3. s = "DPL_SUCCESS"
            BY <2>1, <2>4, <3>1, <3>2 DEF StatusOf, There, IsDir
        <3>4. Effect(fn[w], p, arg[w].to) = [remote EXCEPT ![p] = "empty"]
            BY <3>1 DEF Effect
        <3>5. remote'[p] \in {"absent", "empty"}
              /\ (rc'[w] = "DPL_SUCCESS" => remote'[p] = "empty")
              /\ remote'[Front(p)] = "dir"
            BY <2>1, <2>4, <2>5, <3>2, <3>3, <3>4 DEF Status
        <3>6. HasParent(p)'
            BY <1>1, <2>4, <3>5 DEF HasParent, IsDir
        <3> QED  BY <1>1, <2>7, <3>1, <3>5, <3>6 DEF MakingInv
    <2>8. CASE call[w].op = "symlink"
        <3>0. remote[p] \in {"absent", "empty", "symlink"}
            BY <1>1, <2>1, <2>8 DEF MakingInv
        <3>1. CASE pc[w] = "symlink_mknod"
            <4>1. fn[w] = "dpl_mknod"
                BY <2>2, <3>1 DEF RequestAt
            <4>2. s = "DPL_SUCCESS"
                BY <2>1, <2>4, <3>0, <4>1 DEF StatusOf, There, IsDir
            <4>3. Effect(fn[w], p, arg[w].to) = [remote EXCEPT ![p] = "empty"]
                BY <4>1 DEF Effect
            <4>4. remote'[p] \in {"absent", "empty", "symlink"}
                  /\ (rc'[w] = "DPL_SUCCESS" => remote'[p] = "empty")
                  /\ remote'[Front(p)] = "dir"
                BY <2>1, <2>4, <2>5, <3>0, <4>2, <4>3 DEF Status
            <4>5. HasParent(p)'
                BY <1>1, <2>4, <4>4 DEF HasParent, IsDir
            <4> QED  BY <1>1, <2>8, <3>1, <4>4, <4>5 DEF MakingInv
        <3>2. CASE pc[w] = "symlink_setattr"
            <4>1. fn[w] = "dpl_setattr"
                BY <2>2, <3>2 DEF RequestAt
            <4>2. remote[p] # "absent"
                BY <1>1, <2>1, <2>8, <3>2 DEF MakingInv
            <4>3. s = "DPL_SUCCESS"
                BY <2>1, <4>1, <4>2 DEF StatusOf, There
            <4>4. Effect(fn[w], p, arg[w].to) = [remote EXCEPT ![p] = "symlink"]
                BY <4>1 DEF Effect
            <4>5. remote'[p] \in {"empty", "symlink"}
                  /\ (rc'[w] = "DPL_SUCCESS" => remote'[p] = "symlink")
                  /\ remote'[Front(p)] = "dir"
                BY <2>1, <2>4, <2>5, <3>0, <4>2, <4>3, <4>4 DEF Status
            <4>6. HasParent(p)'
                BY <1>1, <2>4, <4>5 DEF HasParent, IsDir
            <4> QED  BY <1>1, <2>8, <3>2, <4>5, <4>6 DEF MakingInv
        <3> QED  BY <2>2, <2>8, <3>1, <3>2 DEF Stage
    <2> QED  BY <1>3, <2>6, <2>7, <2>8 DEF Makers
<1> QED  BY <1>2, <1>3

(* The step of a handler follows the pc of its worker.                     *)
LEMMA HandlerAt ==
    ASSUME BaseInv, NEW w \in Worker, Handler(w)
    PROVE  /\ call[w] # NULL
           /\ \/ Reply(w)
              \/ /\ Serving(w) /\ <<call[w].op, pc[w]>> \in Stage /\ rc[w] # NULL
                 /\ rc[w] \in Status
                 /\ \/ pc[w] = "mkdir" /\ mkdir_done(w)
                    \/ pc[w] = "mknod" /\ mknod_done(w)
                    \/ pc[w] = "rmdir" /\ rmdir_done(w)
                    \/ pc[w] = "symlink_mknod" /\ symlink_setattr(w)
                    \/ pc[w] = "symlink_setattr" /\ symlink_done(w)
                    \/ pc[w] = "readlink" /\ readlink_done(w)
                    \/ pc[w] = "opendir" /\ opendir_done(w)
                    \/ pc[w] = "readdir_chdir" /\ readdir_opendir(w)
                    \/ pc[w] = "readdir_opendir" /\ readdir_done(w)
                    \/ pc[w] = "unlink" /\ unlink_done(w)
                    \/ pc[w] \in RenamePc \ {"unlink"} /\ call[w].op = "rename"
<1>1. CASE Reply(w)
    BY <1>1 DEF Reply
<1>2. CASE ~Reply(w)
    <2>1. /\ call[w] # NULL /\ rc[w] # NULL /\ pc[w] \in Pc \ {"return"}
          /\ \/ pc[w] = "mkdir" /\ mkdir_done(w)
             \/ pc[w] = "mknod" /\ mknod_done(w)
             \/ pc[w] = "rmdir" /\ rmdir_done(w)
             \/ pc[w] = "symlink_mknod" /\ symlink_setattr(w)
             \/ pc[w] = "symlink_setattr" /\ symlink_done(w)
             \/ pc[w] = "readlink" /\ readlink_done(w)
             \/ pc[w] = "opendir" /\ opendir_done(w)
             \/ pc[w] = "readdir_chdir" /\ readdir_opendir(w)
             \/ pc[w] = "readdir_opendir" /\ readdir_done(w)
             \/ pc[w] = "unlink" /\ unlink_done(w)
             \/ pc[w] \in RenamePc \ {"unlink"}
        BY <1>2
        DEF Handler, Waiting, Pc, RenamePc, BelowPc, mkdir_done, mknod_done, rmdir_done,
            symlink_setattr, symlink_done, readlink_done, opendir_done, readdir_opendir,
            readdir_done, unlink_done, rename_dispatch, rename_unlink, dir_mkdir, dir_chdir,
            dir_opendir, dir_list, entry_namei, entry_rename, dir_rmdir, dir_done
    <2>2. Serving(w) /\ <<call[w].op, pc[w]>> \in Stage /\ rc[w] \in Status
        <3>1. Serving(w)
            BY <2>1 DEF Serving
        <3>2. rc \in [Worker -> Status \cup {NULL}] /\ ServeInv(w)
            BY DEF BaseInv, Own, ShapeInv, RetryTypeOK
        <3> QED  BY <2>1, <3>1, <3>2 DEF ServeInv
    <2>3. pc[w] \in RenamePc \ {"unlink"} => call[w].op = "rename"
        BY <2>2 DEF Stage, RenamePc, BelowPc
    <2> QED  BY <2>1, <2>2, <2>3
<1> QED  BY <1>1, <1>2

(* The call returns, or goes on to make a link of the object.              *)
LEMMA MakingHandler ==
    ASSUME BaseInv, Making, NEW w \in Worker, Handler(w) PROVE MakingInv(w)'
<1>0. remote' = remote
    BY HandlerKeeps DEF tree
<1>1. /\ call \in [Worker -> Calls \cup {NULL}] /\ pc \in [Worker -> Pc \cup {NULL}]
      /\ rc \in [Worker -> Status \cup {NULL}] /\ ret \in [Worker -> -1..1]
      /\ NULL \notin Status /\ "DPL_SUCCESS" # NULL
    BY DEF BaseInv, ShapeInv, RetryTypeOK, Status
<1>2. CASE Reply(w)
    BY <1>1, <1>2 DEF Reply, MakingInv
<1>3. CASE ~Reply(w) /\ call[w].op \notin Makers
    BY <1>1, <1>3, HandlerKeeps DEF MakingInv, Makers
<1>4. CASE ~Reply(w) /\ call[w].op \in Makers
    <2> DEFINE p == call[w].path
    <2>1. call[w] # NULL /\ MakingInv(w) /\ HasParent(p)
        BY <1>4, HandlerAt DEF Making, MakingInv, Makers
    <2>2. HasParent(p) /\ remote' = remote => HasParent(p) /\ IsDir(Front(p))
        BY DEF HasParent
    <2>3. ASSUME NEW r \in -1..1, Return(w, r),
                 r = 0 => remote[p] = CASE call[w].op = "mkdir" -> "dir"
                                        [] call[w].op = "mknod" -> "empty"
                                        [] OTHER                -> "symlink"
          PROVE  MakingInv(w)'
        <3>1. call' = call /\ pc'[w] = "return" /\ ret'[w] = r /\ rc'[w] = NULL
            BY <1>1, <2>3 DEF Return, End
        <3>2. HasParent(p)'
            BY <1>0, <2>1, <3>1 DEF HasParent, IsDir
        <3>3. /\ call'[w] = call[w] /\ remote'[p] = remote[p]
            BY <1>0, <3>1
        <3> QED  BY <1>1, <2>1, <2>3, <3>1, <3>2, <3>3 DEF MakingInv
    <2>4. CASE pc[w] = "mkdir" /\ mkdir_done(w)
        <3>1. call[w].op = "mkdir"
            BY <1>4, <2>4, HandlerAt DEF Stage, RenamePc, BelowPc
        <3>2. Return(w, MkdirRet(rc[w]))
            BY <2>4 DEF mkdir_done
        <3>3. MkdirRet(rc[w]) = 0 => remote[p] = "dir"
            BY <2>1, <2>4, <3>1 DEF MkdirRet, MakingInv
        <3>4. MkdirRet(rc[w]) \in -1..1
            BY DEF MkdirRet
        <3> QED  BY <2>3, <3>1, <3>2, <3>3, <3>4
    <2>5. CASE pc[w] = "mknod" /\ mknod_done(w)
        <3>1. call[w].op = "mknod"
            BY <1>4, <2>5, HandlerAt DEF Stage, RenamePc, BelowPc
        <3>2. \E r \in {0, -1} : Return(w, r) /\ (r = 0 => Succeeded(w))
            BY <2>5 DEF mknod_done
        <3>3. Succeeded(w) => remote[p] = "empty"
            BY <2>1, <2>5, <3>1 DEF Succeeded, MakingInv
        <3> QED  BY <2>3, <3>1, <3>2, <3>3
    <2>6. CASE pc[w] = "symlink_mknod" /\ symlink_setattr(w)
        <3>1. call[w].op = "symlink"
            BY <1>4, <2>6, HandlerAt DEF Stage, RenamePc, BelowPc
        <3>2. CASE ~Succeeded(w)
            BY <2>3, <2>6, <3>2 DEF symlink_setattr
        <3>3. CASE Succeeded(w)
            <4>1. call' = call /\ pc'[w] = "symlink_setattr" /\ rc'[w] = NULL
                BY <1>1, <2>6, <3>3 DEF symlink_setattr, Request, Begin
            <4>2. HasParent(p)' /\ remote'[p] # "absent"
                  /\ remote'[p] \in {"absent", "empty", "symlink"}
                BY <1>0, <2>1, <2>6, <3>1, <3>3, <4>1
                DEF HasParent, IsDir, MakingInv, Succeeded
            <4> QED  BY <1>1, <3>1, <4>1, <4>2 DEF MakingInv
        <3> QED  BY <3>2, <3>3
    <2>7. CASE pc[w] = "symlink_setattr" /\ symlink_done(w)
        <3>1. call[w].op = "symlink"
            BY <1>4, <2>7, HandlerAt DEF Stage, RenamePc, BelowPc
        <3>2. \E r \in {0, -1} : Return(w, r) /\ (r = 0 => Succeeded(w))
            BY <2>7 DEF symlink_done
        <3>3. Succeeded(w) => remote[p] = "symlink"
            BY <2>1, <2>7, <3>1 DEF Succeeded, MakingInv
        <3> QED  BY <2>3, <3>1, <3>2, <3>3
    <2>8. <<call[w].op, pc[w]>> \in Stage
        BY <1>4, HandlerAt
    <2>9. pc[w] \in {"mkdir", "mknod", "symlink_mknod", "symlink_setattr"}
        BY <1>4, <2>8 DEF Stage, Makers
    <2> QED  BY <1>4, <2>4, <2>5, <2>6, <2>7, <2>9, HandlerAt DEF RenamePc, BelowPc
<1> QED  BY <1>2, <1>3, <1>4

(* Locks, and what is being made.                                          *)
MadeInv == BaseInv /\ LocksInv /\ Making

(* Nothing is reported made in an initial state. *)
LEMMA MadeInit == Init => MadeInv
<1> SUFFICES ASSUME Init PROVE MadeInv
    OBVIOUS
<1>1. LocksInv /\ Making
    BY DEF Init, LocksInv, Making, MakingInv
<1> QED  BY <1>1, BaseInit DEF MadeInv

(* Every step keeps MadeInv: what a request is about to report made is there. *)
LEMMA MadeStep ==
    ASSUME MadeInv, [Next]_vars PROVE MadeInv'
<1>1. BaseInv' /\ LocksInv'
    BY BaseStep, LocksStep DEF MadeInv
<1>2. ASSUME NEW w \in Worker PROVE MakingInv(w)'
    <2>1. BaseInv /\ LocksInv /\ Making
        BY DEF MadeInv
    <2>2. CASE Call(w)     BY <2>1, <2>2, MakingEnter
    <2>3. CASE Attempt(w)  BY <2>1, <2>3, MakingAttempt
    <2>4. CASE Handler(w)  BY <2>1, <2>4, MakingHandler
    <2>5. CASE /\ Unmoved(w)
               /\ \/ \E v \in Worker \ {w} : Call(v) \/ Attempt(v) \/ Handler(v)
                  \/ \E p \in Cacheable : Cached(p)
                  \/ UNCHANGED vars
        <3>1. UNCHANGED remote \/ \E v \in Worker \ {w} : Attempt(v)
            <4>1. \A v \in Worker : Call(v) \/ Handler(v) => UNCHANGED remote
                BY CallKeeps, HandlerKeeps DEF tree
            <4>2. \A p \in Cacheable : Cached(p) => UNCHANGED remote
                BY DEF Cached, tree
            <4> QED  BY <2>5, <4>1, <4>2 DEF vars, tree
        <3> QED  BY <2>1, <2>5, <3>1, MakingOthers
    <2> QED  BY <2>1, <2>2, <2>3, <2>4, <2>5, Steps
<1> QED  BY <1>1, <1>2 DEF MadeInv, Making

(* MadeInv holds in every reachable state. *)
LEMMA Made == Spec => []MadeInv
BY MadeInit, MadeStep, PTL DEF Spec

(* CreatedIsThere: mkdir, mknod and symlink that report success have made  *)
(* the object they were asked for, whatever requests were refused or had   *)
(* lost answers, and whatever the other workers did meanwhile.             *)
THEOREM MadeIsThere == Spec => []CreatedIsThere
<1>1. MadeInv => CreatedIsThere
    BY DEF MadeInv, Making, MakingInv, CreatedIsThere, Succeeds
<1> QED  BY <1>1, Made, PTL

-----------------------------------------------------------------------------
(* Renames copy before they remove.                                        *)

(* The path an object has after the rename of a directory above it.        *)
LEMMA MovedFacts ==
    ASSUME NEW s \in Seq(Name), NEW t \in Seq(Name), NEW p \in Seq(Name), Under(s, p)
    PROVE  Moved(p, s, t) \in Seq(Name) /\ Under(t, Moved(p, s, t))
<1>1. Len(s) \in Nat /\ Len(p) \in Nat /\ Len(s) <= Len(p)
    BY DEF Under, IsPrefix
<1>2. SubSeq(p, Len(s) + 1, Len(p)) \in Seq(Name)
    BY <1>1
<1>3. t \o SubSeq(p, Len(s) + 1, Len(p)) \in Seq(Name)
    BY <1>2, ConcatProperties
<1> QED  BY <1>2, <1>3, UnderConcat DEF Moved

(* A directory moves to where it is renamed to. *)
LEMMA MovedSelf ==
    ASSUME NEW s \in Seq(Name), NEW t \in Seq(Name)
    PROVE  Moved(s, s, t) = t
<1>1. Len(s) \in Nat /\ SubSeq(s, Len(s) + 1, Len(s)) = << >>
    OBVIOUS
<1> QED  BY <1>1 DEF Moved

(* An entry of a directory moves with it. *)
LEMMA MovedAppend ==
    ASSUME NEW s \in Seq(Name), NEW t \in Seq(Name), NEW p \in Seq(Name), Under(s, p),
           NEW n \in Name
    PROVE  Moved(Append(p, n), s, t) = Append(Moved(p, s, t), n)
<1> HIDE NamespaceAssumption, RetryAssumption
<1> DEFINE a == Append(p, n)
           u == SubSeq(p, Len(s) + 1, Len(p))
           v == SubSeq(a, Len(s) + 1, Len(a))
           x == Append(u, n)
<1>1. Len(s) \in Nat /\ Len(p) \in Nat /\ Len(s) <= Len(p)
    BY DEF Under, IsPrefix
<1>2. a \in Seq(Name) /\ Len(a) = Len(p) + 1
    OBVIOUS
<1>3. \A i \in 1..Len(p) : a[i] = p[i]
    OBVIOUS
<1>4. a[Len(p) + 1] = n
    OBVIOUS
<1>5. u \in Seq(Name) /\ Len(u) = Len(p) - Len(s)
    BY <1>1
<1>6. \A i \in 1..Len(u) : u[i] = p[Len(s) + i]
    BY <1>1
<1> HIDE DEF a, u
<1>7. v \in Seq(Name) /\ Len(v) = Len(a) - Len(s)
    BY <1>1, <1>2
<1>8. \A i \in 1..Len(v) : v[i] = a[Len(s) + i]
    BY <1>1, <1>2
<1>9. x \in Seq(Name) /\ Len(x) = Len(u) + 1
    <2>1. u \in Seq(Name) /\ n \in Name
        BY <1>5
    <2> QED  BY <2>1, AppendProperties
<1>10. \A i \in 1..Len(u) : x[i] = u[i]
    BY <1>5, AppendProperties
<1>11. x[Len(u) + 1] = n
    BY <1>5, AppendProperties
<1> HIDE DEF v, x
<1>12. v = x
    <2>1. ASSUME NEW i \in 1..Len(v) PROVE v[i] = x[i]
        <3>1. CASE i = Len(u) + 1
            <4>1. Len(s) + i = Len(p) + 1
                BY <1>1, <1>5, <3>1
            <4> QED  BY <1>4, <1>8, <1>11, <3>1, <4>1
        <3>2. CASE i # Len(u) + 1
            <4>1. Len(v) = Len(u) + 1 /\ Len(u) \in Nat
                BY <1>1, <1>2, <1>5, <1>7
            <4>2. i \in 1..Len(u)
                BY <3>2, <4>1
            <4>3. Len(s) + i \in 1..Len(p)
                BY <1>1, <1>5, <4>2
            <4> QED  BY <1>3, <1>6, <1>8, <1>10, <4>2, <4>3
        <3> QED  BY <3>1, <3>2
    <2>2. Len(v) = Len(x)
        BY <1>1, <1>2, <1>5, <1>7, <1>9
    <2> QED  BY <1>7, <1>9, <2>1, <2>2, SeqEqual
<1>13. t \o x = Append(t \o u, n)
    <2>1. t \o u \in Seq(Name)
        BY <1>5, ConcatProperties
    <2>2. x = u \o <<n>>
        BY <1>5, AppendIsConcat DEF x
    <2>3. Append(t \o u, n) = (t \o u) \o <<n>>
        BY <2>1, AppendIsConcat
    <2>4. <<n>> \in Seq(Name)
        OBVIOUS
    <2>5. (t \o u) \o <<n>> = t \o (u \o <<n>>)
        <3>1. u \in Seq(Name) /\ t \in Seq(Name)
            BY <1>5
        <3> QED  BY <2>4, <3>1, ConcatAssociative
    <2> QED  BY <2>2, <2>3, <2>5
<1> QED  BY <1>12, <1>13 DEF Moved, a, u, v

(* Nothing under the source of a rename to elsewhere moves to itself. *)
LEMMA MovedOther ==
    ASSUME NEW s \in Seq(Name), NEW t \in Seq(Name), NEW p \in Seq(Name), Under(s, p),
           ~Under(s, t), ~Under(t, s)
    PROVE  Moved(p, s, t) # p
BY MovedFacts, UnderChain

(* Nobody else changes what a rename may print.                            *)
LEMMA ApartRename ==
    ASSUME BaseInv, LocksInv, NEW v \in Worker, NEW w \in Worker, v # w,
           call[v] # NULL, call[w] # NULL, call[w].op = "rename",
           NEW r \in Seq(Name), Touches(call[v], r)
    PROVE  ~Touches(call[w], r)
<1>1. call[v] \in Calls /\ call[w] \in Calls
    BY DEF BaseInv, ShapeInv
<1>2. /\ call[v].path \in Seq(Name) /\ call[v].to \in Seq(Name)
      /\ call[w].path \in Seq(Name) /\ call[w].to \in Seq(Name)
    BY <1>1
<1>3. \A y \in {call[w].path, call[w].to} : \A x \in Paths(call[v]) : ~Under(y, x)
    BY DEF LocksInv, Blocks, Alone, Paths
<1>4. CASE call[v].op # "rename"
    BY <1>3, <1>4 DEF Touches, Paths
<1>5. CASE call[v].op = "rename"
    <2>1. \A y \in {call[w].path, call[w].to} : \A x \in {call[v].path, call[v].to} :
             ~Under(y, x) /\ ~Under(x, y)
        BY <1>3, <1>5 DEF LocksInv, Blocks, Alone, Paths
    <2> QED  BY <1>2, <1>5, <2>1, UnderChain DEF Touches
<1> QED  BY <1>4, <1>5

(* A rename stays with the frames it has, or some of them.                 *)
LEMMA CopiedPlain ==
    ASSUME NEW w \in Worker, CopiedInv(w), call' = call,
           pc'[w] \notin {"entry_namei", "fcopy", "unlink"},
           \A i \in DOMAIN stack'[w] :
               /\ i \in DOMAIN stack[w]
               /\ strings'[w][stack'[w][i].src] = strings[w][stack[w][i].src]
               /\ strings'[w][stack'[w][i].dst] = strings[w][stack[w][i].dst]
    PROVE  CopiedInv(w)'
BY DEF CopiedInv, Pair

(* Leaving the handler keeps what is known of the copies made. *)
LEMMA CopiedReturn ==
    ASSUME ShapeInv, NEW w \in Worker, CopiedInv(w), NEW r, Return(w, r)
    PROVE  CopiedInv(w)'
<1>1. call' = call /\ pc'[w] = "return" /\ stack'[w] = << >>
    BY DEF Return, ShapeInv
<1> QED  BY <1>1, CopiedPlain

(* Leaving a frame, or all of them, keeps what is known of the copies made. *)
LEMMA CopiedLeave ==
    ASSUME ShapeInv, NEW w \in Worker, CopiedInv(w), stack[w] # << >>,
           NEW s \in Seq(Frames), s # << >>,
           s = stack[w] \/ s = Front(stack[w]), NEW r, Leave(w, s, r)
    PROVE  CopiedInv(w)'
<1>1. CASE Len(s) = 1
    BY <1>1, CopiedReturn DEF Leave
<1>2. CASE Len(s) # 1
    <2> DEFINE t == [s EXCEPT ![Len(s)].ret = r]
    <2>1. stack' = [stack EXCEPT ![w] = t] /\ pc'[w] = "loop" /\ UNCHANGED <<call, strings>>
        BY <1>2 DEF Leave, ShapeInv, ring
    <2>2. stack'[w] = t
        <3> HIDE DEF t
        <3> QED  BY <2>1 DEF ShapeInv
    <2>3. Len(s) \in Nat /\ Len(s) > 1 /\ DOMAIN s = 1..Len(s)
        BY <1>2
    <2>4. \A i \in 1..Len(s) : s[i] = stack[w][i] /\ i \in DOMAIN stack[w]
        <3>1. stack[w] \in Seq(Frames) /\ stack[w] # << >>
            BY DEF ShapeInv
        <3>2. CASE s = stack[w]
            BY <2>3, <3>2
        <3>3. CASE s = Front(stack[w])
            BY <2>3, <3>1, <3>3 DEF Front
        <3> QED  BY <3>2, <3>3
    <2>5. /\ DOMAIN t = 1..Len(s)
          /\ \A i \in 1..Len(s) : t[i].src = s[i].src /\ t[i].dst = s[i].dst
        <3>1. DOMAIN t = 1..Len(s)
            BY <2>3
        <3>2. s[Len(s)] \in Frames
            BY FrameFacts
        <3>3. t[Len(s)] = [s[Len(s)] EXCEPT !.ret = r]
            BY <2>3
        <3>4. \A i \in 1..Len(s) : i # Len(s) => t[i] = s[i]
            BY <2>3
        <3> QED  BY <3>1, <3>2, <3>3, <3>4 DEF Frames
    <2> HIDE DEF t
    <2>6. \A i \in DOMAIN stack'[w] :
              /\ i \in DOMAIN stack[w]
              /\ strings'[w][stack'[w][i].src] = strings[w][stack[w][i].src]
              /\ strings'[w][stack'[w][i].dst] = strings[w][stack[w][i].dst]
        BY <2>1, <2>2, <2>4, <2>5
    <2> QED  BY <2>1, <2>6, CopiedPlain
<1> QED  BY <1>1, <1>2

(* A rename begins with the two paths of its call.                         *)
LEMMA CopiedEnter ==
    ASSUME ShapeInv, NEW w \in Worker, Call(w)
    PROVE  CopiedInv(w)'
<1>1. CASE ~dfs_rename(w)
    <2>1. PICK c \in Calls : c.op # "rename" /\ call' = [call EXCEPT ![w] = c]
        BY <1>1
        DEF Call, dfs_mkdir, dfs_mknod, dfs_rmdir, dfs_symlink, dfs_readlink, dfs_opendir,
            dfs_readdir, readdir_no_cell, dfs_unlink, EnterWith, Enter
    <2>2. call'[w] = c
        BY <2>1 DEF ShapeInv
    <2> QED  BY <2>1, <2>2 DEF CopiedInv
<1>2. CASE dfs_rename(w)
    <2>1. PICK c \in Calls : /\ c.op = "rename" /\ Allowed(c)
                             /\ call' = [call EXCEPT ![w] = c]
        BY <1>2 DEF dfs_rename, Enter
    <2>2. call'[w] = c /\ pc'[w] = "rename_namei"
        BY <1>2, <2>1 DEF dfs_rename, Request, ShapeInv
    <2>3. stack'[w] = <<Frame(OLDPATH, NEWPATH)>>
        BY <1>2, <2>1 DEF dfs_rename, ShapeInv
    <2>4. strings'[w][OLDPATH] = c.path /\ strings'[w][NEWPATH] = c.to
        <3>1. strings[w] \in [Address -> String] /\ strings \in [Worker -> [Address -> String]]
            BY DEF ShapeInv
        <3>2. strings' = [strings EXCEPT ![w][OLDPATH] = c.path, ![w][NEWPATH] = c.to]
            BY <1>2, <2>1, <2>2 DEF dfs_rename
        <3> QED  BY <3>1, <3>2, OwnAddresses
    <2>5. c.path \in Seq(Name) /\ c.to \in Seq(Name)
        BY <2>1
    <2>6. Under(c.path, c.path) /\ c.to = Moved(c.path, c.path, c.to)
        BY <2>5, UnderRefl, MovedSelf
    <2>7. ~Under(c.path, c.to) /\ ~Under(c.to, c.path)
        BY <2>1 DEF Allowed
    <2>8. \A i \in DOMAIN stack'[w] : stack'[w][i].src = OLDPATH /\ stack'[w][i].dst = NEWPATH
        BY <2>3 DEF Frame
    <2> QED  BY <2>2, <2>4, <2>6, <2>7, <2>8 DEF CopiedInv, Pair
<1> QED  BY <1>1, <1>2

(* Where a rename has a frame, the paths there are a pair.                 *)
LEMMA CopiedDispatch ==
    ASSUME ShapeInv, NEW w \in Worker, CopiedInv(w), call[w] # NULL, call[w].op = "rename",
           stack[w] # << >>, NEW a \in Address, NEW b \in Address,
           Pair(w, strings[w][a], strings[w][b]),
           rename_directory(w, a, b) \/ rename_file(w, a, b),
           UNCHANGED <<call, strings>>
    PROVE  CopiedInv(w)'
<1>1. CASE rename_file(w, a, b)
    <2>1. /\ pc'[w] = "fcopy" /\ rc'[w] = NULL /\ UNCHANGED stack
          /\ arg'[w].path = strings[w][a] /\ arg'[w].to = strings[w][b]
        BY <1>1 DEF rename_file, Request, Begin, ShapeInv, RetryTypeOK
    <2>2. ~Succeeded(w)'
        BY <2>1 DEF Succeeded, Status
    <2> QED  BY <2>1, <2>2 DEF CopiedInv, Pair
<1>2. CASE rename_directory(w, a, b)
    <2>1. pc'[w] = "dir_namei" /\ stack'[w] = Append(stack[w], Frame(a, b))
        BY <1>2 DEF rename_directory, Request, ShapeInv
    <2>2. stack[w] \in Seq(Frames) /\ Frame(a, b) \in Frames
        BY NewFrame DEF ShapeInv
    <2>3. \A i \in DOMAIN stack'[w] : \/ i \in DOMAIN stack[w] /\ stack'[w][i] = stack[w][i]
                                      \/ stack'[w][i] = Frame(a, b)
        <3> HIDE NamespaceAssumption, RetryAssumption
        <3> DEFINE u == stack[w]
                   e == Frame(a, b)
        <3>1. u \in Seq(Frames) /\ e \in Frames /\ stack'[w] = Append(u, e)
            BY <2>1, <2>2
        <3> HIDE DEF u, e
        <3>2. /\ Append(u, e) \in Seq(Frames) /\ Len(Append(u, e)) = Len(u) + 1
              /\ \A i \in 1..Len(u) : Append(u, e)[i] = u[i]
              /\ Append(u, e)[Len(u) + 1] = e
            BY <3>1, AppendProperties
        <3>3. DOMAIN Append(u, e) = 1..Len(u) + 1 /\ DOMAIN u = 1..Len(u) /\ Len(u) \in Nat
            BY <3>1, <3>2
        <3> QED  BY <3>1, <3>2, <3>3 DEF u, e
    <2>4. Frame(a, b).src = a /\ Frame(a, b).dst = b
        BY DEF Frame
    <2>5. \A i \in DOMAIN stack'[w] :
              Pair(w, strings[w][stack'[w][i].src], strings[w][stack'[w][i].dst])
        BY <2>3, <2>4 DEF CopiedInv
    <2> QED  BY <2>1, <2>5 DEF CopiedInv, Pair
<1> QED  BY <1>1, <1>2

(* The next entry of a pair is a pair.                                     *)
LEMMA PairAppend ==
    ASSUME NEW w \in Worker, call[w] \in Calls, NEW p \in Seq(Name), NEW q \in Seq(Name),
           Pair(w, p, q), NEW n \in Name
    PROVE  Pair(w, Append(p, n), Append(q, n))
<1>1. call[w].path \in Seq(Name) /\ call[w].to \in Seq(Name)
    OBVIOUS
<1> HIDE NamespaceAssumption, RetryAssumption
<1>2. Under(call[w].path, p) /\ q = Moved(p, call[w].path, call[w].to)
    BY DEF Pair
<1>3. Under(call[w].path, Append(p, n))
    BY <1>1, <1>2, UnderAppend
<1>4. Moved(Append(p, n), call[w].path, call[w].to)
      = Append(Moved(p, call[w].path, call[w].to), n)
    BY <1>1, <1>2, MovedAppend
<1> QED  BY <1>2, <1>3, <1>4 DEF Pair

(* The top frame goes on to the next entry: its two buffers are in use by  *)
(* no frame.                                                               *)
LEMMA CopiedEntry ==
    ASSUME BaseInv, NEW w \in Worker, CopiedInv(w), RingSuffices, entry_namei(w)
    PROVE  CopiedInv(w)'
<1>1. ShapeInv /\ ServeInv(w) /\ ReachInv(w) /\ call[w] # NULL /\ pc[w] = "loop"
    BY DEF BaseInv, Own, entry_namei, Waiting
<1>2. /\ call[w].op = "rename" /\ stack[w] # << >> /\ Top(w) \in Frames
      /\ stack[w] \in Seq(Frames) /\ Len(stack[w]) > 1 /\ call[w] \in Calls
    BY <1>1, BelowFacts DEF ShapeInv, BelowPc
<1>3. PICK name \in Top(w).todo : NextEntry(w, name) /\ call' = call /\ pc'[w] = "entry_namei"
    BY <1>1 DEF entry_namei, Request, ShapeInv
<1> DEFINE a == tmpstr_new(current[w])
           b == tmpstr_new(a)
           d == IF Top(w).dst = a THEN Append(Src(w), name) ELSE Dst(w)
           e == [Top(w) EXCEPT !.todo = @ \ {name}, !.src_entry = a, !.dst_entry = b]
           p == Append(Src(w), name)
           q == Append(d, name)
           s == stack[w]
           t == [s EXCEPT ![Len(s)] = e]
<1>4. /\ a \in 0..TMPSTR_NB - 1 /\ b \in 0..TMPSTR_NB - 1
      /\ a # b /\ name \in Name /\ d \in Seq(Name) /\ Src(w) \in Seq(Name)
      /\ strings' = [strings EXCEPT ![w] = [strings[w] EXCEPT ![a] = p, ![b] = q]]
      /\ e \in Frames
      /\ stack' = [stack EXCEPT ![w] = t]
    BY <1>1, <1>3, EntryFacts DEF BelowPc
<1>5. a \in Address /\ b \in Address
    BY <1>4, RingFacts
<1>6. InUse(w) \cap {a, b} = {}
    BY <1>1 DEF RingSuffices
<1>7. /\ e.src = Top(w).src /\ e.dst = Top(w).dst
      /\ e.src_entry = a /\ e.dst_entry = b
    BY <1>2 DEF Frames
<1>8. /\ Len(s) \in DOMAIN s /\ Top(w) = s[Len(s)] /\ Top(w).src \in Address
      /\ Top(w).dst \in Address
    BY <1>2 DEF Top, Frames
<1>9. Top(w).src \in InUse(w) /\ Top(w).dst \in InUse(w)
    BY <1>8 DEF InUse
<1>10. d = Dst(w) /\ Pair(w, Src(w), Dst(w))
    <2>1. Pair(w, strings[w][s[Len(s)].src], strings[w][s[Len(s)].dst])
        BY <1>1, <1>2, <1>8 DEF CopiedInv
    <2> QED  BY <1>6, <1>8, <1>9, <2>1 DEF Src, Dst
<1>11. Pair(w, p, q)
    BY <1>2, <1>4, <1>10, PairAppend
<1>12. stack'[w] = t
    <2> HIDE DEF t
    <2> QED  BY <1>1, <1>4 DEF ShapeInv
<1>13. /\ Len(t) = Len(s) /\ DOMAIN t = DOMAIN s /\ t[Len(s)] = e
       /\ \A i \in DOMAIN s : t[i].src = s[i].src /\ t[i].dst = s[i].dst
    <2>1. /\ Len(t) = Len(s) /\ DOMAIN t = 1..Len(s) /\ t[Len(s)] = e
          /\ \A i \in 1..Len(s) : i # Len(s) => t[i] = s[i]
        BY <1>2, <1>4, TopFacts
    <2>2. DOMAIN s = 1..Len(s)
        BY <1>2
    <2> HIDE DEF t, e
    <2> QED  BY <1>7, <1>8, <2>1, <2>2
<1> HIDE DEF a, b, d, e, p, q, t
<1>14. /\ strings'[w][a] = p /\ strings'[w][b] = q
       /\ \A x \in Address : x \notin {a, b} => strings'[w][x] = strings[w][x]
    <2>1. strings \in [Worker -> [Address -> String]]
        BY <1>1 DEF ShapeInv
    <2> QED  BY <1>4, <1>5, <2>1
<1>15. \A i \in DOMAIN stack'[w] :
           /\ i \in DOMAIN s
           /\ strings'[w][stack'[w][i].src] = strings[w][s[i].src]
           /\ strings'[w][stack'[w][i].dst] = strings[w][s[i].dst]
    <2>1. \A i \in DOMAIN s : s[i].src \in InUse(w) /\ s[i].dst \in InUse(w)
        <3>1. \A i \in DOMAIN s : s[i] \in Frames
            BY <1>2
        <3> QED  BY <3>1 DEF InUse, Frames
    <2>2. \A x \in InUse(w) : x \in Address /\ x \notin {a, b}
        BY <1>6 DEF InUse
    <2> QED  BY <1>12, <1>13, <1>14, <2>1, <2>2
<1>16. Top(w)' = e
    BY <1>12, <1>13 DEF Top
<1>17. Pair(w, strings'[w][a], strings'[w][b])
    BY <1>11, <1>14
<1>18. /\ ~Under(call[w].path, call[w].to) /\ ~Under(call[w].to, call[w].path)
       /\ \A i \in DOMAIN s : Pair(w, strings[w][s[i].src], strings[w][s[i].dst])
    BY <1>1, <1>2 DEF CopiedInv
<1> QED
    BY <1>3, <1>7, <1>15, <1>16, <1>17, <1>18 DEF CopiedInv, Pair

(* A file is copied, then removed.                                         *)
LEMMA CopiedFile ==
    ASSUME BaseInv, NEW w \in Worker, CopiedInv(w), rename_dispatch(w) \/ rename_unlink(w)
    PROVE  CopiedInv(w)'
<1>0. call[w] # NULL /\ rc[w] # NULL /\ pc[w] \in {"rename_namei", "fcopy"} /\ ShapeInv
      /\ ServeInv(w) /\ ReachInv(w)
    BY DEF rename_dispatch, rename_unlink, Waiting, BaseInv, Own
<1>1. /\ Serving(w) /\ call[w].op = "rename" /\ call[w] \in Calls
      /\ stack[w] # << >> /\ stack[w] \in Seq(Frames)
    BY <1>0, RenameFacts DEF RenamePc, ShapeInv
<1>2. CASE rename_dispatch(w)
    <2>1. CASE Return(w, -1)
        BY <1>0, <2>1, CopiedReturn
    <2>2. CASE /\ \/ rename_directory(w, OLDPATH, NEWPATH)
                  \/ rename_file(w, OLDPATH, NEWPATH)
               /\ UNCHANGED <<tree, cwd, opened, call, ring, list, ret, before>>
        <3>1. strings[w][OLDPATH] = call[w].path /\ strings[w][NEWPATH] = call[w].to
            BY <1>0, <1>1 DEF ReachInv
        <3>2. call[w].path \in Seq(Name) /\ call[w].to \in Seq(Name)
            BY <1>1
        <3>3. Pair(w, strings[w][OLDPATH], strings[w][NEWPATH])
            BY <3>1, <3>2, UnderRefl, MovedSelf DEF Pair
        <3>4. UNCHANGED strings
            BY <2>2 DEF ring
        <3> QED  BY <1>0, <1>1, <2>2, <3>3, <3>4, OwnAddresses, CopiedDispatch
    <2> QED  BY <1>2, <2>1, <2>2 DEF rename_dispatch
<1>3. CASE rename_unlink(w)
    <2>1. CASE Succeeded(w)
        <3>1. pc'[w] = "unlink" /\ arg'[w].path = arg[w].path
              /\ UNCHANGED <<call, stack, strings, remote>> /\ pc[w] = "fcopy"
            BY <1>0, <1>3, <2>1
            DEF rename_unlink, Waiting, Request, ShapeInv, ring, tree
        <3> QED  BY <2>1, <3>1 DEF CopiedInv, Pair, There
    <2>2. CASE ~Succeeded(w)
        <3>1. Leave(w, stack[w], -1)
            BY <1>3, <2>2 DEF rename_unlink
        <3> QED  BY <1>0, <1>1, <3>1, CopiedLeave
    <2> QED  BY <2>1, <2>2
<1> QED  BY <1>2, <1>3

(* The path of the cache file is printed over no frame's path.             *)
LEMMA CopiedUnlink ==
    ASSUME BaseInv, NEW w \in Worker, CopiedInv(w), RingSuffices, unlink_done(w)
    PROVE  CopiedInv(w)'
<1>1. ShapeInv /\ ServeInv(w) /\ call[w] # NULL /\ pc[w] = "unlink" /\ Serving(w)
    BY DEF BaseInv, Own, unlink_done, Waiting, Serving
<1>2. CASE stack[w] = << >> \/ Len(stack[w]) = 1
    <2>1. \E r : Return(w, r)
        BY <1>2 DEF unlink_done
    <2> QED  BY <1>1, <2>1, CopiedReturn
<1>3. CASE ~(stack[w] = << >> \/ Len(stack[w]) = 1)
    <2> DEFINE s == stack[w]
               r == IF Succeeded(w) THEN 0 ELSE 1
               e == [Top(w) EXCEPT !.ret = r]
               t == [s EXCEPT ![Len(s)] = e]
               a == tmpstr_new(current[w])
    <2>1. s \in Seq(Frames) /\ s # << >>
        BY <1>1, <1>3 DEF ShapeInv
    <2>2. Top(w) \in Frames /\ Len(s) \in DOMAIN s /\ DOMAIN s = 1..Len(s)
        BY <2>1, FrameFacts DEF Top
    <2>3. e \in Frames /\ e.src = Top(w).src /\ e.dst = Top(w).dst
        <3>1. r \in -1..1
            OBVIOUS
        <3> HIDE DEF r
        <3> QED  BY <2>2, <3>1 DEF Frames
    <2>4. /\ call' = call /\ pc'[w] = "loop"
          /\ stack' = [stack EXCEPT ![w] = t]
          /\ \/ strings' = strings
             \/ Succeeded(w) /\ \E x : strings' = [strings EXCEPT ![w][a] = x]
        BY <1>1, <1>3 DEF unlink_done, Top, ShapeInv, ring, tmpstr_printf
    <2>5. \A i \in DOMAIN s : t[i].src = s[i].src /\ t[i].dst = s[i].dst
        <3>1. t[Len(s)] = e /\ \A i \in 1..Len(s) : i # Len(s) => t[i] = s[i]
            BY <2>1, <2>3, TopFacts
        <3> HIDE DEF e, t
        <3> QED  BY <2>2, <2>3, <3>1 DEF Top
    <2>6. DOMAIN t = DOMAIN s
        BY <2>1
    <2> HIDE DEF r, e, t
    <2>7. stack'[w] = t
        BY <1>1, <2>4 DEF ShapeInv
    <2>8. \A x \in InUse(w) : strings'[w][x] = strings[w][x]
        <3>1. (Succeeded(w) => a \notin InUse(w)) /\ InUse(w) \subseteq Address
            BY <1>1 DEF RingSuffices, InUse
        <3>2. strings \in [Worker -> [Address -> String]]
            BY <1>1 DEF ShapeInv
        <3> HIDE DEF a
        <3> QED  BY <2>4, <3>1, <3>2
    <2>9. \A i \in DOMAIN s : s[i].src \in InUse(w) /\ s[i].dst \in InUse(w)
        <3>1. \A i \in DOMAIN s : s[i] \in Frames
            BY <2>1
        <3> QED  BY <3>1 DEF InUse, Frames
    <2>10. \A i \in DOMAIN stack'[w] :
              /\ i \in DOMAIN stack[w]
              /\ strings'[w][stack'[w][i].src] = strings[w][stack[w][i].src]
              /\ strings'[w][stack'[w][i].dst] = strings[w][stack[w][i].dst]
        BY <2>5, <2>6, <2>7, <2>8, <2>9
    <2> QED  BY <2>4, <2>10, CopiedPlain
<1> QED  BY <1>2, <1>3

(* The other requests of a directory.                                      *)
LEMMA CopiedBelow ==
    ASSUME BaseInv, NEW w \in Worker, CopiedInv(w),
           \/ dir_mkdir(w) \/ dir_chdir(w) \/ dir_opendir(w) \/ dir_list(w)
           \/ entry_rename(w) \/ dir_rmdir(w) \/ dir_done(w)
    PROVE  CopiedInv(w)'
<1>0. call[w] # NULL /\ pc[w] \in BelowPc /\ ShapeInv /\ ServeInv(w) /\ ReachInv(w)
    BY DEF dir_mkdir, dir_chdir, dir_opendir, dir_list, entry_rename, dir_rmdir, dir_done,
           Waiting, BelowPc, BaseInv, Own
<1>1. /\ call[w].op = "rename" /\ stack[w] # << >> /\ Top(w) \in Frames
      /\ Front(stack[w]) \in Seq(Frames) /\ Front(stack[w]) # << >>
      /\ stack[w] \in Seq(Frames)
    BY <1>0, BelowFacts
<1>2. CASE \E r : Leave(w, Front(stack[w]), r)
    BY <1>0, <1>1, <1>2, CopiedLeave
<1>3. CASE /\ \E f, p, next : /\ Request(w, f, p, NULL, next)
                              /\ next \notin {"entry_namei", "fcopy", "unlink"}
           /\ UNCHANGED <<call, stack, ring>>
    <2>1. pc'[w] \notin {"entry_namei", "fcopy", "unlink"}
        BY <1>0, <1>3 DEF Request, ShapeInv
    <2> QED  BY <1>3, <2>1, CopiedPlain DEF ring
<1>4. CASE dir_list(w) /\ Succeeded(w)
    <2> DEFINE s == stack[w]
               e == [Top(w) EXCEPT !.todo = list[w]]
               t == [s EXCEPT ![Len(s)] = e]
    <2>1. list[w] \in SUBSET Name
        BY <1>0 DEF ShapeInv
    <2>2. e \in Frames /\ e.src = Top(w).src /\ e.dst = Top(w).dst
        BY <1>1, <2>1 DEF Frames
    <2>3. /\ stack' = [stack EXCEPT ![w] = t]
          /\ pc'[w] = "loop" /\ UNCHANGED <<call, strings>>
        BY <1>0, <1>4 DEF dir_list, Top, ShapeInv, ring
    <2>4. \A i \in DOMAIN s : t[i].src = s[i].src /\ t[i].dst = s[i].dst
        <3>1. t[Len(s)] = e /\ \A i \in 1..Len(s) : i # Len(s) => t[i] = s[i]
            BY <1>1, <2>2, TopFacts
        <3>2. DOMAIN s = 1..Len(s)
            BY <1>1
        <3> HIDE DEF e, t
        <3> QED  BY <2>2, <3>1, <3>2 DEF Top
    <2>5. DOMAIN t = DOMAIN s
        BY <1>1
    <2> HIDE DEF e, t
    <2>6. stack'[w] = t
        BY <1>0, <2>3 DEF ShapeInv
    <2> QED  BY <2>3, <2>4, <2>5, <2>6, CopiedPlain
<1>5. CASE /\ entry_rename(w)
           /\ \/ rename_directory(w, Top(w).src_entry, Top(w).dst_entry)
              \/ rename_file(w, Top(w).src_entry, Top(w).dst_entry)
           /\ UNCHANGED <<tree, cwd, opened, call, ring, list, ret, before>>
    <2>1. pc[w] = "entry_namei"
        BY <1>5 DEF entry_rename, Waiting
    <2>2. Pair(w, strings[w][Top(w).src_entry], strings[w][Top(w).dst_entry])
        BY <1>0, <1>1, <2>1 DEF CopiedInv
    <2>3. Top(w).src_entry \in Address /\ Top(w).dst_entry \in Address
        BY <1>1 DEF Frames
    <2>4. UNCHANGED <<call, strings>>
        BY <1>5 DEF ring
    <2>5. CASE rename_directory(w, Top(w).src_entry, Top(w).dst_entry)
        BY <1>0, <1>1, <2>2, <2>3, <2>4, <2>5, CopiedDispatch
    <2>6. CASE rename_file(w, Top(w).src_entry, Top(w).dst_entry)
        BY <1>0, <1>1, <2>2, <2>3, <2>4, <2>6, CopiedDispatch
    <2> QED  BY <1>5, <2>5, <2>6
<1>6. CASE dir_mkdir(w)
    <2>1. CASE Succeeded(w) \/ rc[w] = "DPL_ENOENT"
        <3>1. /\ \/ Request(w, "dpl_chdir", Src(w), NULL, "dir_chdir")
                 \/ Request(w, "dpl_mkdir", Dst(w), NULL, "dir_mkdir")
              /\ UNCHANGED <<call, stack, ring>>
            BY <1>6, <2>1 DEF dir_mkdir
        <3> QED  BY <1>3, <3>1
    <2>2. CASE ~Succeeded(w) /\ rc[w] # "DPL_ENOENT"
        <3>1. Leave(w, Front(stack[w]), -1)
            BY <1>6, <2>2 DEF dir_mkdir
        <3> QED  BY <1>2, <3>1
    <2> QED  BY <2>1, <2>2
<1>7. CASE dir_chdir(w)     BY <1>2, <1>3, <1>7 DEF dir_chdir
<1>8. CASE dir_opendir(w)   BY <1>2, <1>3, <1>8 DEF dir_opendir
<1>9. CASE dir_list(w)      BY <1>2, <1>4, <1>9 DEF dir_list
<1>10. CASE entry_rename(w) BY <1>2, <1>5, <1>10 DEF entry_rename
<1>11. CASE dir_rmdir(w)    BY <1>2, <1>3, <1>11 DEF dir_rmdir
<1>12. CASE dir_done(w)     BY <1>2, <1>12 DEF dir_done
<1> QED  BY <1>6, <1>7, <1>8, <1>9, <1>10, <1>11, <1>12

(* While the ring reaches, every step of a handler keeps CopiedInv: what a rename
   deletes it has copied. *)
LEMMA CopiedHandler ==
    ASSUME BaseInv, NEW w \in Worker, CopiedInv(w), RingSuffices, Handler(w)
    PROVE  CopiedInv(w)'
<1>1. call \in [Worker -> Calls \cup {NULL}]
    BY DEF BaseInv, ShapeInv
<1>2. CASE call[w].op # "rename" \/ Reply(w)
    BY <1>1, <1>2, HandlerKeeps DEF CopiedInv, Reply
<1>3. CASE call[w].op = "rename" /\ ~Reply(w)
    <2>1. <<"rename", pc[w]>> \in Stage
        BY <1>3, HandlerAt
    <2>2. pc[w] \in RenamePc
        BY <2>1 DEF Stage
    <2>3. \/ unlink_done(w) \/ entry_namei(w)
          \/ rename_dispatch(w) \/ rename_unlink(w)
          \/ dir_mkdir(w) \/ dir_chdir(w) \/ dir_opendir(w) \/ dir_list(w)
          \/ entry_rename(w) \/ dir_rmdir(w) \/ dir_done(w)
        BY <1>3, <2>2
        DEF Handler, RenamePc, BelowPc, Waiting, mkdir_done, mknod_done, rmdir_done,
            symlink_setattr, symlink_done, readlink_done, opendir_done, readdir_opendir,
            readdir_done
    <2> QED  BY <2>3, CopiedUnlink, CopiedEntry, CopiedFile, CopiedBelow
<1> QED  BY <1>2, <1>3

(* A request is answered: when it was the copy, the object is at both      *)
(* paths, and when it was the unlink, at the second only.                  *)
LEMMA CopiedAttempt ==
    ASSUME BaseInv, NEW w \in Worker, CopiedInv(w), Attempt(w)
    PROVE  CopiedInv(w)'
<1>1. /\ ShapeInv /\ Own(w) /\ ServeInv(w) /\ ReachInv(w)
      /\ remote \in [Path -> Kinds] /\ rc \in [Worker -> Status \cup {NULL}]
    BY DEF BaseInv, Own, ShapeInv, RetryTypeOK
<1>2. /\ UNCHANGED <<call, pc, arg, strings>> /\ call[w] # NULL
      /\ rc[w] = NULL /\ fn[w] # NULL
    BY DEF Attempt, Answer, ring
<1>3. CASE call[w].op # "rename"
    BY <1>2, <1>3 DEF CopiedInv
<1>4. CASE call[w].op = "rename"
    <2> DEFINE s == call[w].path
               t == call[w].to
               p == arg[w].path
               q == Moved(p, s, t)
    <2>1. s \in Seq(Name) /\ t \in Seq(Name) /\ call[w] \in Calls
        BY <1>1, <1>2 DEF ShapeInv
    <2>2. Serving(w) /\ stack[w] # << >> /\ <<pc[w], fn[w]>> \in RequestAt
        BY <1>1, <1>2, <1>4, AttemptFrames DEF ServeInv
    <2>3. \A i \in DOMAIN stack'[w] :
              Pair(w, strings[w][stack'[w][i].src], strings[w][stack'[w][i].dst])
        <3> SUFFICES ASSUME NEW i \in DOMAIN stack'[w]
                     PROVE  Pair(w, strings[w][stack'[w][i].src], strings[w][stack'[w][i].dst])
            OBVIOUS
        <3>1. /\ i \in DOMAIN stack[w] /\ stack'[w][i].src = stack[w][i].src
              /\ stack'[w][i].dst = stack[w][i].dst
            BY <1>1, AttemptFrames
        <3> QED  BY <1>2, <1>4, <3>1 DEF CopiedInv
    <2>4. pc[w] = "entry_namei" =>
              Pair(w, strings[w][Top(w)'.src_entry], strings[w][Top(w)'.dst_entry])
        <3>1. stack[w] \in Seq(Frames)
            BY <1>1 DEF ShapeInv
        <3>2. Len(stack[w]) \in DOMAIN stack[w]
            BY <2>2, <3>1
        <3>3. Top(w)'.src_entry = Top(w).src_entry /\ Top(w)'.dst_entry = Top(w).dst_entry
            BY <1>1, <3>2, AttemptFrames DEF Top
        <3> QED  BY <1>2, <1>4, <3>3 DEF CopiedInv
    <2>5. pc[w] = "fcopy" => Pair(w, arg[w].path, arg[w].to)
        BY <1>2, <1>4 DEF CopiedInv
    <2>6. pc[w] \in {"fcopy", "unlink"} => p \in Seq(Name) /\ Under(s, p) /\ Resolve(p) = p
        <3>1. pc[w] \in {"fcopy", "unlink"} => p # NULL /\ p \in String
            BY <1>1, <2>2 DEF ReachInv, ServeInv
        <3>2. pc[w] \in {"fcopy", "unlink"} => Under(s, p)
            BY <1>2, <1>4 DEF CopiedInv, Pair
        <3> QED  BY <3>1, <3>2 DEF String, Resolve
    <2>7. ~Under(s, t) /\ ~Under(t, s)
        BY <1>2, <1>4 DEF CopiedInv
    <2>8. pc[w] \in {"fcopy", "unlink"} => q # p
        BY <2>1, <2>6, <2>7, MovedOther
    <2>9. pc[w] = "unlink" => /\ Under(s, p)
                              /\ There(p)' /\ remote'[p] \in Data =>
                                    There(q)' /\ remote'[q] = remote'[p]
        <3> SUFFICES ASSUME pc[w] = "unlink"
                     PROVE  /\ Under(s, p)
                            /\ There(p)' /\ remote'[p] \in Data =>
                                  There(q)' /\ remote'[q] = remote'[p]
            OBVIOUS
        <3>1. fn[w] = "dpl_unlink"
            BY <2>2 DEF RequestAt
        <3>2. There(p) /\ remote[p] \in Data => There(q) /\ remote[q] = remote[p]
            BY <1>2, <1>4 DEF CopiedInv
        <3>3. \/ remote' = remote
              \/ There(p) /\ remote' = [remote EXCEPT ![p] = "absent"]
            BY <2>6, <3>1 DEF Attempt, Effect, StatusOf, tree
        <3>4. CASE remote' = remote
            BY <1>2, <2>6, <3>2, <3>4 DEF There
        <3>5. CASE There(p) /\ remote' = [remote EXCEPT ![p] = "absent"]
            <4>1. remote'[p] = "absent"
                BY <1>1, <3>5 DEF There
            <4> QED  BY <1>2, <2>6, <4>1 DEF There
        <3> QED  BY <3>3, <3>4, <3>5
    <2>10. pc[w] = "fcopy" /\ Succeeded(w)' =>
              /\ Under(s, p)
              /\ There(p)' /\ remote'[p] \in Data => There(q)' /\ remote'[q] = remote'[p]
        <3> SUFFICES ASSUME pc[w] = "fcopy", Succeeded(w)'
                     PROVE  /\ Under(s, p)
                            /\ There(p)' /\ remote'[p] \in Data =>
                                  There(q)' /\ remote'[q] = remote'[p]
            OBVIOUS
        <3>1. fn[w] = "dpl_fcopy"
            BY <2>2 DEF RequestAt
        <3>2. rc'[w] = "DPL_SUCCESS"
            BY DEF Succeeded
        <3>3. \A x : Answer(w, x) => rc'[w] \in {x, NULL}
            BY <1>1, <1>2 DEF Answer, ERR_TIMEOUT
        <3>4. ~Answer(w, "DPL_EIO")
            BY <3>2, <3>3 DEF Status
        <3>5. Answer(w, StatusOf("dpl_fcopy", p, arg[w].to))
              /\ remote' = (IF StatusOf("dpl_fcopy", p, arg[w].to) = "DPL_SUCCESS"
                            THEN Effect("dpl_fcopy", p, arg[w].to) ELSE remote)
            BY <2>6, <3>1, <3>4 DEF Attempt
        <3>6. StatusOf("dpl_fcopy", p, arg[w].to) = "DPL_SUCCESS"
            BY <3>2, <3>3, <3>5 DEF Status
        <3>7. arg[w].to = q
            BY <2>5 DEF Pair
        <3>8. There(p) /\ HasParent(q)
            BY <3>6, <3>7 DEF StatusOf
        <3>9. remote' = [remote EXCEPT ![q] = remote[p]]
            BY <3>5, <3>6, <3>7 DEF Effect
        <3>10. p \in Path /\ q \in Path /\ remote[p] # "absent"
            BY <3>8 DEF There, HasParent
        <3> HIDE DEF q
        <3>11. remote'[q] = remote[p] /\ remote'[p] = remote[p]
            BY <1>1, <2>8, <3>9, <3>10
        <3>12. q' = q /\ p' = p
            BY <1>2 DEF q
        <3> QED  BY <2>6, <3>10, <3>11, <3>12 DEF There
    <2> QED
        BY <1>2, <1>4, <2>3, <2>4, <2>5, <2>7, <2>9, <2>10 DEF CopiedInv, Pair
<1> QED  BY <1>3, <1>4

(* The steps of other workers.                                             *)
LEMMA CopiedOthers ==
    ASSUME BaseInv, LocksInv, NEW w \in Worker, CopiedInv(w), Unmoved(w),
           \/ UNCHANGED remote
           \/ \E v \in Worker \ {w} : Attempt(v)
    PROVE  CopiedInv(w)'
<1>1. CASE UNCHANGED remote
    BY <1>1 DEF CopiedInv, Unmoved, Pair, Top, There, Succeeded
<1>2. CASE ~UNCHANGED remote /\ call[w] # NULL /\ call[w].op = "rename"
    <2>1. PICK v \in Worker \ {w} : Attempt(v)
        BY <1>2
    <2>2. PICK r \in Path, k \in Kinds :
              /\ remote' = [remote EXCEPT ![r] = k]
              /\ Serving(v) /\ call[v] \in Calls /\ call[v].op \in Changers
              /\ Touches(call[v], r)
        BY <1>2, <2>1, Changes DEF tree
    <2>3. r \in Seq(Name) /\ ~Touches(call[w], r)
        BY <1>2, <2>1, <2>2, ApartRename DEF Serving
    <2> DEFINE p == arg[w].path
               q == Moved(p, call[w].path, call[w].to)
    <2>4. \A x \in Path : x # r => remote'[x] = remote[x]
        BY <2>2 DEF BaseInv, ShapeInv
    <2>5. ASSUME pc[w] = "unlink" \/ (pc[w] = "fcopy" /\ Succeeded(w))
          PROVE  /\ Under(call[w].path, p)
                 /\ There(p)' /\ remote'[p] \in Data => There(q)' /\ remote'[q] = remote'[p]
        <3>1. /\ Under(call[w].path, p)
              /\ There(p) /\ remote[p] \in Data => There(q) /\ remote[q] = remote[p]
            BY <1>2, <2>5 DEF CopiedInv
        <3>2. p \in Seq(Name) /\ call[w].path \in Seq(Name) /\ call[w].to \in Seq(Name)
            <4>1. call[w] \in Calls /\ ServeInv(w) /\ ReachInv(w) /\ Serving(w)
                BY <1>2, <2>5 DEF BaseInv, Own, ShapeInv, Serving
            <4>2. p \in String /\ p # NULL
                BY <1>2, <2>5, <4>1 DEF ServeInv, ReachInv
            <4> QED  BY <4>1, <4>2 DEF String
        <3>3. Touches(call[w], p) /\ Touches(call[w], q)
            <4>1. Under(call[w].to, q)
                BY <3>1, <3>2, MovedFacts
            <4> QED  BY <1>2, <3>1, <4>1 DEF Touches
        <3>4. p # r /\ q # r
            BY <2>3, <3>3
        <3>5. p' = p /\ q' = q
            BY DEF Unmoved
        <3> HIDE DEF p, q
        <3> QED  BY <2>4, <3>1, <3>4, <3>5 DEF There
    <2>6. p' = p /\ q' = q /\ Succeeded(w)' = Succeeded(w) /\ Top(w)' = Top(w)
        BY DEF Unmoved, Succeeded, Top
    <2>7. /\ ~Under(call[w].path, call[w].to) /\ ~Under(call[w].to, call[w].path)
          /\ \A i \in DOMAIN stack[w] :
                Pair(w, strings[w][stack[w][i].src], strings[w][stack[w][i].dst])
          /\ pc[w] = "entry_namei" =>
                Pair(w, strings[w][Top(w).src_entry], strings[w][Top(w).dst_entry])
          /\ pc[w] = "fcopy" => Pair(w, arg[w].path, arg[w].to)
        BY <1>2 DEF CopiedInv
    <2> QED  BY <2>5, <2>6, <2>7 DEF CopiedInv, Unmoved, Pair
<1>3. CASE ~(call[w] # NULL /\ call[w].op = "rename")
    BY <1>3 DEF CopiedInv, Unmoved
<1> QED  BY <1>1, <1>2, <1>3

(* What was at the one path a request changes is given up by the           *)
(* application, is put back, or is somewhere else too.                     *)
LEMMA OneLost ==
    ASSUME NEW r \in Path, NEW k, remote \in [Path -> Kinds],
           remote' = [remote EXCEPT ![r] = k], dropped \subseteq dropped',
           remote[r] \in Data => \/ remote[r] \in dropped' \/ k = remote[r]
                                 \/ \E x \in Path \ {r} : remote[x] = remote[r],
           NothingLost
    PROVE  NothingLost'
<1>1. ASSUME NEW d \in Data, \E p \in Path : Tree[p] = d, d \notin dropped'
      PROVE  \E p \in Path : remote'[p] = d
    <2>1. PICK p \in Path : remote[p] = d
        BY <1>1 DEF NothingLost
    <2> QED  BY <1>1, <2>1
<1> QED  BY <1>1 DEF NothingLost

(* An attempt that keeps to CopiedInv loses nothing: it deletes a file only when its
   copy is there. *)
LEMMA LostAttempt ==
    ASSUME BaseInv, Making, NEW v \in Worker, CopiedInv(v), NothingLost, Attempt(v)
    PROVE  NothingLost'
<1>1. /\ ShapeInv /\ ServeInv(v) /\ ReachInv(v) /\ remote \in [Path -> Kinds]
    BY DEF BaseInv, Own, ShapeInv
<1>2. call[v] # NULL /\ rc[v] = NULL /\ fn[v] # NULL
    BY DEF Attempt, Answer
<1>3. /\ Serving(v) /\ call[v] \in Calls /\ <<call[v].op, pc[v]>> \in Stage
      /\ <<pc[v], fn[v]>> \in RequestAt /\ arg[v] \in [path : String, to : String]
    BY <1>1, <1>2, AttemptFrames DEF BaseInv, ServeInv, Serving, ShapeInv
<1> DEFINE f == fn[v]
           p == Resolve(arg[v].path)
           q == arg[v].to
<1>4. CASE UNCHANGED tree
    BY <1>4 DEF tree, NothingLost
<1>5. CASE /\ StatusOf(f, p, q) = "DPL_SUCCESS" /\ remote' = Effect(f, p, q)
           /\ dropped' = dropped \cup (Data \cap Drops(v, f, p, q))
    <2>1. CASE f \notin {"dpl_mknod", "dpl_mkdir", "dpl_unlink", "dpl_rmdir", "dpl_fcopy",
                         "dpl_setattr"}
        BY <1>5, <2>1 DEF Effect, NothingLost
    <2>2. CASE f = "dpl_mknod"
        <3>1. p \in Path /\ remote' = [remote EXCEPT ![p] = "empty"]
            BY <1>5, <2>2 DEF StatusOf, HasParent, Effect
        <3>2. Drops(v, f, p, q) = {remote[p]}
            BY <2>2 DEF Drops
        <3> QED  BY <1>1, <1>5, <3>1, <3>2, OneLost
    <2>3. CASE f = "dpl_mkdir"
        <3>1. p \in Path /\ remote' = [remote EXCEPT ![p] = "dir"]
            BY <1>5, <2>3 DEF StatusOf, HasParent, Effect
        <3>2. remote[p] \in {"absent", "dir"}
            BY <1>5, <2>3, <3>1 DEF StatusOf, There, IsDir
        <3> QED  BY <1>1, <1>5, <3>1, <3>2, OneLost
    <2>4. CASE f = "dpl_rmdir"
        <3>1. p \in Path /\ remote' = [remote EXCEPT ![p] = "absent"]
            BY <1>5, <2>4 DEF StatusOf, There, Effect
        <3>2. remote[p] = "dir"
            BY <1>5, <2>4, <3>1 DEF StatusOf, IsDir
        <3> QED  BY <1>1, <1>5, <3>1, <3>2, OneLost
    <2>5. CASE f = "dpl_setattr"
        <3>1. pc[v] = "symlink_setattr"
            BY <1>3, <2>5 DEF RequestAt
        <3>2. call[v].op = "symlink"
            BY <1>3, <3>1 DEF Stage, RenamePc, BelowPc
        <3>3. p = call[v].path /\ p \in Path
            <4>1. arg[v].path = call[v].path /\ call[v].path \in Path
                BY <1>1, <1>3, <3>1, <3>2 DEF ServeInv
            <4> QED  BY <4>1 DEF Resolve
        <3>4. remote[p] \in {"absent", "empty", "symlink"}
            BY <1>2, <3>2, <3>3 DEF Making, MakingInv
        <3>5. remote' = [remote EXCEPT ![p] = "symlink"]
            BY <1>5, <2>5 DEF Effect
        <3> QED  BY <1>1, <1>5, <3>3, <3>4, <3>5, OneLost
    <2>6. CASE f = "dpl_unlink"
        <3>1. p \in Path /\ remote' = [remote EXCEPT ![p] = "absent"] /\ remote[p] # "absent"
            BY <1>5, <2>6 DEF StatusOf, There, Effect
        <3>2. CASE call[v].op = "unlink"
            <4>1. Drops(v, f, p, q) = {remote[p]}
                BY <2>6, <3>2 DEF Drops
            <4> QED  BY <1>1, <1>5, <3>1, <4>1, OneLost
        <3>3. CASE call[v].op # "unlink"
            <4>1. pc[v] = "unlink"
                BY <1>3, <2>6 DEF RequestAt
            <4>2. call[v].op = "rename"
                BY <1>3, <3>3, <4>1 DEF Stage
            <4>3. p = arg[v].path /\ call[v].path \in Seq(Name) /\ call[v].to \in Seq(Name)
                BY <1>1, <1>3, <4>1, <4>2 DEF ServeInv, ReachInv, Resolve
            <4> DEFINE m == Moved(p, call[v].path, call[v].to)
            <4>4. /\ ~Under(call[v].path, call[v].to) /\ ~Under(call[v].to, call[v].path)
                  /\ Under(call[v].path, p)
                  /\ There(p) /\ remote[p] \in Data => There(m) /\ remote[m] = remote[p]
                BY <1>2, <4>1, <4>2, <4>3 DEF CopiedInv
            <4>5. m # p
                BY <3>1, <4>3, <4>4, MovedOther
            <4>6. remote[p] \in Data => m \in Path /\ remote[m] = remote[p]
                BY <3>1, <4>4 DEF There
            <4>7. dropped \subseteq dropped'
                BY <1>5
            <4> HIDE DEF m, p
            <4>8. remote[p] \in Data => \E x \in Path \ {p} : remote[x] = remote[p]
                BY <4>5, <4>6
            <4> QED  BY <1>1, <3>1, <4>7, <4>8, OneLost
        <3> QED  BY <3>2, <3>3
    <2>7. CASE f = "dpl_fcopy"
        <3>1. p \in Path /\ q \in Path /\ remote' = [remote EXCEPT ![q] = remote[p]]
            BY <1>5, <2>7 DEF StatusOf, There, HasParent, Effect
        <3>2. pc[v] = "fcopy" /\ call[v].op = "rename"
            <4>1. pc[v] = "fcopy"
                BY <1>3, <2>7 DEF RequestAt
            <4> QED  BY <1>3, <4>1 DEF Stage
        <3>3. p = arg[v].path
            BY <1>1, <1>3, <3>2 DEF ServeInv, ReachInv, Resolve
        <3>4. Under(call[v].path, p) /\ q = Moved(p, call[v].path, call[v].to)
            BY <1>2, <3>2, <3>3 DEF CopiedInv, Pair
        <3>5. Drops(v, f, p, q) = {remote[q]}
            BY <2>7, <3>4 DEF Drops
        <3> QED  BY <1>1, <1>5, <3>1, <3>5, OneLost
    <2> QED  BY <2>1, <2>2, <2>3, <2>4, <2>5, <2>6, <2>7
<1> QED  BY <1>4, <1>5 DEF Attempt, tree

(* Nothing is lost, with all that says why.                                *)
LostInv == MadeInv /\ NothingLost /\ \A w \in Worker : CopiedInv(w)

(* Nothing is lost in an initial state. *)
LEMMA LostInit == Init => LostInv
<1> SUFFICES ASSUME Init PROVE LostInv
    OBVIOUS
<1>1. NothingLost /\ \A w \in Worker : CopiedInv(w)
    BY DEF Init, NothingLost, CopiedInv
<1> QED  BY <1>1, MadeInit DEF LostInv

(* While the ring reaches, every step keeps LostInv. *)
LEMMA LostStep ==
    ASSUME LostInv, RingSuffices, [Next]_vars PROVE LostInv'
<1>0. MadeInv /\ BaseInv /\ ShapeInv /\ LocksInv /\ Making /\ NothingLost
    BY DEF LostInv, MadeInv, BaseInv
<1>1. \A v \in Worker : Call(v) \/ Handler(v) => UNCHANGED tree
    BY CallKeeps, HandlerKeeps
<1>2. \A p \in Cacheable : Cached(p) => UNCHANGED tree
    BY DEF Cached
<1>3. MadeInv'
    BY <1>0, MadeStep
<1>4. NothingLost'
    <2>1. CASE UNCHANGED tree
        BY <1>0, <2>1 DEF tree, NothingLost
    <2>2. ASSUME NEW v \in Worker, Attempt(v) PROVE NothingLost'
        BY <1>0, <2>2, LostAttempt DEF LostInv
    <2> QED  BY <1>1, <1>2, <2>1, <2>2 DEF Next, vars
<1>5. ASSUME NEW w \in Worker PROVE CopiedInv(w)'
    <2>1. CopiedInv(w)
        BY DEF LostInv
    <2>2. CASE Call(w)     BY <1>0, <2>2, CopiedEnter
    <2>3. CASE Attempt(w)  BY <1>0, <2>1, <2>3, CopiedAttempt
    <2>4. CASE Handler(w)  BY <1>0, <2>1, <2>4, CopiedHandler
    <2>5. CASE /\ Unmoved(w)
               /\ \/ \E v \in Worker \ {w} : Call(v) \/ Attempt(v) \/ Handler(v)
                  \/ \E p \in Cacheable : Cached(p)
                  \/ UNCHANGED vars
        <3>1. UNCHANGED remote \/ \E v \in Worker \ {w} : Attempt(v)
            BY <1>1, <1>2, <2>5 DEF vars, tree
        <3> QED  BY <1>0, <2>1, <2>5, <3>1, CopiedOthers
    <2> QED  BY <1>0, <2>2, <2>3, <2>4, <2>5, Steps
<1> QED  BY <1>3, <1>4, <1>5 DEF LostInv

(* NothingLost: what the store held is still somewhere in it unless an     *)
(* application gave it up, whatever is refused, whatever answers are lost  *)
(* and however calls interleave, as long as no buffer of the ring is       *)
(* printed over while a frame still uses it.                               *)
THEOREM KeptWhatWasThere == Spec /\ []RingSuffices => []NothingLost
<1>1. LostInv => NothingLost
    BY DEF LostInv
<1> QED  BY <1>1, LostInit, LostStep, PTL DEF Spec

-----------------------------------------------------------------------------
(* Cache files of what is gone.                                            *)

(* Without a lost answer, what becomes absent or a directory without the   *)
(* knowledge of a worker had no cache file.                                *)
LEMMA OrphanAttempt ==
    ASSUME BaseInv, "lost" \notin Faults, OrphanInv, NEW v \in Worker, Attempt(v)
    PROVE  OrphanInv'
<1>1. /\ ShapeInv /\ ServeInv(v) /\ ReachInv(v) /\ remote \in [Path -> Kinds]
      /\ local \subseteq Path /\ rc \in [Worker -> Status \cup {NULL}]
    BY DEF BaseInv, Own, ShapeInv, RetryTypeOK
<1>2. /\ call[v] # NULL /\ rc[v] = NULL /\ fn[v] # NULL
      /\ UNCHANGED <<local, pc, arg, call>>
    BY DEF Attempt, Answer, cache
<1>3. /\ Serving(v) /\ <<pc[v], fn[v]>> \in RequestAt
    BY <1>1, <1>2, AttemptFrames DEF BaseInv, ServeInv
<1> DEFINE f == fn[v]
           p == Resolve(arg[v].path)
           q == arg[v].to
<1>4. ASSUME NEW x \in local, remote[x] \in {"absent", "dir"}
      PROVE  \E w \in Worker : (pc[w] = "unlink" /\ Succeeded(w) /\ arg[w].path = x)'
    <2>1. PICK w \in Worker : pc[w] = "unlink" /\ Succeeded(w) /\ arg[w].path = x
        BY <1>4 DEF OrphanInv
    <2>2. w # v
        BY <1>2, <2>1 DEF Succeeded, Status
    <2>3. Unmoved(w)
        BY <1>1, <2>2, AttemptOthers
    <2> QED  BY <2>1, <2>3 DEF Unmoved, Succeeded
<1>5. CASE remote' = remote
    BY <1>2, <1>4, <1>5 DEF OrphanInv
<1>6. CASE /\ StatusOf(f, p, q) = "DPL_SUCCESS" /\ remote' = Effect(f, p, q)
           /\ Answer(v, "DPL_SUCCESS")
    <2>1. ASSUME NEW r \in Path, NEW k, remote' = [remote EXCEPT ![r] = k],
                 k \in {"absent", "dir"} => remote[r] \in {"absent", "dir"}
          PROVE  OrphanInv'
        <3>1. \A x \in local : remote'[x] \in {"absent", "dir"}
                                  => remote[x] \in {"absent", "dir"}
            BY <1>1, <2>1
        <3> QED  BY <1>2, <1>4, <3>1 DEF OrphanInv
    <2>2. CASE f \notin {"dpl_mknod", "dpl_mkdir", "dpl_unlink", "dpl_rmdir", "dpl_fcopy",
                         "dpl_setattr"}
        BY <1>5, <1>6, <2>2 DEF Effect
    <2>3. CASE f = "dpl_mknod"
        <3>1. p \in Path /\ remote' = [remote EXCEPT ![p] = "empty"]
            BY <1>6, <2>3 DEF StatusOf, HasParent, Effect
        <3> QED  BY <2>1, <3>1
    <2>4. CASE f = "dpl_mkdir"
        <3>1. p \in Path /\ remote' = [remote EXCEPT ![p] = "dir"]
            BY <1>6, <2>4 DEF StatusOf, HasParent, Effect
        <3>2. remote[p] \in {"absent", "dir"}
            BY <1>6, <2>4, <3>1 DEF StatusOf, There, IsDir
        <3> QED  BY <2>1, <3>1, <3>2
    <2>5. CASE f = "dpl_rmdir"
        <3>1. p \in Path /\ remote' = [remote EXCEPT ![p] = "absent"]
            BY <1>6, <2>5 DEF StatusOf, There, Effect
        <3>2. remote[p] = "dir"
            BY <1>6, <2>5, <3>1 DEF StatusOf, IsDir
        <3> QED  BY <2>1, <3>1, <3>2
    <2>6. CASE f = "dpl_setattr"
        <3>1. p \in Path /\ remote' = [remote EXCEPT ![p] = "symlink"]
            BY <1>6, <2>6 DEF StatusOf, There, Effect
        <3> QED  BY <2>1, <3>1
    <2>7. CASE f = "dpl_fcopy"
        <3>1. /\ q \in Path /\ remote' = [remote EXCEPT ![q] = remote[p]]
              /\ remote[p] \notin {"absent", "dir"}
            BY <1>6, <2>7 DEF StatusOf, There, HasParent, IsDir, Effect
        <3> QED  BY <2>1, <3>1
    <2>8. CASE f = "dpl_unlink"
        <3>1. pc[v] = "unlink"
            BY <1>3, <2>8 DEF RequestAt
        <3>2. p = arg[v].path /\ arg[v].path # NULL
            <4>1. arg[v].path # NULL
                <5>1. CASE call[v].op = "rename"
                    BY <1>1, <1>3, <3>1, <5>1 DEF ServeInv, ReachInv
                <5>2. CASE call[v].op # "rename"
                    <6>1. call[v].path \in Seq(Name)
                        BY <1>1, <1>2 DEF ShapeInv
                    <6> QED  BY <1>1, <1>3, <3>1, <5>2, <6>1 DEF ServeInv
                <5> QED  BY <5>1, <5>2
            <4> QED  BY <4>1 DEF Resolve
        <3>3. remote' = [remote EXCEPT ![p] = "absent"]
            BY <1>6, <2>8 DEF Effect
        <3>4. (pc[v] = "unlink" /\ Succeeded(v) /\ arg[v].path = p)'
            <4>1. rc'[v] = "DPL_SUCCESS"
                BY <1>1, <1>6, <2>8 DEF Answer, Final, dfs_unlink_timeout
            <4> QED  BY <1>2, <3>1, <3>2, <4>1 DEF Succeeded, Resolve
        <3>5. ASSUME NEW x \in local', remote'[x] \in {"absent", "dir"}
              PROVE  \E w \in Worker : (pc[w] = "unlink" /\ Succeeded(w) /\ arg[w].path = x)'
            <4>1. x \in local
                BY <1>2, <3>5
            <4>2. CASE x = p
                BY <1>2, <3>1, <3>2, <3>4, <4>2
            <4>3. CASE x # p
                <5>1. remote[x] \in {"absent", "dir"}
                    BY <1>1, <3>3, <3>5, <4>1, <4>3
                <5> QED  BY <1>4, <4>1, <5>1
            <4> QED  BY <4>2, <4>3
        <3> QED  BY <3>5 DEF OrphanInv
    <2> QED  BY <2>2, <2>3, <2>4, <2>5, <2>6, <2>7, <2>8
<1> QED  BY <1>5, <1>6 DEF Attempt, tree

(* A worker that no cache file waits for may go on.                        *)
LEMMA OrphanKeep ==
    ASSUME OrphanInv, remote' = remote, local' \subseteq local, NEW v \in Worker,
           \A x \in local' : ~(pc[v] = "unlink" /\ Succeeded(v) /\ arg[v].path = x),
           \A w \in Worker \ {v} : Unmoved(w)
    PROVE  OrphanInv'
<1> SUFFICES ASSUME NEW x \in local', remote[x] \in {"absent", "dir"}
             PROVE  \E w \in Worker : (pc[w] = "unlink" /\ Succeeded(w) /\ arg[w].path = x)'
    BY DEF OrphanInv
<1>1. PICK w \in Worker : pc[w] = "unlink" /\ Succeeded(w) /\ arg[w].path = x
    BY DEF OrphanInv
<1>2. w # v
    BY <1>1
<1>3. Unmoved(w)
    BY <1>2
<1> QED  BY <1>1, <1>3 DEF Unmoved, Succeeded

(* The handler that has unlinked it removes the cache file.                *)
LEMMA OrphanHandler ==
    ASSUME BaseInv, OrphanInv, NEW v \in Worker, Handler(v)
    PROVE  OrphanInv'
<1>1. ShapeInv /\ remote' = remote
    BY HandlerKeeps DEF BaseInv, tree
<1>2. \A w \in Worker \ {v} : Unmoved(w)
    BY <1>1, HandlerOthers
<1>3. CASE unlink_done(v)
    <2>1. \A x \in local' : x \in local /\ (Succeeded(v) => x # arg[v].path)
        BY <1>3 DEF unlink_done, Forget, cache
    <2> QED  BY <1>1, <1>2, <2>1, OrphanKeep
<1>4. CASE ~unlink_done(v)
    <2>1. pc[v] # "unlink"
        BY <1>4
        DEF Handler, Waiting, mkdir_done, mknod_done, rmdir_done, symlink_setattr,
            symlink_done, readlink_done, opendir_done, readdir_opendir, readdir_done,
            rename_dispatch, rename_unlink, dir_mkdir, dir_chdir, dir_opendir, dir_list,
            entry_namei, entry_rename, dir_rmdir, dir_done, Reply
    <2>2. local' = local
        BY <1>4
        DEF Handler, cache, mkdir_done, mknod_done, rmdir_done, symlink_setattr,
            symlink_done, readlink_done, opendir_done, readdir_opendir, readdir_done,
            rename_dispatch, rename_unlink, dir_mkdir, dir_chdir, dir_opendir, dir_list,
            entry_namei, entry_rename, dir_rmdir, dir_done, Reply
    <2> QED  BY <1>1, <1>2, <2>1, <2>2, OrphanKeep
<1> QED  BY <1>3, <1>4

(* A new request of fuse keeps OrphanInv. *)
LEMMA OrphanCall ==
    ASSUME BaseInv, OrphanInv, NEW v \in Worker, Call(v)
    PROVE  OrphanInv'
<1>1. ShapeInv /\ remote' = remote
    BY CallKeeps DEF BaseInv, tree
<1>2. \A w \in Worker \ {v} : Unmoved(w)
    BY <1>1, CallOthers
<1>3. pc[v] # "unlink"
    <2>1. call[v] = NULL
        BY DEF Call, dfs_mkdir, dfs_mknod, dfs_rmdir, dfs_symlink, dfs_readlink, dfs_opendir,
               dfs_readdir, readdir_no_cell, dfs_unlink, dfs_rename, EnterWith, Enter
    <2>2. pc[v] = NULL /\ NULL # "unlink"
        BY <2>1 DEF BaseInv, Own, ServeInv, Pc, RenamePc
    <2> QED  BY <2>2
<1>4. local' = local
    BY DEF Call, dfs_mkdir, dfs_mknod, dfs_rmdir, dfs_symlink, dfs_readlink, dfs_opendir,
           dfs_readdir, readdir_no_cell, dfs_unlink, dfs_rename, EnterWith, Enter, cache
<1> QED  BY <1>1, <1>2, <1>3, <1>4, OrphanKeep

(* NoOrphanCache: a cache file is of an object of the store, unless the    *)
(* call that removes or moves the object has still to return: dfs_unlink   *)
(* forgets it whenever its request has succeeded.  An answer that is lost  *)
(* takes that away: the repeated request finds nothing.                    *)
THEOREM NoOrphan ==
    ASSUME "lost" \notin Faults
    PROVE  Spec => []NoOrphanCache
<1>1. Init => OrphanInv
    BY DEF Init, OrphanInv
<1>2. BaseInv /\ OrphanInv /\ [Next]_vars => OrphanInv'
    <2> SUFFICES ASSUME BaseInv, OrphanInv, [Next]_vars PROVE OrphanInv'
        OBVIOUS
    <2>1. ASSUME NEW p \in Cacheable, Cached(p) PROVE OrphanInv'
        <3>1. remote[p] \notin {"absent", "dir"} /\ p \in Path
            BY <2>1 DEF Cached, There, IsDir
        <3> QED  BY <2>1, <3>1 DEF Cached, OrphanInv, Succeeded, tree, self, retryVars
    <2>2. CASE UNCHANGED vars
        BY <2>2 DEF OrphanInv, Succeeded, vars, tree, cache, self, retryVars
    <2> QED  BY <2>1, <2>2, OrphanAttempt, OrphanHandler, OrphanCall DEF Next
<1>3. BaseInv /\ OrphanInv => NoOrphanCache
    <2> SUFFICES ASSUME BaseInv, OrphanInv, NEW p \in local, remote[p] = "absent"
                 PROVE  \E w \in Worker : call[w] # NULL /\ \E x \in Alone(call[w]) : Under(x, p)
        BY DEF NoOrphanCache
    <2>1. PICK w \in Worker : pc[w] = "unlink" /\ Succeeded(w) /\ arg[w].path = p
        BY DEF OrphanInv
    <2>2. p \in Path /\ call \in [Worker -> Calls \cup {NULL}]
          /\ ServeInv(w) /\ ReachInv(w)
        BY DEF BaseInv, Own, ShapeInv
    <2>3. Serving(w) /\ call[w] \in Calls /\ call[w].op \in {"unlink", "rename"}
        <3>1. call[w] # NULL
            BY <2>1, <2>2 DEF ServeInv, Pc, RenamePc
        <3>2. Serving(w)
            BY <2>1, <3>1 DEF Serving
        <3>3. call[w].op \in {"unlink", "rename"}
            BY <2>1, <2>2, <3>2 DEF ServeInv, Stage
        <3> QED  BY <2>2, <3>1, <3>2, <3>3
    <2>4. CASE call[w].op = "unlink"
        <3>1. p = call[w].path /\ p \in Seq(Name)
            BY <2>1, <2>2, <2>3, <2>4 DEF ServeInv
        <3> QED  BY <2>3, <2>4, <3>1, UnderRefl DEF Alone, Paths, Serving
    <2>5. CASE call[w].op = "rename"
        <3>1. Reaches(call[w], p)
            BY <2>1, <2>2, <2>3, <2>5 DEF ServeInv, ReachInv
        <3>2. Under(call[w].path, p) \/ Under(call[w].to, p)
            BY <2>2, <2>5, <3>1 DEF Reaches, Touches
        <3> QED  BY <2>3, <2>5, <3>2 DEF Alone, Paths, Serving
    <2> QED  BY <2>3, <2>4, <2>5
<1> QED  BY <1>1, <1>2, <1>3, Base, PTL DEF Spec

-----------------------------------------------------------------------------
(* Listings, with one worker.                                              *)

(* A new request of fuse begins with no listing to account for. *)
LEMMA ListingCall ==
    ASSUME BaseInv, NEW w \in Worker, Call(w) PROVE ListingInv(w)'
<1>1. /\ rc \in [Worker -> Status \cup {NULL}] /\ pc \in [Worker -> Pc \cup {NULL}]
      /\ ret \in [Worker -> -1..1] /\ NULL # "DPL_SUCCESS"
    BY DEF BaseInv, ShapeInv, RetryTypeOK, Status
<1>2. CASE readdir_no_cell(w)
    <2>1. pc'[w] = "return" /\ ret'[w] = -1
        BY <1>1, <1>2 DEF readdir_no_cell
    <2> QED  BY <2>1 DEF ListingInv, Succeeds
<1>3. CASE ~readdir_no_cell(w)
    <2>1. rc'[w] = NULL /\ pc'[w] \notin {"return", "readdir_opendir"}
        BY <1>1, <1>3
        DEF Call, dfs_mkdir, dfs_mknod, dfs_rmdir, dfs_symlink, dfs_readlink, dfs_opendir,
            dfs_readdir, dfs_unlink, dfs_rename, EnterWith, Request, Begin
    <2> QED  BY <1>1, <2>1 DEF ListingInv, Succeeds, Succeeded
<1> QED  BY <1>2, <1>3

(* ctx enters the directory, then lists it.                                *)
LEMMA ListingAttempt ==
    ASSUME BaseInv, NEW w \in Worker, ListingInv(w), Attempt(w) PROVE ListingInv(w)'
<1>1. /\ ShapeInv /\ ServeInv(w) /\ Own(w) /\ rc \in [Worker -> Status \cup {NULL}]
      /\ list \in [Worker -> SUBSET Name] /\ NULL # "DPL_SUCCESS"
    BY DEF BaseInv, Own, ShapeInv, RetryTypeOK, Status
<1>2. UNCHANGED <<call, pc, arg, ret>> /\ call[w] # NULL /\ rc[w] = NULL /\ fn[w] # NULL
    BY DEF Attempt, Answer
<1>3. /\ Serving(w) /\ <<pc[w], fn[w]>> \in RequestAt /\ <<call[w].op, pc[w]>> \in Stage
      /\ pc[w] # "return"
    BY <1>1, <1>2, AttemptFrames DEF ServeInv, Serving
<1> DEFINE p == call[w].path
           s == StatusOf(fn[w], Resolve(arg[w].path), arg[w].to)
<1>4. /\ rc'[w] = "DPL_SUCCESS" =>
            /\ s = "DPL_SUCCESS"
            /\ cwd' = IF fn[w] = "dpl_chdir" THEN Resolve(arg[w].path) ELSE cwd
            /\ list'[w] = IF fn[w] = "dpl_opendir" THEN Names(remote, Resolve(arg[w].path))
                          ELSE list[w]
      /\ fn[w] # "dpl_chdir" => cwd' = cwd
      /\ fn[w] \in {"dpl_chdir", "dpl_opendir"} => remote' = remote
    <2>1. \A x : Answer(w, x) => rc'[w] \in {x, NULL}
        BY <1>1, <1>2 DEF Answer, ERR_TIMEOUT
    <2>2. "DPL_EIO" # "DPL_SUCCESS"
        OBVIOUS
    <2> QED  BY <1>1, <2>1, <2>2 DEF Attempt, Effect, tree
<1>5. CASE pc[w] = "readdir_chdir"
    <2>1. fn[w] = "dpl_chdir" /\ call[w].op = "readdir"
        BY <1>3, <1>5 DEF RequestAt, Stage, RenamePc, BelowPc
    <2>2. arg[w].path = p /\ p # NULL
        <3>1. call[w] \in Calls /\ p \in Seq(Name)
            BY <1>1, <1>2 DEF ShapeInv
        <3> QED  BY <1>1, <1>3, <1>5, <2>1, <3>1 DEF ServeInv
    <2> QED  BY <1>2, <1>4, <1>5, <2>1, <2>2 DEF ListingInv, Succeeded, Succeeds, Resolve
<1>6. CASE pc[w] = "readdir_opendir"
    <2>1. fn[w] = "dpl_opendir" /\ call[w].op = "readdir"
        BY <1>3, <1>6 DEF RequestAt, Stage, RenamePc, BelowPc
    <2>2. arg[w].path = NULL /\ cwd = p
        BY <1>1, <1>3, <1>6, <2>1 DEF ServeInv, ListingInv
    <2> QED  BY <1>2, <1>4, <1>6, <2>1, <2>2 DEF ListingInv, Succeeded, Succeeds, Resolve
<1>7. CASE pc[w] \notin {"readdir_chdir", "readdir_opendir"}
    BY <1>2, <1>3, <1>7 DEF ListingInv, Succeeds
<1> QED  BY <1>5, <1>6, <1>7

(* A step of the worker's own handler keeps ListingInv. *)
LEMMA ListingHandler ==
    ASSUME BaseInv, NEW w \in Worker, ListingInv(w), Handler(w) PROVE ListingInv(w)'
<1>1. /\ ShapeInv /\ rc \in [Worker -> Status \cup {NULL}] /\ pc \in [Worker -> Pc \cup {NULL}]
      /\ ret \in [Worker -> -1..1] /\ call \in [Worker -> Calls \cup {NULL}]
    BY DEF BaseInv, ShapeInv, RetryTypeOK
<1>2. remote' = remote
    BY HandlerKeeps DEF tree
<1>3. CASE Reply(w)
    <2>1. call'[w] = NULL /\ pc'[w] = NULL /\ NULL \notin Pc
        BY <1>1, <1>3 DEF Reply
    <2> QED  BY <2>1 DEF ListingInv, Succeeds, Pc
<1>4. CASE ~Reply(w) /\ readdir_opendir(w)
    <2>1. CASE Succeeded(w)
        <3>1. /\ pc[w] = "readdir_chdir" /\ pc'[w] = "readdir_opendir" /\ rc'[w] = NULL
              /\ UNCHANGED <<call, cwd>>
            BY <1>1, <1>4, <2>1 DEF readdir_opendir, Waiting, Request, Begin
        <3> QED  BY <2>1, <3>1 DEF ListingInv, Succeeds, Succeeded, Status
    <2>2. CASE ~Succeeded(w)
        <3>1. \E r \in {-1, 1} : Return(w, r)
            BY <1>4, <2>2 DEF readdir_opendir, RcAsRet
        <3>2. pc'[w] = "return" /\ ret'[w] # 0
            BY <1>1, <3>1 DEF Return
        <3> QED  BY <3>2 DEF ListingInv, Succeeds
    <2> QED  BY <2>1, <2>2
<1>5. CASE ~Reply(w) /\ readdir_done(w)
    <2>1. PICK r \in -1..1 : Return(w, r) /\ (r = 0 => Succeeded(w))
        BY <1>5 DEF readdir_done, RcAsRet
    <2>2. /\ pc[w] = "readdir_opendir" /\ pc'[w] = "return" /\ ret'[w] = r
          /\ UNCHANGED <<call, list>>
        BY <1>1, <1>5, <2>1 DEF Return, readdir_done, Waiting
    <2> QED  BY <1>2, <2>1, <2>2 DEF ListingInv, Succeeds, Names
<1>6. CASE ~Reply(w) /\ ~readdir_opendir(w) /\ ~readdir_done(w)
    <2>1. call[w] # NULL /\ <<call[w].op, pc[w]>> \in Stage
          /\ pc[w] \notin {"readdir_chdir", "readdir_opendir"}
        BY <1>6, HandlerAt DEF RenamePc, BelowPc
    <2>2. call[w].op # "readdir"
        BY <2>1 DEF Stage, RenamePc, BelowPc
    <2>3. call'[w] = call[w] \/ call'[w] = NULL
        BY <1>1, HandlerKeeps
    <2>4. pc'[w] \notin {"readdir_chdir", "readdir_opendir"}
        BY <1>1, <1>6
        DEF Handler, Request, Return, Leave, mkdir_done, mknod_done, rmdir_done,
            symlink_setattr, symlink_done, readlink_done, opendir_done, unlink_done,
            rename_dispatch, rename_unlink, rename_file, rename_directory, dir_mkdir,
            dir_chdir, dir_opendir, dir_list, entry_namei, entry_rename, dir_rmdir, dir_done
    <2> QED  BY <2>2, <2>3, <2>4 DEF ListingInv, Succeeds
<1> QED  BY <1>3, <1>4, <1>5, <1>6

(* ListsItsDirectory: with one worker (-s) a listing that readdir reports  *)
(* as good has the names of the directory it was asked for.  The current   *)
(* directory of ctx is one for all workers: with two, another call's chdir *)
(* may come between the chdir and the opendir of readdir.                  *)
THEOREM Lists ==
    ASSUME \A v, w \in Worker : v = w
    PROVE  Spec => []ListsItsDirectory
<1> DEFINE Inv == \A w \in Worker : ListingInv(w)
<1>1. Init => Inv
    BY DEF Init, ListingInv, Succeeds, Pc, RenamePc
<1>2. BaseInv /\ Inv /\ [Next]_vars => Inv'
    <2> SUFFICES ASSUME BaseInv, Inv, [Next]_vars, NEW w \in Worker PROVE ListingInv(w)'
        OBVIOUS
    <2>1. ListingInv(w)
        OBVIOUS
    <2>2. CASE Call(w) \/ Attempt(w) \/ Handler(w)
        BY <2>1, <2>2, ListingCall, ListingAttempt, ListingHandler
    <2>3. ASSUME NEW p \in Cacheable, Cached(p) PROVE ListingInv(w)'
        BY <2>1, <2>3
        DEF Cached, ListingInv, Succeeds, Succeeded, Names, tree, self, retryVars
    <2>4. CASE UNCHANGED vars
        BY <2>1, <2>4
        DEF ListingInv, Succeeds, Succeeded, Names, vars, tree, self, retryVars
    <2>5. \A v \in Worker : v = w
        OBVIOUS
    <2> QED  BY <2>2, <2>3, <2>4, <2>5 DEF Next
<1>3. Inv => ListsItsDirectory
    BY DEF ListingInv, ListsItsDirectory
<1> HIDE DEF Inv
<1> QED  BY <1>1, <1>2, <1>3, Base, PTL DEF Spec
=============================================================================
