------------------------------- MODULE Mount -------------------------------
(***************************************************************************)
(* The life of the process around FileCache: main configures and mounts    *)
(* (dropletfs.c, conf.c, env.c), dfs_init starts the collector, a session  *)
(* ends by an unmount or by a signal, dfs_destroy removes the cache files  *)
(* and releases everything, and the program may be killed at any time and  *)
(* started again over what is left in the cache directory.                 *)
(*                                                                         *)
(* libfuse ends a session between two requests: its workers finish what    *)
(* they have begun.  A release that the kernel has not sent yet is lost.   *)
(* The collector is never stopped: it runs on beside dfs_destroy.          *)
(***************************************************************************)
EXTENDS FileCache, Conf

CONSTANT Setups    \* what the program may be started with

(* A file is text; a directory is in another one, and none has no name.    *)
ASSUME MountAssumption ==
    \A s \in Setups :
        /\ s.file \in Seq([key : STRING, text : STRING])
        /\ <<"">> \notin s.dirs
        /\ \A d \in s.dirs : Len(d) > 1 => SubSeq(d, 1, Len(d) - 1) \in s.dirs

VARIABLES
    main,     \* where the main thread is
    setup,    \* what it is started with, NULL when not read yet or no more
    conf,     \* the configuration, NULL before conf_ctor
    todo      \* paths g_hash_table_foreach has still to visit

mainvars  == <<main, setup, conf, todo>>
mountvars == <<vars, mainvars>>

MountInit ==
    /\ Init
    /\ main = "stopped" /\ setup = NULL /\ conf = NULL /\ todo = {}

start ==
    /\ main = "stopped"
    /\ main' = "start" /\ setup' \in Setups
    /\ UNCHANGED <<vars, conf, todo>>

(* main: conf_new, conf_ctor.                                              *)
configure ==
    /\ main = "start"
    /\ main' = "configured" /\ conf' = conf_log(conf_ctor(setup))
    /\ UNCHANGED <<vars, setup, todo>>

(* dfs_fuse_main and dfs_init.                                             *)
dfs_init ==
    /\ main = "configured" /\ ~conf.misuse
    /\ main' = "mounted" /\ setup' = NULL
    /\ UNCHANGED <<vars, conf, todo>>

GcStarted == conf.int["gc_loop_delay"] # 0 /\ conf.int["gc_age_threshold"] # 0

(* A request is served.                                                    *)
Serve(h) ==
    /\ main = "mounted"
    /\ \/ Kernel(h) \/ dfs_open(h) \/ create_namei(h)
       \/ Working(h) \/ dfs_write(h) \/ dfs_release(h)
    /\ UNCHANGED mainvars

(* The kernel forgets, time passes, the collector works.                   *)
Beside ==
    /\ main \in {"mounted", "destroy", "emptied"}
    /\ \/ \E p \in Path : KernelForget(p)
       \/ \E i \in Inode : Age(i)
       \/ GcStarted /\ (GcStep \/ \E p \in Path : gc_callback(p))
    /\ UNCHANGED mainvars

(* fuse_main leaves its loop, and libfuse calls dfs_destroy.               *)
session_end ==
    /\ main = "mounted"
    /\ \A h \in Handle : pc[h] \in IdlePc
    /\ main' = "destroy"
    /\ todo' = {p \in Path : hash[p] # NULL}
    /\ UNCHANGED <<vars, setup, conf>>

(* Mutant: the wrong placeholder.                                          *)
cb_hash_unlink_mutated(p) ==
    /\ main = "destroy" /\ p \in todo
    /\ todo' = todo \ {p}
    /\ local' = IF hash[p] # NULL /\ cell[hash[p]].ondisk = "FILE_REMOTE"
                THEN [local EXCEPT ![p] = NULL] ELSE local
    /\ UNCHANGED <<table, data, young, store, pc, call, fh, private, gcvars, main, setup, conf>>

cb_hash_unlink(p) ==
    /\ main = "destroy" /\ p \in todo
    /\ todo' = todo \ {p}
    /\ local' = IF hash[p] # NULL /\ cell[hash[p]].ondisk = "FILE_LOCAL"
                THEN [local EXCEPT ![p] = NULL] ELSE local
    /\ UNCHANGED <<table, data, young, store, pc, call, fh, private, gcvars, main, setup, conf>>

(* g_hash_table_remove_all.                                                *)
remove_all ==
    /\ main = "destroy" /\ todo = {}
    /\ main' = "emptied"
    /\ hash' = [p \in Path |-> NULL]
    /\ cell' = [x \in Pe |-> pentry_free]
    /\ UNCHANGED <<disk, store, pc, call, fh, private, gcvars, setup, conf, todo>>

(* conf_free: dfs_destroy then logs by the configuration it has released,  *)
(* and main releases it once more; the behaviour is undefined.             *)
destroy_conf ==
    /\ main = "emptied"
    /\ main' = "undefined"
    /\ UNCHANGED <<vars, setup, conf, todo>>

(* The process is gone, by its own doing or killed.  To the next one what  *)
(* the directory holds is left over.                                       *)
exit ==
    /\ main # "stopped"
    /\ main' = "stopped" /\ setup' = NULL /\ conf' = NULL /\ todo' = {}
    /\ hash' = [p \in Path |-> NULL] /\ cell' = [x \in Pe |-> pentry_free]
    /\ dentry' = {} /\ UNCHANGED <<local, remote>>
    /\ data' = [i \in Inode |-> "stale"] /\ young' = {}
    /\ pc'   = [h \in Handle |-> "closed"]
    /\ call' = [h \in Handle |-> NULL] /\ fh' = call' /\ lfd' = call' /\ etag' = call'
    /\ wrote' = [h \in Handle |-> 0]
    /\ gcpc' = "idle" /\ gcpe' = NULL /\ gcpath' = NULL

MountNext ==
    \/ start \/ configure \/ dfs_init
    \/ \E h \in Handle : Serve(h)
    \/ Beside
    \/ session_end \/ (\E p \in Path : cb_hash_unlink(p)) \/ remove_all \/ destroy_conf
    \/ exit

MountSpec == MountInit /\ [][MountNext]_mountvars

-----------------------------------------------------------------------------
Named(k) == \E i \in Effective(setup) : setup.file[i].key = k

(* What conf_ctor makes of a field, when the last word on it is text.      *)
Meaning(k, text) ==
    CASE text = NoText   -> conf_ctor_default.int[k]
      [] text # NoText   -> strtoul(text)

(* Every number the program runs with is the one of the variable of the    *)
(* environment, else of the last line of the file that counts, else the    *)
(* default, and every string too, whatever the other lines and variables   *)
(* are (profiling is set by a profiling_logfile line as well).             *)
Precedence ==
    main = "configured" =>
        /\ \A k \in IntKey :
              \/ conf.int[k] = Meaning(k, Source(setup, k))
              \/ k = "profiling" /\ Named("profiling_logfile")
        /\ \A k \in StrKey :
              conf.str[k].text = IF Source(setup, k) = NoText
                                 THEN conf_ctor_default.str[k].text
                                 ELSE Source(setup, k)

(* conf.c: the cache directory is <directory>/<bucket name>, so that two   *)
(* buckets do not share their cache files, and it is there: for the        *)
(* default and for the last directory the file gives, when HOME is set and *)
(* the directories and their names are (an empty name adds the bucket      *)
(* twice).                                                                 *)
CacheDirReady ==
    LET named == {i \in 1..Len(setup.file) : setup.file[i].key = "cache_dir"}
        base  == LastLine(setup, "cache_dir")
    IN /\ main = "configured" /\ setup.home /\ <<"/tmp">> \in setup.dirs
       /\ \A i \in named : <<setup.file[i].text>> \in setup.dirs \cup {<<NoText>>}
       => /\ conf.str["cache_dir"].text
                = <<IF base = NoText THEN "/tmp" ELSE base, Bucket>>
          /\ conf.str["cache_dir"].text \in Read(setup).dirs

(* No string is released twice or read after, and none that is not the     *)
(* configuration's own, from the defaults to the log of the configuration, *)
(* except by a profiling_logfile (its default is a constant), a log_level  *)
(* without a value, or a pattern of the environment that does not compile  *)
(* after a pattern of the file.                                            *)
ConfMemorySafe ==
    main = "configured" /\ conf.misuse =>
        \/ Source(setup, "profiling_logfile") # NoText
        \/ \E i \in Effective(setup) :
              setup.file[i].key = "log_level" /\ setup.file[i].text = ""
        \/ /\ Named("exclusion_pattern")
           /\ setup.env["exclusion_pattern"] \in Malformed \cup {""}

(* With the collector off, dfs_destroy leaves no copy of a remote file in  *)
(* the cache directory, whatever was open when the session ended: only     *)
(* what an earlier mount left.  (With the collector on, an open or a       *)
(* lookup that it overtakes may leave a copy no cell stands for.)          *)
CopiesRemoved ==
    /\ main = "destroy" /\ todo = {}
    /\ ~GcStarted
    => \A p \in Path : local[p] # NULL => data[local[p]] = "stale"

(* A cache file that dfs_destroy removes is not the only copy of what an   *)
(* application wrote: the store has it too, or a handle of the path has    *)
(* not been released (its release, and the upload, never come).            *)
OnlyCopyKept ==
    [][\A p \in Path :
        /\ main = "destroy" /\ main' = main /\ gcvars' = gcvars
        /\ local[p] # NULL /\ local'[p] = NULL
        /\ data[local[p]] \in Handle \ {remote[p]}
        => \E h \in Handle : call[h] # NULL /\ PathOf(h) = p]_mountvars
=============================================================================
