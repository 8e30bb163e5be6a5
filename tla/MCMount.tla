------------------------------ MODULE MCMount ------------------------------
(* Small instances of Mount: files of two lines, and environments.         *)
EXTENDS Mount, TLC

C(acc, flags) == {[acc |-> acc, flags |-> flags, path |-> p] : p \in Path}
WriteCalls == C("O_WRONLY", {"O_CREAT"}) \cup C("O_WRONLY", {"O_APPEND"})

Numbers   == [n \in {"7", "900"} |-> IF n = "7" THEN 7 ELSE 900]
LogLevels == [n \in {"LOG_ERR", "LOG_DEBUG"} |-> IF n = "LOG_ERR" THEN 3 ELSE 7]

L(k, t) == [key |-> k, text |-> t]
Lines == {L("gc_loop_delay", "0"), L("gc_loop_delay", "7"),
          L("gc_loop_delay", NoText), L("gc_age_threshold", ""),
          L("compression_level", "7"), L("compression_method", ""),
          L("compression_method", "zlib"), L("profiling", "7"),
          L("profiling_logfile", "/log"), L("log_level", "LOG_DEBUG"),
          L("log_level", ""), L("exclusion_pattern", "doc"),
          L("cache_dir", "/data"), L("cache_dir", ""), L("cache_dir", "/nowhere")}

NoEnv == [k \in Key |-> NoText]
Envs == {NoEnv,
         [NoEnv EXCEPT !["gc_loop_delay"] = "", !["exclusion_pattern"] = ""],
         [NoEnv EXCEPT !["gc_loop_delay"] = "900", !["compression_method"] = ""],
         [NoEnv EXCEPT !["gc_age_threshold"] = "x", !["exclusion_pattern"] = "tmp"],
         [NoEnv EXCEPT !["profiling"] = "7", !["exclusion_pattern"] = "["],
         [NoEnv EXCEPT !["profiling_logfile"] = "/log", !["log_level"] = "x"]}

Dirs == {<<"/tmp">>, <<"/data">>}

S(home, file, env, dirs) == [home |-> home, file |-> file, env |-> env, dirs |-> dirs]
SetupsOfTwoLines ==
    {S(TRUE, f, e, Dirs) : f \in {<<>>} \cup [1..1 -> Lines] \cup [1..2 -> Lines], e \in Envs}
    \cup {S(FALSE, <<>>, e, Dirs) : e \in Envs}
    \cup {S(TRUE, <<l>>, NoEnv, {<<"/data">>}) : l \in Lines}

Symmetry == Permutations(Handle) \cup Permutations(Pe) \cup Permutations(Inode)

(* While mounted only the delays of the collector matter of the            *)
(* configuration; inodes nothing refers to are the same.                   *)
View ==
    <<[i \in Inode |-> IF FreeInode(i) THEN NULL ELSE <<data[i], i \in young>>],
      hash, [x \in Pe |-> [cell[x] EXCEPT !.flag = NULL]], local, store, pc, call,
      fh, lfd, etag, gcvars, main, todo,
      CASE main = "stopped" -> <<>>
        [] main = "start" -> <<setup>>
        [] main = "configured" -> <<setup, conf>>
        [] OTHER -> <<GcStarted>> >>
=============================================================================
