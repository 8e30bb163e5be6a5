-------------------------------- MODULE Conf --------------------------------
(***************************************************************************)
(* The configuration of dropletfs: how conf_ctor (conf.c) builds it from   *)
(* its defaults, the lines of $HOME/.dplfsrc and the environment (env.c),  *)
(* and who owns the strings it points to.                                  *)
(*                                                                         *)
(* A line is a record: its key (spaces, case and comments are gone) and    *)
(* the text after the "=" and the spaces that follow it, NoText when there *)
(* is no "=".  A path is the sequence of the names of its directories.     *)
(***************************************************************************)
EXTENDS Naturals, Sequences

CONSTANTS
    Bucket,     \* ctx->cur_bucket, as the name of a directory
    Number,     \* text -> what strtoul makes of it
    LogLevel,   \* the names of the syslog levels -> their numbers
    Malformed   \* patterns regcomp refuses

ASSUME ConfAssumption == Bucket \in STRING

NoText == "(none)"

IntKey == {"zlib_level", "max_retry", "gc_loop_delay", "gc_age_threshold",
           "sc_loop_delay", "sc_age_threshold", "cache_max_size", "profiling"}
StrKey == {"compression_method", "encryption_method", "profiling_logfile"}
Key    == IntKey \cup StrKey \cup {"cache_dir", "exclusion_pattern", "log_level"}

DEFAULT_LOG_LEVEL == 3
LOG_DEBUG == 7

strtoul(text) == IF text \in DOMAIN Number THEN Number[text] ELSE 0

str_to_log_level(text) ==
    IF text \in DOMAIN LogLevel THEN LogLevel[text] ELSE DEFAULT_LOG_LEVEL

(* A char pointer: the text it points to, and the memory it is in: of its  *)
(* own (strdup), a constant of the program, released, or none (NULL).      *)
Heap(text)    == [text |-> text, mem |-> "heap"]
Literal(text) == [text |-> text, mem |-> "literal"]
Null          == [text |-> NoText, mem |-> "null"]
Freed(s)      == [s EXCEPT !.mem = "freed"]

(* if (s) free(s): an error unless the memory is the pointer's own.        *)
BadFree(s) == s.mem \in {"literal", "freed"}

(* conf->regex.set says whether a pattern was compiled; misuse whether the *)
(* program has released or read memory it must not.                        *)
conf_ctor_default ==
    [int |-> [k \in IntKey |->
                CASE k = "zlib_level" -> 3
                  [] k = "max_retry" -> 5
                  [] k = "gc_loop_delay" -> 60
                  [] k = "gc_age_threshold" -> 900
                  [] k = "cache_max_size" -> 10 * 1024 * 1024
                  [] OTHER -> 0],
     str |-> [compression_method |-> Heap("NONE"),
              encryption_method  |-> Heap("NONE"),
              profiling_logfile  |-> Literal("/tmp/dplfs_trace.log"),
              cache_dir          |-> Heap(<<"/tmp">>),
              exclusion_pattern  |-> Null],
     log_level |-> DEFAULT_LOG_LEVEL,
     set       |-> 0,
     misuse    |-> FALSE]

(* A string field gets a copy of the text and the old one is released.     *)
SetStr(c, k, text) ==
    [c EXCEPT !.str[k] = Heap(text), !.misuse = @ \/ BadFree(c.str[k])]

parse_int(c, k, text) == [c EXCEPT !.int[k] = strtoul(text)]

(* Mutant: the old text is released before the new one is looked at.       *)
parse_str_mutated(c, k, text) ==
    IF text = ""
    THEN [c EXCEPT !.str[k] = Freed(@), !.misuse = @ \/ BadFree(c.str[k])]
    ELSE SetStr(c, k, text)

parse_str(c, k, text) == IF text = "" THEN c ELSE SetStr(c, k, text)

(* A directory there is, or that mkdir can make.                           *)
Makable(parent, name, dirs) == Append(parent, name) \in dirs \/ parent \in dirs

(* What a step of the parsing returns: the configuration, the directories  *)
(* there are, and FALSE for -1.                                            *)
Result(c, dirs, ok) == [conf |-> c, dirs |-> dirs, ok |-> ok]

(* Mutant: the name of the bucket is not appended.                         *)
conf_set_full_cache_dir_mutated(c, dirs) ==
    Result(c, dirs, c.str["cache_dir"].text \in dirs)

conf_set_full_cache_dir(c, dirs) ==
    LET root == c.str["cache_dir"].text
        dir  == Append(root, Bucket)
        full == SetStr(c, "cache_dir", dir)
    IN IF Makable(root, Bucket, dirs)
       THEN Result(full, dirs \cup {dir}, TRUE)
       ELSE Result(full, dirs, FALSE)

(* The log level's text is in a pointer of its own, NULL when the text is  *)
(* empty, which strcmp then reads.                                         *)
parse_log_level(c, text) ==
    IF text = "" THEN [c EXCEPT !.misuse = TRUE]
    ELSE [c EXCEPT !.log_level = str_to_log_level(text)]

(* The keys are compared up to their own length: "profiling_logfile" is    *)
(* taken for "profiling" as well.                                          *)
parse_token(c, dirs, line) ==
    LET k == line.key
        v == line.text
    IN CASE k \notin Key -> Result(c, dirs, TRUE)
         [] k \in Key /\ v = NoText -> Result(c, dirs, FALSE)
         [] OTHER ->
            CASE k \in IntKey -> Result(parse_int(c, k, v), dirs, TRUE)
              [] k = "profiling_logfile" ->
                    Result(parse_str(parse_int(c, "profiling", v), k, v), dirs, TRUE)
              [] k \in StrKey \ {"profiling_logfile"} ->
                    Result(parse_str(c, k, v), dirs, TRUE)
              [] k = "exclusion_pattern" -> Result(parse_str(c, k, v), dirs, TRUE)
              [] k = "log_level" -> Result(parse_log_level(c, v), dirs, TRUE)
              [] k = "cache_dir" ->
                    conf_set_full_cache_dir(
                        IF v = "" THEN c ELSE SetStr(c, k, <<v>>), dirs)

(* The first line that does not parse is the last one read.                *)
parse_file(r, lines) ==
    LET read[i \in 0..Len(lines)] ==
            IF i = 0 THEN r
            ELSE IF ~read[i - 1].ok THEN read[i - 1]
            ELSE parse_token(read[i - 1].conf, read[i - 1].dirs, lines[i])
    IN read[Len(lines)]

(* Mutant: a variable that is set but empty counts.                        *)
env_generic_set_int_mutated(field, text) ==
    IF text = NoText THEN field ELSE strtoul(text)

(* A variable that is not set, or empty, changes nothing.                  *)
env_generic_set_int(field, text) ==
    IF text \in {NoText, ""} THEN field ELSE strtoul(text)
env_generic_set_str(field, text) ==
    IF text \in {NoText, ""} THEN field ELSE Heap(text)

env_set_log_level(c, env) ==
    IF env["log_level"] \in {NoText, ""} THEN c
    ELSE [c EXCEPT !.log_level = str_to_log_level(env["log_level"])]

(* re_dtor releases the pattern a line gave; re_ctor does not forget it    *)
(* when the new one is empty or does not compile.                          *)
env_set_exclusion_pattern(c, env) ==
    LET text == env["exclusion_pattern"]
        old  == c.str["exclusion_pattern"]
        fits == text # "" /\ text \notin Malformed
    IN IF text = NoText THEN c
       ELSE [c EXCEPT !.misuse = @ \/ BadFree(old),
                      !.set    = IF fits THEN 1 ELSE 0,
                      !.str["exclusion_pattern"] =
                          IF fits THEN Heap(text)
                          ELSE IF old = Null THEN Null ELSE Freed(old)]

(* Each variable has a field of its own, so their order does not matter.   *)
env_override_conf(c, env) ==
    LET str == [k \in StrKey |-> env_generic_set_str(c.str[k], env[k])] IN
    env_set_exclusion_pattern(env_set_log_level(
        [c EXCEPT !.int = [k \in IntKey |-> env_generic_set_int(@[k], env[k])],
                  !.str = [k \in DOMAIN @ |-> IF k \in StrKey THEN str[k] ELSE @[k]],
                  !.misuse = @ \/ \E k \in StrKey : /\ env[k] \notin {NoText, ""}
                                                   /\ BadFree(c.str[k])],
        env), env)

(* What the program is started with: whether HOME is set, the lines of the *)
(* file (none when it cannot be read), the environment, and directories.   *)
Read(setup) ==
    LET full == conf_set_full_cache_dir(conf_ctor_default, setup.dirs) IN
    IF ~setup.home THEN Result(conf_ctor_default, setup.dirs, TRUE)
    ELSE IF ~full.ok THEN full
    ELSE parse_file(full, setup.file)

conf_ctor(setup) == env_override_conf(Read(setup).conf, setup.env)

(* conf_log prints every string.                                           *)
conf_log(c) ==
    [c EXCEPT !.misuse = @ \/ \E k \in DOMAIN c.str : c.str[k].mem = "freed"]

-----------------------------------------------------------------------------
(* Reference: the lines that take effect, those before the first without   *)
(* an "=" or with a directory that cannot be made.                         *)
Effective(setup) ==
    LET bad(line) ==
            \/ line.key \in Key /\ line.text = NoText
            \/ line.key = "cache_dir" /\ line.text # "" /\ <<line.text>> \notin setup.dirs
    IN {i \in 1..Len(setup.file) :
            /\ setup.home /\ <<"/tmp">> \in setup.dirs
            /\ \A j \in 1..i : ~bad(setup.file[j])}

(* The last of them that names k.                                          *)
LastLine(setup, k) ==
    LET lines == {i \in Effective(setup) :
                    setup.file[i].key = k
                    /\ (k \in StrKey => setup.file[i].text # "")}
    IN IF lines = {} THEN NoText
       ELSE setup.file[CHOOSE i \in lines : \A j \in lines : j <= i].text

(* Where a field comes from: the environment before the file, the file     *)
(* before the default, and in the file the last line that names it.        *)
Source(setup, k) ==
    IF setup.env[k] \notin {NoText, ""} THEN setup.env[k] ELSE LastLine(setup, k)
=============================================================================
