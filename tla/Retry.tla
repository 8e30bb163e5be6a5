------------------------------- MODULE Retry -------------------------------
(***************************************************************************)
(* The wrappers of timeout.c around the requests of libdroplet.  A wrapper *)
(* repeats its request until the store gives a status it takes as final,   *)
(* or max_retry repetitions have been spent, and returns the last status.  *)
(* The pauses between attempts (sleep, twice as long each time) are the    *)
(* passing of time and have no state of their own.                         *)
(***************************************************************************)
EXTENDS Naturals

CONSTANTS
    Worker,     \* threads that make requests
    MaxRetry,   \* conf->max_retry
    NULL

VARIABLES
    fn,         \* worker -> the request it makes, NULL before the first
    tries,      \* worker -> repetitions so far
    rc          \* worker -> status the wrapper returned, NULL while it runs

retryVars == <<fn, tries, rc>>

Fn == {"dpl_getattr", "dpl_setattr", "dpl_mknod", "dpl_mkdir", "dpl_unlink",
       "dpl_rmdir", "dpl_fcopy", "dpl_chdir", "dpl_opendir", "dpl_namei",
       "dpl_head_all"}

(* DPL_EIO stands for every status no wrapper and no handler tests for.    *)
Status == {"DPL_SUCCESS", "DPL_ENOENT", "DPL_EISDIR", "DPL_EINVAL", "DPL_EIO"}

ASSUME RetryAssumption ==
    /\ MaxRetry \in Nat
    /\ NULL \notin Fn \cup Status

-----------------------------------------------------------------------------
(* The statuses each wrapper returns at once.                              *)
dfs_getattr_timeout  == {"DPL_SUCCESS", "DPL_EISDIR", "DPL_ENOENT"}
dfs_setattr_timeout  == {"DPL_SUCCESS", "DPL_EISDIR"}
dfs_mknod_timeout    == {"DPL_SUCCESS"}
dfs_mkdir_timeout    == {"DPL_SUCCESS", "DPL_ENOENT"}
dfs_unlink_timeout   == {"DPL_SUCCESS", "DPL_ENOENT"}
dfs_rmdir_timeout    == {"DPL_SUCCESS", "DPL_ENOENT"}
dfs_fcopy_timeout    == {"DPL_SUCCESS", "DPL_ENOENT"}
dfs_chdir_timeout    == {"DPL_SUCCESS", "DPL_EINVAL"}
dfs_opendir_timeout  == {"DPL_SUCCESS", "DPL_ENOENT"}
dfs_namei_timeout    == {"DPL_SUCCESS", "DPL_ENOENT"}
dfs_head_all_timeout == {"DPL_SUCCESS", "DPL_ENOENT"}

Final(f) ==
    CASE f = "dpl_getattr"  -> dfs_getattr_timeout
      [] f = "dpl_setattr"  -> dfs_setattr_timeout
      [] f = "dpl_mknod"    -> dfs_mknod_timeout
      [] f = "dpl_mkdir"    -> dfs_mkdir_timeout
      [] f = "dpl_unlink"   -> dfs_unlink_timeout
      [] f = "dpl_rmdir"    -> dfs_rmdir_timeout
      [] f = "dpl_fcopy"    -> dfs_fcopy_timeout
      [] f = "dpl_chdir"    -> dfs_chdir_timeout
      [] f = "dpl_opendir"  -> dfs_opendir_timeout
      [] f = "dpl_namei"    -> dfs_namei_timeout
      [] f = "dpl_head_all" -> dfs_head_all_timeout

-----------------------------------------------------------------------------
RetryInit ==
    /\ fn    = [w \in Worker |-> NULL]
    /\ tries = [w \in Worker |-> 0]
    /\ rc    = [w \in Worker |-> NULL]

(* A handler calls the wrapper of f.                                       *)
Begin(w, f) ==
    /\ fn[w] = NULL \/ rc[w] # NULL
    /\ fn'    = [fn EXCEPT ![w] = f]
    /\ tries' = [tries EXCEPT ![w] = 0]
    /\ rc'    = [rc EXCEPT ![w] = NULL]

(* Mutant: the repetition is counted in the macro and again around it.     *)
ERR_TIMEOUT_mutated(w) ==
    /\ tries' = [tries EXCEPT ![w] = tries[w] + 2]
    /\ UNCHANGED <<fn, rc>>

ERR_TIMEOUT(w) ==
    /\ tries' = [tries EXCEPT ![w] = tries[w] + 1]
    /\ UNCHANGED <<fn, rc>>

(* Mutant: the repetitions are not counted.                                *)
Answer_mutated(w, s) ==
    /\ fn[w] # NULL /\ rc[w] = NULL
    /\ rc' = [rc EXCEPT ![w] = IF s \in Final(fn[w]) THEN s ELSE NULL]
    /\ UNCHANGED <<fn, tries>>

(* An attempt ends with status s.                                          *)
Answer(w, s) ==
    /\ fn[w] # NULL /\ rc[w] = NULL
    /\ IF s \notin Final(fn[w]) /\ tries[w] < MaxRetry
       THEN ERR_TIMEOUT(w)
       ELSE rc' = [rc EXCEPT ![w] = s] /\ UNCHANGED <<fn, tries>>

(* The handler that called the wrapper has returned.                       *)
End(w) ==
    /\ rc[w] # NULL
    /\ fn'    = [fn EXCEPT ![w] = NULL]
    /\ tries' = [tries EXCEPT ![w] = 0]
    /\ rc'    = [rc EXCEPT ![w] = NULL]

-----------------------------------------------------------------------------
(* The type of the state; no wrapper counts beyond max_retry.              *)
RetryTypeOK ==
    /\ fn \in [Worker -> Fn \cup {NULL}]
    /\ tries \in [Worker -> 0..MaxRetry]
    /\ rc \in [Worker -> Status \cup {NULL}]
=============================================================================
