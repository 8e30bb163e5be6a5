------------------------ MODULE FileCacheRefinement ------------------------
(***************************************************************************)
(* FileCache implements ExclusiveFile for the handles that write, when     *)
(* nothing fails and the collector is off: the holder of a file is the     *)
(* owner of its cell's mutex, the draft is what the cell's descriptor      *)
(* leads to.                                                               *)
(***************************************************************************)
EXTENDS FileCache

CellOf(p)  == cell[hash[p]]
Draft(p)   == IF hash[p] = NULL \/ CellOf(p).fd = NULL THEN NULL
              ELSE data[CellOf(p).fd.ino]
Holder(p)  == IF hash[p] = NULL THEN NULL ELSE CellOf(p).mutex

Exclusive == INSTANCE ExclusiveFile WITH
    content <- remote,
    draft   <- [p \in Path |-> Draft(p)],
    holder  <- [p \in Path |-> Holder(p)]

(* Writers of one file take turns, each starts from what the store has or  *)
(* from nothing, and when its close has returned the store has what it     *)
(* left in the cache file, whatever opens and closes run meanwhile         *)
(* (open.c, write.c, release.c).                                           *)
WritersTakeTurns == Exclusive!FairSpec
=============================================================================
