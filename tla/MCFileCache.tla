---------------------------- MODULE MCFileCache ----------------------------
(* Small instances of FileCache: which calls applications make.            *)
EXTENDS FileCacheRefinement, TLC

C(acc, flags) == {[acc |-> acc, flags |-> flags, path |-> p] : p \in Path}

ReadCalls   == C("O_RDONLY", {})
CreateCalls == C("O_WRONLY", {"O_CREAT"})
AppendCalls == C("O_WRONLY", {"O_APPEND"})
RdwrCalls   == C("O_RDWR", {})
StatCalls   == C("stat", {})
(* creat of a file to read, and append with creation.                      *)
ReadCreateCalls   == C("O_RDONLY", {"O_CREAT"})
AppendCreateCalls == C("O_WRONLY", {"O_APPEND", "O_CREAT"})

WriterCalls == CreateCalls \cup AppendCalls \cup RdwrCalls
PlainCalls  == ReadCalls \cup CreateCalls \cup AppendCalls
AllCalls    == WriterCalls \cup ReadCalls \cup ReadCreateCalls
               \cup AppendCreateCalls \cup StatCalls

ExcludeCalls == WriterCalls \cup ReadCalls \cup AppendCreateCalls

Symmetry == Permutations(Handle) \cup Permutations(Pe) \cup Permutations(Inode)

(* Two states that differ only in inodes nothing refers to, or in "wrote"  *)
(* and the flags of the cells, which nothing tests, are the same.          *)
View ==
    <<[i \in Inode |-> IF FreeInode(i) THEN NULL ELSE <<data[i], GcOn /\ i \in young>>],
      hash, [x \in Pe |-> [cell[x] EXCEPT !.flag = NULL]], local, store, pc, call,
      fh, lfd, etag, gcvars>>
=============================================================================
