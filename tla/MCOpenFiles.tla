---------------------------- MODULE MCOpenFiles ----------------------------
(* Small instances of OpenFiles: which calls applications make.            *)
EXTENDS OpenFiles, TLC

C(acc, flags) == {[acc |-> acc, flags |-> flags, path |-> p] : p \in Path}

(* Creation, and append to what is there.                                  *)
WriteCalls == C("O_WRONLY", {"O_CREAT"}) \cup C("O_WRONLY", {"O_APPEND"})

Symmetry == Permutations(Handle) \cup Permutations(Pe) \cup Permutations(Inode)

(* A handle whose path was taken away has a freed cell: all that is left   *)
(* to it is to follow the pointer.                                         *)
Lost(h) == pc[h] = "undefined" \/ h \in hidden

(* Two states that differ only in inodes nothing refers to, in "wrote" and *)
(* the flags of the cells, which nothing tests, or in what lost handles    *)
(* had, are the same.                                                      *)
View ==
    <<[i \in Inode |-> IF FreeInode(i) THEN NULL ELSE <<data[i], GcOn /\ i \in young>>],
      hash, [x \in Pe |-> [cell[x] EXCEPT !.flag = NULL]], local, store,
      [h \in Handle |-> IF Lost(h) THEN NULL ELSE <<pc[h], call[h]>>],
      fh, lfd, etag, gcvars, treevars>>
=============================================================================
