---------------------------- MODULE MCNamespace ----------------------------
(* Small instances of Namespace: a tree, and the calls made on it.         *)
EXTENDS Namespace

Put(x, p, v) == [x EXCEPT ![p] = v]
Bare == [p \in Path |-> IF p = << >> THEN "dir" ELSE "absent"]

C(op, paths) == {[op |-> op, path |-> p, to |-> p] : p \in paths}
Rename(src, dst) == [op |-> "rename", path |-> src, to |-> dst]

(* /d/s/g and /d/s/h: with both of them below s, 6 buffers are taken while *)
(* s is renamed, with one of them 3.                                       *)
d == <<"d">>
e == <<"e">>
ds == <<"d", "s">>
es == <<"e", "s">>
df == <<"d", "f">>
dsg == <<"d", "s", "g">>
dsh == <<"d", "s", "h">>
esg == <<"e", "s", "g">>
esh == <<"e", "s", "h">>

SerialPath == {<< >>, d, e, ds, es, dsg, dsh, esg, esh}
SerialTree == Put(Put(Put(Put(Bare, d, "dir"), ds, "dir"), dsg, "x"), dsh, "y")
SerialCalls ==
    {Rename(d, e), Rename(dsh, esh)} \cup C("mkdir", {e})
    \cup C("opendir", {<< >>, d}) \cup C("readdir", {<< >>, d, e})
    \cup C("unlink", {dsg}) \cup C("mknod", {dsg})
    \cup C("symlink", {dsg}) \cup C("readlink", {dsg})
SomeFiles == {dsg}

(* Two workers: a directory is renamed, made and removed while another is  *)
(* listed through the current directory they share.                        *)
eh == <<"e", "h">>
PairPath == {<< >>, d, ds, df, dsg, <<"d", "f", "g">>, e, eh}
PairTree == Put(Put(Put(Put(Put(Bare, d, "dir"), ds, "dir"), dsg, "x"),
                    e, "dir"), eh, "y")
PairCalls ==
    {Rename(ds, df)} \cup C("mkdir", {df}) \cup C("rmdir", {df})
    \cup C("opendir", {e}) \cup C("readdir", {e})
=============================================================================
