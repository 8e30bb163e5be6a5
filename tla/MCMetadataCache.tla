-------------------------- MODULE MCMetadataCache --------------------------
(* A small instance of MetadataCache: "/" and one file in it.              *)
EXTENDS MetadataCache, TLC

CONSTANTS root, f
FileOfRoot == [p \in {f} |-> root]
=============================================================================
