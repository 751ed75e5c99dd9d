---------------------------- MODULE MCBlobStore ----------------------------
(* Small instances of BlobStore for TLC: every blob has size one, and the   *)
(* quota of bytes is the one that binds.                                    *)
EXTENDS BlobStore
UnitSize == [h \in Hashes |-> 1]
=============================================================================
