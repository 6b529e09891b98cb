--------------------------- MODULE MCStorageNode ---------------------------
(* StorageNode on one object and a few overlapping writes.                 *)
EXTENDS StorageNode
=============================================================================
