-------------------------- MODULE MCDistributedFS --------------------------
(* DistributedFS on small sets of clients, paths and storage nodes.        *)
EXTENDS DistributedFS, TLC

Symmetry == Permutations(Storage) \cup Permutations(Client) \cup Permutations(Path)
=============================================================================
