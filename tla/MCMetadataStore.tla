-------------------------- MODULE MCMetadataStore --------------------------
(* MetadataStore on paths of at most two components over two names.        *)
EXTENDS MetadataStore, TLC

Symmetry == Permutations(Name) \cup Permutations(Meta)
=============================================================================
