----------------------------- MODULE MCMemTable -----------------------------
(***************************************************************************)
(* MemTable instantiated for TLC: two user keys, one a prefix of the      *)
(* other (so that Slice::compare must fall back to the sizes), one       *)
(* reader, three Adds, skip list of height 2 (so a node can be linked at *)
(* level 0 and not yet at level 1 while a reader descends past it).       *)
(***************************************************************************)
EXTENDS MemTable

MCKeys == {<<1>>, <<1, 0>>}
====
