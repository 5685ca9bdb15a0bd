---------------------------- MODULE MCHandleTable ----------------------------
(***************************************************************************)
(* HandleTable for TLC: five keys (a fifth element makes Insert grow the  *)
(* table from 4 to 8 buckets), hashes 0 and 4: keys may share a full hash,*)
(* and 0 and 4 share a bucket at length 4 and not at length 8.  The keys  *)
(* are byte strings in two prefix pairs, so that when a pair shares a     *)
(* hash only the size test of operator== tells them apart.               *)
(***************************************************************************)
EXTENDS HandleTable

MCKeys == {<<1>>, <<1, 0>>, <<0>>, <<0, 1>>, <<2>>}
MCHashes == {0, 4}

\* Two Hash() functions.  In the first, each prefix pair shares a full
\* hash, <<2>> collides with the first pair, and the second pair shares
\* bucket 0 with the others at length 4 and moves to bucket 4 at length 8.
\* In the second, all five keys share one full hash and one chain.
MCKeyHashes == {[k \in MCKeys |-> IF k[1] = 0 THEN 4 ELSE 0],
                [k \in MCKeys |-> 0]}
====
