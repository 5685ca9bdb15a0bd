----------------------------- MODULE MCLRUCache -----------------------------
(***************************************************************************)
(* The sharded cache for TLC.  Four shards (kNumShardBits = 2): ka, kb    *)
(* and kc hash alike into shard 0, kd into shard 1, and shards 2 and 3    *)
(* stay empty.  NewLRUCache(5) gives each shard (5 + 3) / 4 = 2, so the   *)
(* shards together may hold 8, more than asked for.  With charges 1 and  *)
(* 2, one Insert into shard 0 can push it over capacity by more than one *)
(* entry (two unused entries evicted by one Insert), and a duplicate key *)
(* replaces an entry a client still holds.  Two clients hold one handle  *)
(* each: every call is atomic under a shard's mutex, so what matters is  *)
(* how many handles are held, on which entries, not by whom.  ka, kb and *)
(* kc are interchangeable, as are the clients: every property checked is *)
(* a safety property, so symmetry reduction is sound.  Hashes stay below *)
(* 2^31, the largest integer TLC represents; the shards they reach are   *)
(* the ones that matter.                                                  *)
(***************************************************************************)
EXTENDS LRUCache, TLC

CONSTANTS ka, kb, kc, kd   \* the keys, as model values

MCKeyHash == [k \in Keys |-> IF k = kd THEN 2^30 + 7 ELSE 3]

MCSymmetry == Permutations({ka, kb, kc}) \cup Permutations(Clients)
====
