----------------------------- MODULE HashMapAbs -----------------------------
(***************************************************************************)
(* What HandleTable promises LRUCache: a map from a key to the one handle *)
(* stored for it.  Insert(h) stores h under its key and returns the handle *)
(* it replaces (or NULL); Remove(k) unlinks and returns the handle stored *)
(* under k (or NULL).  Each call is atomic (the caller holds the shard's  *)
(* mutex).                                                                 *)
(***************************************************************************)
CONSTANTS Keys, NULL

VARIABLES
  amap,   \* amap[k]: the handle stored under k, or NULL
  aret    \* the handle the last call returned

AInit ==
  /\ amap = [k \in Keys |-> NULL]
  /\ aret = NULL

\* Insert of some handle h with key k: h is what amap' holds under k.
AInsert(k) ==
  /\ amap'[k] # NULL /\ amap'[k].key = k
  /\ aret' = amap[k]
  /\ amap' = [amap EXCEPT ![k] = amap'[k]]

ARemove(k) ==
  /\ aret' = amap[k]
  /\ amap' = [amap EXCEPT ![k] = NULL]

ANext == \E k \in Keys : ARemove(k) \/ AInsert(k)

ASpec == AInit /\ [][ANext]_<<amap, aret>>

=============================================================================
