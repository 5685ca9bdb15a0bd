------------------------------ MODULE LRUCache ------------------------------
(***************************************************************************)
(* The block cache of util/cache.cc: ShardedLRUCache, an array of          *)
(* kNumShards LRUCache shards chosen by the top kNumShardBits bits of a    *)
(* key's hash.  Every public LRUCache method takes the shard's mutex_ for *)
(* its whole body, so each is one atomic step; client threads interleave  *)
(* between them, holding handles across steps.  ShardedLRUCache::Prune    *)
(* and TotalCharge visit the shards one at a time, each under that       *)
(* shard's mutex_ only.  TotalCharge reads and changes nothing, so it is  *)
(* not an action.                                                          *)
(*                                                                         *)
(* Entries are numbered in creation order (one per Insert).  The          *)
(* HandleTable is abstracted to the map from a key to the entry it holds  *)
(* (its buckets and Resize keep that map; see HandleTable.tla).  The      *)
(* circular lists are sequences: lru_ oldest first, in_use_ a set (the    *)
(* code keeps it "in no particular order").                                *)
(***************************************************************************)
EXTENDS Integers, Sequences, FiniteSets, FiniteSetsExt

CONSTANTS
  Keys,          \* keys
  KeyHash,       \* HashSlice: each key's 32-bit hash
  NumShardBits,  \* kNumShardBits
  Charges,       \* charges callers pass to Insert
  Clients,       \* client threads
  Capacity,      \* the capacity passed to NewLRUCache
  MaxInserts,    \* bound: Insert calls in a behaviour
  MaxHold,       \* bound: handles one client holds at a time
  MaxIds         \* bound: NewId calls in a behaviour

Entries == 1..MaxInserts
None == 0
NoKey == "none"   \* key_data of an entry not allocated yet

kNumShards == 2^NumShardBits
ShardIds == 0..(kNumShards - 1)

\* ShardedLRUCache::Shard: the top kNumShardBits bits of the hash.
Shard(hash) == hash \div 2^(32 - NumShardBits)

\* The ShardedLRUCache constructor: capacity split in kNumShards, rounded up.
PerShard == (Capacity + (kNumShards - 1)) \div kNumShards

VARIABLES
  refs, in_cache, ekey, charge,  \* the fields of each LRUHandle
  lru,        \* lru[s]: shard s's lru_, entries with refs == 1 and in_cache, oldest first
  in_use,     \* in_use[s]: shard s's in_use_, entries referenced by clients and in the cache
  usage,      \* usage[s]: shard s's usage_
  table,      \* table[s]: shard s's table_, key -> the entry it maps to, or None
  deleted,    \* history: how often each entry's deleter has run
  held,       \* held[c][e]: handles on e that client c has not released
  nextId,     \* the entry the next Insert allocates
  destroyed,  \* the cache has been destroyed
  last_id     \* ShardedLRUCache::last_id_

vars == <<refs, in_cache, ekey, charge, lru, in_use, usage, table, deleted,
          held, nextId, destroyed, last_id>>

\* ShardedLRUCache::HashSlice: Hash(s.data(), s.size(), 0), given per key.
HashSlice(k) == KeyHash[k]

\* The shard Insert, Lookup and Erase of ShardedLRUCache send a key to.
KeyShard(k) == Shard(HashSlice(k))

\* The shard an entry lives in: Shard(e->hash).
ShardOf(e) == Shard(HashSlice(ekey[e]))

\* Shard s's state as a record, so that the helpers compose as calls do.
St(s) == [refs |-> refs, in_cache |-> in_cache, ekey |-> ekey, charge |-> charge,
          lru |-> lru[s], in_use |-> in_use[s], usage |-> usage[s], table |-> table[s],
          deleted |-> deleted]

SetShard(s, S) ==
  /\ refs' = S.refs /\ in_cache' = S.in_cache /\ ekey' = S.ekey
  /\ charge' = S.charge /\ deleted' = S.deleted
  /\ lru' = [lru EXCEPT ![s] = S.lru] /\ in_use' = [in_use EXCEPT ![s] = S.in_use]
  /\ usage' = [usage EXCEPT ![s] = S.usage] /\ table' = [table EXCEPT ![s] = S.table]

(***************************************************************************)
(* LRU_Remove unlinks e from whichever list it is on; LRU_Append links it  *)
(* as the newest entry of a list.                                          *)
(***************************************************************************)
LRU_Remove(S, e) ==
  [S EXCEPT !.lru = SelectSeq(@, LAMBDA x : x # e), !.in_use = @ \ {e}]

AppendLru(S, e)   == [S EXCEPT !.lru = Append(@, e)]
AppendInUse(S, e) == [S EXCEPT !.in_use = @ \cup {e}]

\* Mutant: Ref does not move an entry off lru_ when a client takes it.
RefNoMove(S, e) == [S EXCEPT !.refs[e] = @ + 1]

\* Mutant: Ref moves the entry but does not count the new reference.
RefNoIncrement(S, e) ==
  IF S.refs[e] = 1 /\ S.in_cache[e] THEN AppendInUse(LRU_Remove(S, e), e) ELSE S

\* Ref: an entry on lru_ (refs == 1, in_cache) moves to in_use_; refs++.
Ref(S, e) ==
  LET S1 == IF S.refs[e] = 1 /\ S.in_cache[e] THEN AppendInUse(LRU_Remove(S, e), e) ELSE S
  IN [S1 EXCEPT !.refs[e] = @ + 1]

\* Mutant: an entry dropping to one reference goes back to lru_ even when
\* it is no longer in the cache.
UnrefNoInCacheCheck(S, e) ==
  LET S1 == [S EXCEPT !.refs[e] = @ - 1]
  IN IF S1.refs[e] = 0 THEN [S1 EXCEPT !.deleted[e] = @ + 1]
     ELSE IF S1.refs[e] = 1 THEN AppendLru(LRU_Remove(S1, e), e)
     ELSE S1

\* Unref: refs--; at 0 the deleter runs and e is freed; an entry still in
\* the cache left with only the cache's reference moves to lru_.
Unref(S, e) ==
  LET S1 == [S EXCEPT !.refs[e] = @ - 1]
  IN IF S1.refs[e] = 0 THEN [S1 EXCEPT !.deleted[e] = @ + 1]
     ELSE IF S1.in_cache[e] /\ S1.refs[e] = 1 THEN AppendLru(LRU_Remove(S1, e), e)
     ELSE S1

\* Mutant: the charge of an erased entry is not given back.
FinishEraseKeepUsage(S, e) ==
  IF e = None THEN S
  ELSE Unref([LRU_Remove(S, e) EXCEPT !.in_cache[e] = FALSE], e)

\* Mutant: the cache's reference is not dropped when an entry leaves it.
FinishEraseNoUnref(S, e) ==
  IF e = None THEN S
  ELSE [LRU_Remove(S, e) EXCEPT !.in_cache[e] = FALSE, !.usage = @ - S.charge[e]]

\* FinishErase(e): e has left the table; unlink it, clear in_cache, give
\* back its charge and drop the cache's reference.
FinishErase(S, e) ==
  IF e = None THEN S
  ELSE Unref([LRU_Remove(S, e) EXCEPT !.in_cache[e] = FALSE,
                                      !.usage = @ - S.charge[e]], e)

\* Mutant: an existing entry for the key is kept and h is not linked.
TableInsertKeepOld(S, e) ==
  IF S.table[S.ekey[e]] = None THEN <<None, [S EXCEPT !.table[S.ekey[e]] = e]>>
  ELSE <<None, S>>

\* HandleTable::Insert(h): h replaces the entry with its key; returns the old.
TableInsert(S, e) == <<S.table[S.ekey[e]], [S EXCEPT !.table[S.ekey[e]] = e]>>

\* HandleTable::Remove(key): unlinks and returns the entry with that key.
TableRemove(S, k) == <<S.table[k], [S EXCEPT !.table[k] = None]>>

EraseKey(S, k) == LET r == TableRemove(S, k) IN FinishErase(r[2], r[1])

\* The loop of Insert (and of Prune, with no limit): erase the oldest
\* unused entry while usage_ is above limit; at most one round per entry.
\* Mutant: the loop takes lru_.prev, the newest unused entry.
RECURSIVE EvictWhileNewest(_, _, _)
EvictWhileNewest(S, limit, d) ==
  IF d > 0 /\ S.usage > limit /\ S.lru # <<>>
  THEN EvictWhileNewest(EraseKey(S, S.ekey[S.lru[Len(S.lru)]]), limit, d - 1)
  ELSE S

RECURSIVE EvictWhile(_, _, _)
EvictWhile(S, limit, d) ==
  IF d > 0 /\ S.usage > limit /\ S.lru # <<>>
  THEN EvictWhile(EraseKey(S, S.ekey[Head(S.lru)]), limit, d - 1)
  ELSE S

EvictOverCapacity(S) == EvictWhile(S, PerShard, MaxInserts)

HeldBy(c) == MapThenSumSet(LAMBDA e : held[c][e], Entries)

(***************************************************************************)
(* ShardedLRUCache::Insert routes to shard_[Shard(hash)], whose            *)
(* LRUCache::Insert allocates e with refs = 1 for the returned handle; if  *)
(* capacity_ > 0, adds the cache's reference, puts e on in_use_, charges  *)
(* it and replaces any entry with its key (FinishErase of what             *)
(* HandleTable::Insert returns); then evicts from lru_ while over capacity.*)
(***************************************************************************)
Insert(c, k, ch) ==
  /\ ~destroyed
  /\ nextId <= MaxInserts
  /\ HeldBy(c) < MaxHold
  /\ LET e  == nextId
         s  == KeyShard(k)
         S0 == [St(s) EXCEPT !.refs[e] = 1, !.in_cache[e] = FALSE, !.ekey[e] = k, !.charge[e] = ch]
         S1 == IF PerShard > 0
               THEN LET S2 == AppendInUse([S0 EXCEPT !.refs[e] = 2, !.in_cache[e] = TRUE,
                                                     !.usage = @ + ch], e)
                        r  == TableInsert(S2, e)
                    IN FinishErase(r[2], r[1])
               ELSE S0
     IN /\ SetShard(s, EvictOverCapacity(S1))
        /\ held' = [held EXCEPT ![c][e] = @ + 1]
        /\ nextId' = nextId + 1
  /\ UNCHANGED <<destroyed, last_id>>

\* Lookup: Ref the entry shard_[Shard(hash)]'s table maps the key to, if any.
Lookup(c, k) ==
  LET s == KeyShard(k)
  IN /\ ~destroyed
     /\ table[s][k] # None
     /\ HeldBy(c) < MaxHold
     /\ SetShard(s, Ref(St(s), table[s][k]))
     /\ held' = [held EXCEPT ![c][table[s][k]] = @ + 1]
     /\ UNCHANGED <<nextId, destroyed, last_id>>

\* Release: Unref the handle's entry in shard_[Shard(h->hash)].
Release(c, e) ==
  /\ held[c][e] > 0
  /\ SetShard(ShardOf(e), Unref(St(ShardOf(e)), e))
  /\ held' = [held EXCEPT ![c][e] = @ - 1]
  /\ UNCHANGED <<nextId, destroyed, last_id>>

\* Erase: FinishErase(table_.Remove(key)) in shard_[Shard(hash)].
Erase(k) ==
  /\ ~destroyed
  /\ SetShard(KeyShard(k), EraseKey(St(KeyShard(k)), k))
  /\ UNCHANGED <<held, nextId, destroyed, last_id>>

(***************************************************************************)
(* ShardedLRUCache::Prune calls LRUCache::Prune on shard 0, 1, ... in     *)
(* turn, each under that shard's mutex_ alone, and other calls interleave *)
(* between them.  A call on one shard touches nothing of another, so the  *)
(* loop is modelled as its rounds, PruneShard(s), each of which may come  *)
(* at any time: every behaviour of the loop is one of these.              *)
(* LRUCache::Prune erases every entry on lru_.                            *)
(***************************************************************************)
PruneShard(s) ==
  /\ ~destroyed
  /\ SetShard(s, EvictWhile(St(s), -1, MaxInserts))
  /\ UNCHANGED <<held, nextId, destroyed, last_id>>

\* ShardedLRUCache::Prune: one of its rounds (see above).
Prune == \E s \in ShardIds : PruneShard(s)

\* NewId: ++last_id_ under id_mutex_.
NewId ==
  /\ last_id < MaxIds
  /\ last_id' = last_id + 1
  /\ UNCHANGED <<refs, in_cache, ekey, charge, lru, in_use, usage, table, deleted,
                 held, nextId, destroyed>>

\* ~LRUCache, once every client has released its handles: each entry on
\* lru_ leaves the cache and is Unref'ed.
RECURSIVE DestroyLru(_, _)
DestroyLru(S, d) ==
  IF d > 0 /\ S.lru # <<>>
  THEN LET e == Head(S.lru)
       IN DestroyLru(Unref([S EXCEPT !.lru = Tail(@), !.in_cache[e] = FALSE], e), d - 1)
  ELSE S

\* ~ShardedLRUCache destroys shard_[0..kNumShards-1] in order.
DestroyShards[i \in 0..kNumShards] ==
  IF i = 0 THEN [refs |-> refs, in_cache |-> in_cache, deleted |-> deleted]
  ELSE LET G == DestroyShards[i - 1]
           S == DestroyLru([St(i - 1) EXCEPT !.refs = G.refs, !.in_cache = G.in_cache,
                                             !.deleted = G.deleted], MaxInserts)
       IN [refs |-> S.refs, in_cache |-> S.in_cache, deleted |-> S.deleted]

Destroy ==
  /\ ~destroyed
  /\ \A c \in Clients : HeldBy(c) = 0
  /\ \A s \in ShardIds : in_use[s] = {}
  /\ refs' = DestroyShards[kNumShards].refs
  /\ in_cache' = DestroyShards[kNumShards].in_cache
  /\ deleted' = DestroyShards[kNumShards].deleted
  /\ lru' = [s \in ShardIds |-> <<>>]
  /\ destroyed' = TRUE
  /\ UNCHANGED <<ekey, charge, in_use, usage, table, held, nextId, last_id>>

\* The ShardedLRUCache constructor: last_id_ 0, each shard's LRUCache() with
\* empty lists and usage_ 0, then SetCapacity(per_shard).
Init ==
  /\ refs = [e \in Entries |-> 0]
  /\ in_cache = [e \in Entries |-> FALSE]
  /\ ekey = [e \in Entries |-> NoKey]
  /\ charge = [e \in Entries |-> 0]
  /\ lru = [s \in ShardIds |-> <<>>]
  /\ in_use = [s \in ShardIds |-> {}]
  /\ usage = [s \in ShardIds |-> 0]
  /\ table = [s \in ShardIds |-> [k \in Keys |-> None]]
  /\ deleted = [e \in Entries |-> 0]
  /\ held = [c \in Clients |-> [e \in Entries |-> 0]]
  /\ nextId = 1
  /\ destroyed = FALSE
  /\ last_id = 0

Next ==
  \/ \E c \in Clients, k \in Keys, ch \in Charges : Insert(c, k, ch)
  \/ \E c \in Clients, k \in Keys : Lookup(c, k)
  \/ \E c \in Clients, e \in Entries : Release(c, e)
  \/ \E k \in Keys : Erase(k)
  \/ Prune
  \/ NewId
  \/ Destroy

Spec == Init /\ [][Next]_vars

-----------------------------------------------------------------------------
(***************************************************************************)
(* Properties.                                                             *)
(***************************************************************************)
Created == 1..(nextId - 1)
Live    == {e \in Created : deleted[e] = 0}
Handles(e) == MapThenSumSet(LAMBDA c : held[c][e], Clients)
OnLru(s, e) == \E i \in DOMAIN lru[s] : lru[s][i] = e

TypeOK ==
  /\ refs \in [Entries -> Nat] /\ in_cache \in [Entries -> BOOLEAN]
  /\ ekey \in [Entries -> Keys \cup {NoKey}] /\ charge \in [Entries -> Charges \cup {0}]
  /\ lru \in [ShardIds -> Seq(Entries)] /\ in_use \in [ShardIds -> SUBSET Entries]
  /\ usage \in [ShardIds -> Nat] /\ table \in [ShardIds -> [Keys -> Entries \cup {None}]]
  /\ deleted \in [Entries -> Nat] /\ held \in [Clients -> [Entries -> Nat]]
  /\ nextId \in 1..(MaxInserts + 1) /\ destroyed \in BOOLEAN
  /\ last_id \in 0..MaxIds
  /\ \A e \in Created : ShardOf(e) \in ShardIds

(***************************************************************************)
(* The invariant of the comment at the top of cache.cc and of the lru_ /  *)
(* in_use_ declarations, for every shard: every entry in the cache is on  *)
(* exactly one list of exactly one shard, the shard its hash selects;     *)
(* lru_ if only the cache references it (refs == 1), in_use_ if a client  *)
(* does too (refs >= 2); an entry out of the cache is on no list, and     *)
(* each shard's table maps a key exactly to the entry of that shard in    *)
(* the cache with that key.  Before the destructor, which leaves the      *)
(* lists behind.                                                           *)
(***************************************************************************)
ListsMatchRefs ==
  ~destroyed =>
    \A s \in ShardIds :
      /\ \A i, j \in DOMAIN lru[s] : i # j => lru[s][i] # lru[s][j]
      /\ \A e \in Created :
           /\ OnLru(s, e) <=> (ShardOf(e) = s /\ deleted[e] = 0 /\ in_cache[e] /\ refs[e] = 1)
           /\ (e \in in_use[s]) <=> (ShardOf(e) = s /\ deleted[e] = 0 /\ in_cache[e] /\ refs[e] >= 2)
      /\ \A k \in Keys, e \in Created :
           table[s][k] = e <=> (ShardOf(e) = s /\ deleted[e] = 0 /\ in_cache[e] /\ ekey[e] = k)

(***************************************************************************)
(* Reference accounting across clients: an entry's refs is the cache's    *)
(* reference (while in_cache) plus every handle clients still hold on it; *)
(* the deleter runs at most once, and exactly when the last reference goes,*)
(* so no client ever holds a handle to a freed entry.                      *)
(***************************************************************************)
RefsAccount ==
  \A e \in Created :
    /\ deleted[e] <= 1
    /\ deleted[e] = 0 =>
         refs[e] = (IF in_cache[e] THEN 1 ELSE 0) + Handles(e)
    /\ deleted[e] = 1 => (Handles(e) = 0 /\ ~in_cache[e])

(***************************************************************************)
(* Each shard's usage_ is the sum of the charges of its entries in the     *)
(* cache, through replacement by a duplicate Insert, Erase, eviction and  *)
(* a Prune that interleaves with the other calls shard by shard.           *)
(***************************************************************************)
UsageAccount ==
  ~destroyed =>
    \A s \in ShardIds :
      usage[s] = MapThenSumSet(LAMBDA e : IF ShardOf(e) = s /\ in_cache[e] /\ deleted[e] = 0
                                          THEN charge[e] ELSE 0,
                               Created)

(***************************************************************************)
(* The eviction loop of Insert removes the least recently used entries:   *)
(* the entries an Insert evicts from its shard's lru_ all stood before     *)
(* every entry it left there.  lru_'s order is the order in which entries *)
(* became unused (Insert's own reference, Unref's LRU_Append on the last  *)
(* client Release), so this holds only if the loop takes lru_.next and    *)
(* every path onto lru_ appends at lru_.prev.  The entry a duplicate      *)
(* Insert replaces leaves the list wherever it stands and is not counted. *)
(***************************************************************************)
EvictsOldestFirst ==
  [][nextId' # nextId =>
       LET s == KeyShard(ekey'[nextId])
           q == lru[s]
           Evicted(e) == ~in_cache'[e] /\ ekey[e] # ekey'[nextId]
           Kept(e) == \E j \in DOMAIN lru'[s] : lru'[s][j] = e
       IN \A i, j \in DOMAIN q : i < j /\ Kept(q[i]) => ~Evicted(q[j])]_vars

(***************************************************************************)
(* Lookup never returns a stale value: the entry a shard's table gives    *)
(* for a key comes from the latest Insert of that key (a duplicate Insert *)
(* replaces the older entry even while a client holds it).                 *)
(***************************************************************************)
LookupNeverStale ==
  \A s \in ShardIds, k \in Keys : table[s][k] # None =>
    \A e \in Created : e > table[s][k] => ekey[e] # k

(***************************************************************************)
(* Once the cache is destroyed (after every handle was released), the     *)
(* deleter of every entry ever inserted has run exactly once: none leaks. *)
(***************************************************************************)
NoLeakAtDestroy ==
  destroyed => \A e \in Created : deleted[e] = 1

=============================================================================
