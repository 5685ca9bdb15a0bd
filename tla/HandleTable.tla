----------------------------- MODULE HandleTable -----------------------------
(***************************************************************************)
(* HandleTable (util/cache.cc): the chained hash table of an LRUCache     *)
(* shard.  list_ has length_ buckets (a power of two); bucket              *)
(* hash & (length_ - 1) chains the handles through next_hash.  Insert      *)
(* replaces a handle with the same key and hash in place or links the new  *)
(* one at the end of the chain, and grows the table when elems_ exceeds   *)
(* length_.  Each call runs under the shard's mutex, so it is one step.   *)
(*                                                                         *)
(* A handle is [key, hash, id]; the hash of each key is drawn once per    *)
(* behaviour from a small set, so that distinct keys share a full hash,   *)
(* share a bucket at one length and not at the next, or do not collide.  *)
(***************************************************************************)
EXTENDS Integers, Sequences, FiniteSets, Slice

SE == INSTANCE SequencesExt

CONSTANTS
  Keys,       \* keys: byte strings, compared with Slice operator==
  Hashes,     \* the hash values keys may have
  KeyHashes,  \* the possible Hash(key) functions, a subset of [Keys -> Hashes]
  MaxOps      \* bound: Insert/Remove calls in a behaviour

NULL == [key |-> <<>>, hash |-> 0, id |-> 0]   \* no handle has id 0

VARIABLES
  length,   \* length_
  elems,    \* elems_
  list,     \* list_: [0..length_-1 -> the chain of a bucket, as a sequence]
  hashOf,   \* the hash Hash(key) gives each key in this behaviour
  ret,      \* the handle the last call returned
  ops       \* calls made so far (the id of the next handle)

vars == <<length, elems, list, hashOf, ret, ops>>

Handles == [key : Keys, hash : Hashes, id : 1..MaxOps]

\* hash & (length_ - 1); length_ is a power of two (TypeOK), so this is
\* the remainder of hash by length_.
Bucket(hash, len) == hash % len

(***************************************************************************)
(* FindPointer(key, hash): the slot of the first handle of the bucket's   *)
(* chain with this hash and key, or the trailing NULL slot: as            *)
(* <<bucket, index>>, index Len(chain) + 1 for the trailing slot.          *)
(***************************************************************************)
\* Mutant: the chain walk compares hashes only.
FindPointerHashOnly(k, hash) ==
  LET b == Bucket(hash, length)
      c == list[b]
      m == {i \in DOMAIN c : c[i].hash = hash}
  IN <<b, IF m = {} THEN Len(c) + 1 ELSE SE!Min(m)>>

FindPointer(k, hash) ==
  LET b == Bucket(hash, length)
      c == list[b]
      m == {i \in DOMAIN c : c[i].hash = hash /\ SliceEqual(c[i].key, k)}
  IN <<b, IF m = {} THEN Len(c) + 1 ELSE SE!Min(m)>>

SlotValue(p) == IF p[2] <= Len(list[p[1]]) THEN list[p[1]][p[2]] ELSE NULL

\* HandleTable::Lookup: *FindPointer(key, hash).
Lookup(k) == SlotValue(FindPointer(k, hashOf[k]))

(***************************************************************************)
(* Resize: the smallest power of two >= 4 that is not below elems_; every *)
(* chain of the old array, bucket by bucket and in chain order, is pushed *)
(* onto the front of its new bucket (so chains come out reversed).         *)
(***************************************************************************)
\* Mutant: the length grown by one bucket at a time instead of doubled.
RECURSIVE NewLengthByOne(_, _)
NewLengthByOne(n, e) == IF n < e THEN NewLengthByOne(n + 1, e) ELSE n

RECURSIVE NewLength(_, _)
NewLength(n, e) == IF n < e THEN NewLength(n * 2, e) ELSE n

\* Mutant: handles rehashed with the old length's mask.
RehashOldMask(l, oldLen, newLen) ==
  SE!FoldLeft(LAMBDA nl, h : [nl EXCEPT ![Bucket(h.hash, oldLen)] = <<h>> \o @],
           [j \in 0..(newLen - 1) |-> <<>>],
           SE!FlattenSeq([i \in 1..oldLen |-> l[i - 1]]))

Rehash(l, oldLen, newLen) ==
  SE!FoldLeft(LAMBDA nl, h : [nl EXCEPT ![Bucket(h.hash, newLen)] = <<h>> \o @],
           [j \in 0..(newLen - 1) |-> <<>>],
           SE!FlattenSeq([i \in 1..oldLen |-> l[i - 1]]))

\* Resize as a step of Insert: the new length_ and list_.
ResizeTo(l, oldLen, e) ==
  LET nl == NewLength(4, e) IN <<nl, Rehash(l, oldLen, nl)>>

(***************************************************************************)
(* HandleTable::Insert(h): *ptr = h (h inherits old's next_hash, so it    *)
(* takes old's place in the chain, or ends the chain); a new key counts   *)
(* one more element and may trigger Resize.  Returns old.                  *)
(***************************************************************************)
\* Mutant: the table grows only once it holds twice length_ elements.
NeedsResizeLate(e, len) == e > 2 * len

NeedsResize(e, len) == e > len

Insert(k) ==
  /\ ops < MaxOps
  /\ LET h   == [key |-> k, hash |-> hashOf[k], id |-> ops + 1]
         p   == FindPointer(k, h.hash)
         old == SlotValue(p)
         l1  == [list EXCEPT ![p[1]] = IF old = NULL THEN Append(@, h) ELSE [@ EXCEPT ![p[2]] = h]]
         e1  == IF old = NULL THEN elems + 1 ELSE elems
         rs  == ResizeTo(l1, length, e1)
     IN /\ ret' = old
        /\ elems' = e1
        /\ IF old = NULL /\ NeedsResize(e1, length)
           THEN length' = rs[1] /\ list' = rs[2]
           ELSE length' = length /\ list' = l1
  /\ ops' = ops + 1
  /\ UNCHANGED hashOf

\* HandleTable::Remove(key, hash): *ptr = result->next_hash; --elems_.
Remove(k) ==
  /\ ops < MaxOps
  /\ LET p      == FindPointer(k, hashOf[k])
         result == SlotValue(p)
     IN /\ ret' = result
        /\ IF result # NULL
           THEN /\ list' = [list EXCEPT ![p[1]] = SE!RemoveAt(@, p[2])]
                /\ elems' = elems - 1
           ELSE UNCHANGED <<list, elems>>
  /\ ops' = ops + 1
  /\ UNCHANGED <<length, hashOf>>

\* HandleTable(): length_ 0, elems_ 0, list_ NULL, then Resize() to 4 buckets.
Init ==
  /\ hashOf \in KeyHashes
  /\ length = NewLength(4, 0)
  /\ elems = 0
  /\ list = [j \in 0..(length - 1) |-> <<>>]
  /\ ret = NULL
  /\ ops = 0

Next == \E k \in Keys : Insert(k) \/ Remove(k)

Spec == Init /\ [][Next]_vars

-----------------------------------------------------------------------------
(***************************************************************************)
(* Properties.                                                             *)
(***************************************************************************)
TypeOK ==
  /\ length \in {4, 8, 16}
  /\ elems \in 0..MaxOps
  /\ list \in [0..(length - 1) -> Seq(Handles)]
  /\ ret \in Handles \cup {NULL}
  /\ ops \in 0..MaxOps

(***************************************************************************)
(* The table's shape: each handle sits in the bucket its hash selects at  *)
(* the current length_, no key is stored twice, elems_ counts the handles,*)
(* and after every Insert the average chain length is at most 1 (the      *)
(* comment at Insert's Resize).                                            *)
(***************************************************************************)
Stored == UNION {SE!ToSet(list[j]) : j \in DOMAIN list}

TableShape ==
  /\ \A j \in DOMAIN list : \A i \in DOMAIN list[j] : Bucket(list[j][i].hash, length) = j
  /\ \A h1, h2 \in Stored : h1.key = h2.key => h1 = h2
  /\ elems = Cardinality(Stored)
  /\ elems <= length

(***************************************************************************)
(* Refinement: HandleTable, read through Lookup, implements the map of    *)
(* HashMapAbs, including the handle each Insert and Remove returns, across *)
(* collisions of full hashes, shared buckets and every Resize.             *)
(***************************************************************************)
Abs == INSTANCE HashMapAbs WITH
         amap <- [k \in Keys |-> Lookup(k)], aret <- ret

AbsSpec == Abs!ASpec

=============================================================================
