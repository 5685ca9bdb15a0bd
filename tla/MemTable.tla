------------------------------ MODULE MemTable ------------------------------
(***************************************************************************)
(* MemTable::Add and MemTable::Get (db/memtable.cc) over the skip list    *)
(* they use as table_.  db/skiplist.h is not in the repository: the skip  *)
(* list is modelled from its contract in spec 4.2 and 9 (insert-only, one *)
(* writer, readers that never block, a new node's forward pointers set    *)
(* before it is linked, linked from level 0 upwards).                      *)
(*                                                                         *)
(* One writer (the engine serialises Add) inserts versions with           *)
(* sequences 1, 2, ...; after an Add returns, the engine publishes its    *)
(* sequence.  Readers run Get(key, s) for a published s, one pointer read *)
(* per step, interleaved with the writer's steps.                          *)
(*                                                                         *)
(* Node n (n >= 1) holds the version with sequence n; node 0 is head_.    *)
(* A user key is a number (the bytewise order of the default comparator   *)
(* is a total order on the keys); a value is identified by the sequence   *)
(* of the version that wrote it.                                           *)
(*                                                                         *)
(* Lifetime: the engine holds one reference (MemTable() then Ref()); a    *)
(* reader takes its own with Ref() before Get and drops it with Unref()   *)
(* after, both under the engine's mutex (spec 5), so each is atomic; the  *)
(* engine drops its reference when it retires the table, and the Unref    *)
(* that reaches zero runs the destructor.                                  *)
(***************************************************************************)
EXTENDS Integers, FiniteSets, Sequences, Slice

SE == INSTANCE SequencesExt

CONSTANTS
  Keys,       \* user keys: byte strings, compared by Slice::compare
  Readers,    \* reader threads
  MaxAdds,    \* bound: Add calls in a behaviour
  MaxHeight   \* kMaxHeight of the skip list

ASSUME Keys \subseteq Seq(0..255) /\ MaxAdds \in Nat /\ MaxHeight \in Nat \ {0}

kTypeDeletion == 0
kTypeValue    == 1

Nodes   == 0..MaxAdds
Levels  == 0..(MaxHeight - 1)
Nil     == -1      \* NULL
Garbage == -2      \* an uninitialised next_ slot of a fresh node
NoKey   == [ukey |-> <<>>, seq |-> 0, type |-> kTypeValue]   \* head_ and unused nodes

VARIABLES
  key,        \* key[n]: the internal key (user key, sequence, type) of node n
  height,     \* height[n]: the height of node n (0: not allocated)
  next,       \* next[n][i]: node n's forward pointer at level i
  maxHeight,  \* SkipList::max_height_
  w,          \* the writer's Insert in progress
  lastSeq,    \* the last sequence the engine has published
  rd,         \* rd[r]: reader r's Get (ref: it holds a reference)
  refs,       \* MemTable::refs_
  owned,      \* the engine still holds its reference
  freed,      \* the destructor has run
  it          \* a MemTableIterator: [pc, x, out (nodes yielded), base, ref]

vars == <<key, height, next, maxHeight, w, lastSeq, rd, refs, owned, freed, it>>
life == <<refs, owned, freed, it>>

NotFound   == [found |-> FALSE, deleted |-> FALSE, value |-> 0]
Tombstone  == [found |-> TRUE, deleted |-> TRUE, value |-> 0]
FoundValue(v) == [found |-> TRUE, deleted |-> FALSE, value |-> v]
\* What a reader gets from following an uninitialised pointer.
Crashed    == [found |-> FALSE, deleted |-> FALSE, value |-> -1]
IdleReader == [pc |-> "idle", target |-> NoKey, x |-> 0, level |-> 0,
               result |-> NotFound, ref |-> FALSE]

(***************************************************************************)
(* The order of the index: MemTable::KeyComparator decodes the length-    *)
(* prefixed internal keys and compares them with the InternalKeyComparator:*)
(* user key ascending, then the tag (sequence << 8 | type) descending.     *)
(***************************************************************************)
\* Mutant: the tag compared ascending, oldest version first.
LessSeqAsc(a, b) ==
  \/ SliceCompare(a.ukey, b.ukey) < 0
  \/ SliceCompare(a.ukey, b.ukey) = 0 /\ (a.seq < b.seq \/ (a.seq = b.seq /\ a.type < b.type))

Less(a, b) ==
  \/ SliceCompare(a.ukey, b.ukey) < 0
  \/ SliceCompare(a.ukey, b.ukey) = 0 /\ (a.seq > b.seq \/ (a.seq = b.seq /\ a.type > b.type))

(***************************************************************************)
(* SkipList::RandomHeight: 1, then one more level with probability 1/4    *)
(* while below kMaxHeight.  Every height in 1..kMaxHeight can occur.      *)
(***************************************************************************)
\* Mutant: the loop bound taken as <= kMaxHeight.
RandomHeightsOffByOne == 1..(MaxHeight + 1)

RandomHeights == 1..MaxHeight

(***************************************************************************)
(* SkipList::FindGreaterOrEqual as the writer runs it with prev != NULL:   *)
(* prev[i] is the last node at level i whose key is before k (head_ when   *)
(* there is none).  Only the writer changes the list and its last Insert  *)
(* has finished, so every node of height > i is linked at level i.        *)
(***************************************************************************)
PrevAt(i, k) ==
  LET before == {0} \cup {n \in 1..lastSeq : height[n] > i /\ Less(key[n], k)}
  IN CHOOSE p \in before : \A q \in before \ {0} : q = p \/ Less(key[q], key[p])

(***************************************************************************)
(* MemTable::Add(s, type, key, value): encode the entry (the sequence is   *)
(* the next one), then SkipList::Insert: find prev[], draw a height, raise *)
(* max_height_ (NoBarrier) if needed, and allocate the node from the arena.*)
(* Its next_ slots are not initialised by NewNode.                         *)
(***************************************************************************)
Add(k, t) ==
  /\ w.pc = "idle"
  /\ owned
  /\ lastSeq < MaxAdds
  /\ LET s  == lastSeq + 1
         ik == [ukey |-> k, seq |-> s, type |-> t]
     IN \E h \in RandomHeights :
          /\ key' = [key EXCEPT ![s] = ik]
          /\ height' = [height EXCEPT ![s] = h]
          /\ maxHeight' = IF h > maxHeight THEN h ELSE maxHeight
          /\ w' = [pc |-> "set", node |-> s, lvl |-> 0,
                   prev |-> [i \in Levels |-> PrevAt(i, ik)]]
  /\ UNCHANGED <<next, lastSeq, rd>> /\ UNCHANGED life

(***************************************************************************)
(* The linking loop of SkipList::Insert, one store per step, level 0      *)
(* first:  x->NoBarrier_SetNext(i, prev[i]->NoBarrier_Next(i)), then      *)
(* prev[i]->SetNext(i, x), the release store that publishes x at level i.  *)
(***************************************************************************)
\* Mutant: the new node's next_[i] set to NULL, not to prev[i]'s successor.
SetNextStepNull ==
  LET x == w.node  i == w.lvl
  IN /\ next' = [next EXCEPT ![x][i] = Nil]
     /\ w' = [w EXCEPT !.pc = "link"]

SetNextStep ==
  LET x == w.node  i == w.lvl
  IN /\ next' = [next EXCEPT ![x][i] = next[w.prev[i]][i]]
     /\ w' = [w EXCEPT !.pc = "link"]

LinkStep ==
  LET x == w.node  i == w.lvl
  IN /\ next' = [next EXCEPT ![w.prev[i]][i] = x]
     /\ w' = [w EXCEPT !.pc = IF i + 1 = height[x] THEN "done" ELSE "set",
                       !.lvl = i + 1]

\* Mutant: x published at level i before its own next_[i] is set.
InsertStepPublishFirst ==
  LET x == w.node  i == w.lvl
  IN \/ /\ w.pc = "set"
        /\ next' = [next EXCEPT ![w.prev[i]][i] = x]
        /\ w' = [w EXCEPT !.pc = "link"]
     \/ /\ w.pc = "link"
        /\ next' = [next EXCEPT ![x][i] = next[w.prev[i]][i]]
        /\ w' = [w EXCEPT !.pc = IF i + 1 = height[x] THEN "done" ELSE "set",
                          !.lvl = i + 1]

InsertStep ==
  \/ w.pc = "set" /\ SetNextStep
  \/ w.pc = "link" /\ LinkStep

Insert ==
  /\ InsertStep
  /\ UNCHANGED <<key, height, maxHeight, lastSeq, rd>> /\ UNCHANGED life

\* Add has returned: the engine publishes the new last sequence.
AddDone ==
  /\ w.pc = "done"
  /\ lastSeq' = w.node
  /\ w' = [w EXCEPT !.pc = "idle"]
  /\ UNCHANGED <<key, height, next, maxHeight, rd>> /\ UNCHANGED life

(***************************************************************************)
(* MemTable::Get(LookupKey(k, s)): Seek to the first entry >= (k, s, seek *)
(* type) with SkipList::FindGreaterOrEqual, one pointer read per step     *)
(* from head_ at level GetMaxHeight() - 1; then check the user key and    *)
(* the type of the entry found.                                            *)
(***************************************************************************)
\* Mutant: the user key of the entry found is not compared.
GetResultNoKeyCheck(n, k) ==
  IF n = Nil THEN NotFound
  ELSE IF key[n].type = kTypeValue THEN FoundValue(key[n].seq) ELSE Tombstone

GetResult(n, k) ==
  IF n # Nil /\ SliceCompare(key[n].ukey, k) = 0
  THEN IF key[n].type = kTypeValue THEN FoundValue(key[n].seq) ELSE Tombstone
  ELSE NotFound

(***************************************************************************)
(* MemTable::Ref (inline in the missing memtable.h): ++refs_.              *)
(* MemTable::Unref: --refs_; if refs_ <= 0, delete this, whose destructor *)
(* asserts refs_ == 0.  Both return the new <<refs, freed>>.               *)
(***************************************************************************)
Ref(n) == n + 1

\* Mutant: the table deleted when the last but one reference goes.
UnrefAtOne(n) == <<n - 1, n - 1 <= 1>>

\* Mutant: the table deleted only below zero references.
UnrefBelowZero(n) == <<n - 1, n - 1 < 0>>

Unref(n) == <<n - 1, n - 1 <= 0>>

\* The reader takes a reference on the engine's current table (under the
\* engine's mutex) and seeks from head_ at level GetMaxHeight() - 1.
GetStart(r, k, s) ==
  /\ rd[r].pc = "idle"
  /\ owned
  /\ it.pc # "scan"    \* reader steps commute: one read-only thread at a time
  /\ s \in 0..lastSeq
  /\ rd' = [rd EXCEPT ![r] = [pc |-> "seek", target |-> [ukey |-> k, seq |-> s, type |-> kTypeValue],
                              x |-> 0, level |-> maxHeight - 1, result |-> NotFound, ref |-> TRUE]]
  /\ refs' = Ref(refs)
  /\ UNCHANGED <<key, height, next, maxHeight, w, lastSeq, owned, freed, it>>

\* The reader is done with the table: Unref, and it may start another Get.
Release(r) ==
  /\ rd[r].pc = "done"
  /\ rd' = [rd EXCEPT ![r] = IdleReader]
  /\ refs' = Unref(refs)[1]
  /\ freed' = Unref(refs)[2]
  /\ UNCHANGED <<key, height, next, maxHeight, w, lastSeq, owned, it>>

\* The engine retires the table (between two Adds) and drops its reference.
Retire ==
  /\ owned /\ w.pc = "idle"
  /\ owned' = FALSE
  /\ refs' = Unref(refs)[1]
  /\ freed' = Unref(refs)[2]
  /\ UNCHANGED <<key, height, next, maxHeight, w, lastSeq, rd, it>>

\* Mutant: the seek stays at its level instead of descending.
GetStepNoDescend(r) ==
  /\ rd[r].pc = "seek"
  /\ LET g  == rd[r]
         nx == next[g.x][g.level]
     IN rd' = [rd EXCEPT ![r] =
                 IF nx = Garbage THEN [g EXCEPT !.pc = "done", !.result = Crashed]
                 ELSE IF nx # Nil /\ Less(key[nx], g.target) THEN [g EXCEPT !.x = nx]
                 ELSE IF g.level = 0
                      THEN [g EXCEPT !.pc = "done", !.result = GetResult(nx, g.target.ukey)]
                 ELSE g]
  /\ UNCHANGED <<key, height, next, maxHeight, w, lastSeq>> /\ UNCHANGED life

GetStep(r) ==
  /\ rd[r].pc = "seek"
  /\ LET g  == rd[r]
         nx == next[g.x][g.level]
     IN rd' = [rd EXCEPT ![r] =
                 IF nx = Garbage THEN [g EXCEPT !.pc = "done", !.result = Crashed]
                 ELSE IF nx # Nil /\ Less(key[nx], g.target) THEN [g EXCEPT !.x = nx]
                 ELSE IF g.level = 0
                      THEN [g EXCEPT !.pc = "done", !.result = GetResult(nx, g.target.ukey)]
                 ELSE [g EXCEPT !.level = g.level - 1]]
  /\ UNCHANGED <<key, height, next, maxHeight, w, lastSeq>> /\ UNCHANGED life

\* The nodes linked at level 0, in list order (defined with the properties).
RECURSIVE Level0From(_, _)
Level0From(n, d) ==
  IF n \in {Nil, Garbage} \/ d = 0 THEN {} ELSE {n} \cup Level0From(next[n][0], d - 1)

(***************************************************************************)
(* MemTable::NewIterator (the engine takes a reference for it) and         *)
(* MemTableIterator::SeekToFirst: x = head_->Next(0).  Then, while Valid() *)
(* (x != NULL), key() reads x's entry and Next() follows x->Next(0).       *)
(* base records the nodes linked when the scan started.                    *)
(***************************************************************************)
IterStart ==
  /\ it.pc = "idle" /\ owned
  /\ \A r \in Readers : rd[r].pc # "seek"
  /\ it' = [pc |-> "scan", x |-> next[0][0], out |-> <<>>,
            base |-> Level0From(next[0][0], MaxAdds + 1), ref |-> TRUE]
  /\ refs' = Ref(refs)
  /\ UNCHANGED <<key, height, next, maxHeight, w, lastSeq, rd, owned, freed>>

IterNext ==
  /\ it.pc = "scan" /\ it.x # Nil
  /\ it' = IF it.x = Garbage THEN [it EXCEPT !.pc = "crashed"]
           ELSE [it EXCEPT !.out = Append(@, it.x), !.x = next[it.x][0]]
  /\ UNCHANGED <<key, height, next, maxHeight, w, lastSeq, rd, refs, owned, freed>>

\* !Valid(): the iterator is deleted and its reference dropped.
IterClose ==
  /\ it.pc = "scan" /\ it.x = Nil
  /\ it' = [pc |-> "closed", x |-> Nil, out |-> <<>>, base |-> {}, ref |-> FALSE]
  /\ refs' = Unref(refs)[1]
  /\ freed' = Unref(refs)[2]
  /\ UNCHANGED <<key, height, next, maxHeight, w, lastSeq, rd, owned>>

(***************************************************************************)
(* MemTable(cmp) and SkipList(cmp, arena): head_ has kMaxHeight NULL      *)
(* pointers, max_height_ is 1.                                             *)
(***************************************************************************)
Init ==
  /\ key = [n \in Nodes |-> NoKey]
  /\ height = [n \in Nodes |-> IF n = 0 THEN MaxHeight ELSE 0]
  /\ next = [n \in Nodes |-> [i \in Levels |-> IF n = 0 THEN Nil ELSE Garbage]]
  /\ maxHeight = 1
  /\ w = [pc |-> "idle", node |-> 0, lvl |-> 0, prev |-> [i \in Levels |-> 0]]
  /\ lastSeq = 0
  /\ rd = [r \in Readers |-> IdleReader]
  /\ refs = 1
  /\ owned = TRUE
  /\ freed = FALSE
  /\ it = [pc |-> "idle", x |-> Nil, out |-> <<>>, base |-> {}, ref |-> FALSE]

Next ==
  \/ \E k \in Keys, t \in {kTypeValue, kTypeDeletion} : Add(k, t)
  \/ Insert
  \/ AddDone
  \/ \E r \in Readers, k \in Keys, s \in 0..MaxAdds : GetStart(r, k, s)
  \/ \E r \in Readers : GetStep(r) \/ Release(r)
  \/ Retire
  \/ IterStart \/ IterNext \/ IterClose

Spec == Init /\ [][Next]_vars

\* Reader threads are scheduled by the OS and never wait on the writer
\* (spec 5): a reader that can take its next step eventually does.
FairSpec == /\ Spec /\ \A r \in Readers : WF_vars(GetStep(r)) /\ WF_vars(Release(r))
            /\ WF_vars(IterNext) /\ WF_vars(IterClose)

-----------------------------------------------------------------------------
(***************************************************************************)
(* Properties.                                                             *)
(***************************************************************************)

Result == {NotFound, Tombstone, Crashed} \cup {FoundValue(v) : v \in Nodes}
IKey == [ukey : Keys \cup {<<>>}, seq : Nodes, type : {kTypeDeletion, kTypeValue}]

TypeOK ==
  /\ key \in [Nodes -> IKey]
  /\ height \in [Nodes -> 0..MaxHeight]
  /\ next \in [Nodes -> [Levels -> Nodes \cup {Nil, Garbage}]]
  /\ maxHeight \in 1..MaxHeight
  /\ w.pc \in {"idle", "set", "link", "done"} /\ w.node \in Nodes /\ w.lvl \in 0..MaxHeight
  /\ lastSeq \in 0..MaxAdds
  /\ \A r \in Readers : rd[r].pc \in {"idle", "seek", "done"} /\ rd[r].result \in Result
                       /\ rd[r].ref \in BOOLEAN
  /\ refs \in Int /\ owned \in BOOLEAN /\ freed \in BOOLEAN
  /\ it.pc \in {"idle", "scan", "crashed", "closed"} /\ it.out \in Seq(Nodes)

\* The nodes reachable from n at level i (at most MaxAdds hops).
RECURSIVE ChainFrom(_, _, _)
ChainFrom(n, i, d) ==
  IF n \in {Nil, Garbage} \/ d = 0 THEN <<>>
  ELSE <<n>> \o ChainFrom(next[n][i], i, d - 1)

Chain(i) == ChainFrom(next[0][i], i, MaxAdds + 1)

(***************************************************************************)
(* The index is ordered as spec 3 says: at every level, the nodes linked  *)
(* from head_ are in ascending user-key order and, for one user key, in   *)
(* descending sequence order, so that the newest version is met first,    *)
(* and no chain leads to an uninitialised pointer.  User keys are ordered *)
(* lexicographically (LexLess, defined from the sequences, not from the  *)
(* code's memcmp): a key sorts after every proper prefix of it.           *)
(***************************************************************************)
LexLess(a, b) ==
  \/ SE!IsStrictPrefix(a, b)
  \/ \E i \in 1..Len(a) : i <= Len(b) /\ SubSeq(a, 1, i - 1) = SubSeq(b, 1, i - 1) /\ a[i] < b[i]

SpecOrder(a, b) == LexLess(a.ukey, b.ukey) \/ (a.ukey = b.ukey /\ a.seq > b.seq)

IndexOrdered ==
  \A i \in Levels :
    LET c == Chain(i)
    IN /\ \A j \in 1..(Len(c) - 1) : SpecOrder(key[c[j]], key[c[j + 1]])
       /\ Len(c) <= MaxAdds
       /\ (Len(c) > 0 => next[c[Len(c)]][i] # Garbage)

(***************************************************************************)
(* Refinement: with the versions linked at level 0 as the abstract table, *)
(* a seeking reader as a reader whose Get is in progress, the MemTable    *)
(* over the concurrent skip list implements MemTableAbs: every Get returns *)
(* the newest version <= s although the writer links nodes while the      *)
(* reader walks.                                                           *)
(***************************************************************************)
Abs == INSTANCE MemTableAbs WITH
         table   <- {key[n] : n \in Level0From(next[0][0], MaxAdds + 1)},
         lastSeq <- lastSeq,
         rd      <- [r \in Readers |->
                       [pc |-> IF rd[r].pc = "seek" THEN "reading" ELSE rd[r].pc,
                        key |-> IF rd[r].pc = "idle" THEN CHOOSE k \in Keys : TRUE
                                ELSE rd[r].target.ukey,
                        seq |-> IF rd[r].pc = "idle" THEN 0 ELSE rd[r].target.seq,
                        result |-> rd[r].result]]

AbsSpec == Abs!ASpec

(***************************************************************************)
(* refs_ counts exactly the engine's reference and those of the readers   *)
(* between their Ref and Unref, and the destructor runs only when the     *)
(* last of them is gone: then refs_ == 0 (its assert holds) and no reader *)
(* and no Add is still using the table.                                    *)
(***************************************************************************)
RefsMatchHolders ==
  LET holders == {r \in Readers : rd[r].ref}
  IN IF freed
     THEN refs = 0 /\ ~owned /\ holders = {} /\ ~it.ref /\ w.pc = "idle"
     ELSE refs = (IF owned THEN 1 ELSE 0) + Cardinality(holders) + (IF it.ref THEN 1 ELSE 0)

(***************************************************************************)
(* Every Get a reader starts returns: the seek never waits on the writer  *)
(* and never loops, however the writer's links interleave with it.        *)
(***************************************************************************)
GetTerminates == \A r \in Readers : rd[r].pc = "seek" ~> rd[r].pc = "done"

(***************************************************************************)
(* A retired table is eventually deleted: once the engine drops its       *)
(* reference, the readers' Unrefs bring refs_ to zero and the last one    *)
(* runs the destructor (no leak).                                          *)
(***************************************************************************)
EventuallyFreed == ~owned ~> freed

(***************************************************************************)
(* An iterator scanning while the writer links new nodes yields entries   *)
(* in strictly ascending internal-key order, never follows an             *)
(* uninitialised pointer, and by the time it is exhausted has yielded     *)
(* every entry that was in the table when it started (entries added      *)
(* during the scan may or may not appear).                                 *)
(***************************************************************************)
ScanConsistent ==
  /\ it.pc # "crashed"
  /\ \A j \in 1..(Len(it.out) - 1) : Less(key[it.out[j]], key[it.out[j + 1]])
  /\ it.pc = "scan" /\ it.x = Nil =>
       it.base \subseteq {it.out[j] : j \in DOMAIN it.out}

=============================================================================
