---------------------------- MODULE MemTableAbs ----------------------------
(***************************************************************************)
(* What a MemTable promises (spec 4.3, 5): a set of immutable versions    *)
(* (user key, sequence, kind).  A version is added atomically; the engine *)
(* then publishes its sequence number as the last visible one.  A reader  *)
(* asks Get(key, s) for some s no larger than the published sequence and  *)
(* receives the newest version of key with sequence <= s: its value, the  *)
(* fact that it is a tombstone, or "not found" when there is none.        *)
(* Readers run concurrently with the writer; a Get takes effect when it   *)
(* returns.                                                                *)
(***************************************************************************)
EXTENDS Integers, FiniteSets

CONSTANTS Keys, Readers, MaxAdds

kTypeDeletion == 0
kTypeValue    == 1

VARIABLES
  table,     \* the versions in the MemTable
  lastSeq,   \* the last sequence number published to readers
  rd         \* rd[r]: reader r's Get: [pc, key, seq, result]

avars == <<table, lastSeq, rd>>

\* Results of Get: not found (fall through to older tables), a tombstone
\* (stop, the key is deleted), or the value of the version with sequence v.
NotFound   == [found |-> FALSE, deleted |-> FALSE, value |-> 0]
Tombstone  == [found |-> TRUE, deleted |-> TRUE, value |-> 0]
FoundValue(v) == [found |-> TRUE, deleted |-> FALSE, value |-> v]

\* The answer a Get(k, s) must give on a set of versions T.
Lookup(T, k, s) ==
  LET vis == {e \in T : e.ukey = k /\ e.seq <= s}
  IN IF vis = {} THEN NotFound
     ELSE LET newest == CHOOSE e \in vis : \A f \in vis : f.seq <= e.seq
          IN IF newest.type = kTypeValue THEN FoundValue(newest.seq) ELSE Tombstone

AInit ==
  /\ table = {}
  /\ lastSeq = 0
  /\ rd = [r \in Readers |-> [pc |-> "idle", key |-> CHOOSE k \in Keys : TRUE,
                              seq |-> 0, result |-> NotFound]]

AAdd(k, t) ==
  /\ lastSeq < MaxAdds
  /\ ~\E e \in table : e.seq = lastSeq + 1
  /\ table' = table \cup {[ukey |-> k, seq |-> lastSeq + 1, type |-> t]}
  /\ UNCHANGED <<lastSeq, rd>>

APublish ==
  /\ \E e \in table : e.seq = lastSeq + 1
  /\ lastSeq' = lastSeq + 1
  /\ UNCHANGED <<table, rd>>

AGetStart(r, k, s) ==
  /\ rd[r].pc # "reading"
  /\ s \in 0..lastSeq
  /\ rd' = [rd EXCEPT ![r] = [pc |-> "reading", key |-> k, seq |-> s, result |-> NotFound]]
  /\ UNCHANGED <<table, lastSeq>>

AGetEnd(r) ==
  /\ rd[r].pc = "reading"
  /\ rd' = [rd EXCEPT ![r].pc = "done", ![r].result = Lookup(table, rd[r].key, rd[r].seq)]
  /\ UNCHANGED <<table, lastSeq>>

\* The reader is done with the answer and may start another Get.
AGetRelease(r) ==
  /\ rd[r].pc = "done"
  /\ rd' = [rd EXCEPT ![r] = [pc |-> "idle", key |-> CHOOSE k \in Keys : TRUE,
                              seq |-> 0, result |-> NotFound]]
  /\ UNCHANGED <<table, lastSeq>>

ANext ==
  \/ \E k \in Keys, t \in {kTypeValue, kTypeDeletion} : AAdd(k, t)
  \/ APublish
  \/ \E r \in Readers, k \in Keys, s \in 0..MaxAdds : AGetStart(r, k, s)
  \/ \E r \in Readers : AGetEnd(r) \/ AGetRelease(r)

ASpec == AInit /\ [][ANext]_avars

=============================================================================
