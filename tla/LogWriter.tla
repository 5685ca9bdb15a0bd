----------------------------- MODULE LogWriter -----------------------------
(***************************************************************************)
(* The write-ahead log writer of db/log_writer.cc and db/log_format.h.    *)
(*                                                                         *)
(* Writer::AddRecord cuts a payload into physical records (7-byte header  *)
(* + fragment) that never cross a kBlockSize boundary, pads a block tail  *)
(* shorter than a header with zeros, and flushes the sink after every     *)
(* physical record.  The sink (a WritableFile) may fail an Append part    *)
(* way through or fail a Flush; the process may crash at any moment, and  *)
(* only flushed bytes are sure to survive it.  After a crash the engine   *)
(* reads the log back (the reader is not under src/ and is modelled from  *)
(* the format the writer produces) and either starts a new log, or keeps *)
(* appending to the old one through Writer(dest, dest_length).            *)
(*                                                                         *)
(* A payload is abstracted to its record id (the index of the AddRecord   *)
(* call) and its length; a fragment to the id, its offset in the payload  *)
(* and its length.  The file is a sequence of pieces: the bytes of one    *)
(* Append each, so a torn piece is a piece shorter than it should be.     *)
(***************************************************************************)
EXTENDS Integers, Sequences, SequencesExt, Status

CONSTANTS
  BlockSize,        \* kBlockSize
  HeaderSize,       \* kHeaderSize
  PayloadLens,      \* lengths of the payloads callers pass to AddRecord
  MaxCalls,         \* bound: AddRecord calls in a behaviour
  MaxFailures,      \* bound: failed sink operations in a behaviour
  MaxCrashes,       \* bound: process crashes in a behaviour
  PadCanFail,       \* may the Append of a block trailer fail?
  RetryAfterError,  \* does the caller keep using a Writer whose AddRecord failed?
  ReuseLogs         \* after a crash, does the engine append to the old log?

ASSUME HeaderSize \in Nat \ {0} /\ BlockSize > HeaderSize
ASSUME PayloadLens \subseteq Nat /\ MaxCalls \in Nat
ASSUME MaxFailures \in Nat /\ MaxCrashes \in Nat
ASSUME {PadCanFail, RetryAfterError, ReuseLogs} \subseteq BOOLEAN

\* enum RecordType of log_format.h
kZeroType   == 0
kFullType   == 1
kFirstType  == 2
kMiddleType == 3
kLastType   == 4

VARIABLES
  file,          \* the pieces appended to the log file, in order
  flushed,       \* bytes of the file pushed to the OS by Flush()
  block_offset,  \* Writer::block_offset_
  call,          \* the AddRecord in progress (its loop locals), or NoCall
  status,        \* the Status the last AddRecord returned (its state_)
  added,         \* added[i]: the payload length of the i-th AddRecord call
  acked,         \* ids of the records whose AddRecord returned OK
  recovered,     \* ids read back from the logs closed by earlier crashes
  failures,      \* sink failures so far
  crashes        \* crashes so far

vars == <<file, flushed, block_offset, call, status, added, acked,
          recovered, failures, crashes>>

NoCall == [rec |-> 0, left |-> 0, ptr |-> 0, begin |-> FALSE]

(***************************************************************************)
(* Pieces.  A pad is the zero-filled trailer; a physical record carries   *)
(* its header fields (type, length n) and, for the model, the payload     *)
(* bytes it holds (record id, offset).  len is how many of its bytes      *)
(* actually reached the file.                                              *)
(***************************************************************************)
Pad(k) == [kind |-> "pad", type |-> kZeroType, rec |-> 0, off |-> 0, n |-> 0, len |-> k]
Phys(t, r, o, n, k) == [kind |-> "rec", type |-> t, rec |-> r, off |-> o, n |-> n, len |-> k]

\* An Append that wrote nothing leaves no piece.
AppendPiece(f, p) == IF p.len = 0 THEN f ELSE Append(f, p)

Bytes(f) == FoldLeft(LAMBDA acc, p : acc + p.len, 0, f)

\* File offset at which piece i starts.
PosOf(f, i) == Bytes(SubSeq(f, 1, i - 1))

(***************************************************************************)
(* The outcomes of dest_->Append of m bytes: all m bytes and OK, or, while *)
(* the failure budget lasts, a short write of k < m bytes and an IOError. *)
(***************************************************************************)
AppendOutcomes(m) ==
  {[ok |-> TRUE, k |-> m]} \cup
  (IF failures < MaxFailures THEN {[ok |-> FALSE, k |-> k] : k \in 0..(m - 1)} ELSE {})

(***************************************************************************)
(* Writer::Writer(dest) and Writer::Writer(dest, dest_length).            *)
(***************************************************************************)
NewWriterOffset == 0

\* Mutant: an existing log reopened as if it were empty.
ReopenAtZero(dest_length) == 0

ReopenWriterOffset(dest_length) == dest_length % BlockSize

(***************************************************************************)
(* The record type chosen in the AddRecord loop.                           *)
(***************************************************************************)
\* Mutant: the begin flag ignored for the last fragment.
FragmentTypeNoBegin(begin, end) ==
  IF end THEN kFullType ELSE IF begin THEN kFirstType ELSE kMiddleType

FragmentType(begin, end) ==
  IF begin /\ end THEN kFullType
  ELSE IF begin THEN kFirstType
  ELSE IF end THEN kLastType
  ELSE kMiddleType

\* Mutant: a new block only once the current one is completely full.
NeedsTrailerWhenFull(leftover) == leftover = 0

\* The trailer test of the loop: fewer than kHeaderSize bytes left.
NeedsTrailer(leftover) == leftover < HeaderSize

\* Mutant: the header left out of the offset advance.
AdvanceNoHeader(off, n) == off + n

\* block_offset_ += kHeaderSize + n
Advance(off, n) == off + HeaderSize + n

\* Mutant: Flush() never called, the bytes stay in the user-space buffer.
NoFlush(f) == flushed

\* dest_->Flush(): every appended byte reaches the OS.
FlushTo(f) == Bytes(f)

(***************************************************************************)
(* EmitPhysicalRecord(t, ptr, n) on the file f at writer offset off:       *)
(* the header Append, then (if it succeeded) the payload Append, then (if  *)
(* that succeeded) Flush.  block_offset_ advances by kHeaderSize + n       *)
(* whatever the status.  The result is the set of possible                 *)
(* [ok, file, flushed, offset, failed] outcomes.                           *)
(***************************************************************************)
EmitPhysicalRecord(f, off, t, r, ptr, n) ==
  LET hdrOk   == [ok |-> TRUE, k |-> HeaderSize]
      full    == Append(f, Phys(t, r, ptr, n, HeaderSize + n))
      flushOk == {[ok |-> TRUE, file |-> full, flushed |-> FlushTo(full),
                   offset |-> Advance(off, n), failed |-> 0]}
      \* Flush fails: none or all of the buffered bytes reached the OS.
      flushBad == IF failures < MaxFailures
                  THEN {[ok |-> FALSE, file |-> full, flushed |-> fl,
                         offset |-> Advance(off, n), failed |-> 1]
                          : fl \in {flushed, Bytes(full)}}
                  ELSE {}
      hdrBad == {[ok |-> FALSE, file |-> AppendPiece(f, Phys(t, r, ptr, n, h.k)),
                  flushed |-> flushed, offset |-> Advance(off, n), failed |-> 1]
                   : h \in AppendOutcomes(HeaderSize) \ {hdrOk}}
      dataBad == {[ok |-> FALSE, file |-> Append(f, Phys(t, r, ptr, n, HeaderSize + d.k)),
                   flushed |-> flushed, offset |-> Advance(off, n), failed |-> 1]
                    : d \in AppendOutcomes(n) \ {[ok |-> TRUE, k |-> n]}}
  IN flushOk \cup flushBad \cup hdrBad \cup dataBad

(***************************************************************************)
(* The Status a failed sink call returns: the WritableFile (not in the     *)
(* repository) reports Status::IOError(msg, msg2).  EmitPhysicalRecord     *)
(* assigns it to s (s = dest_->Append(...), s = dest_->Flush()), and      *)
(* AddRecord assigns EmitPhysicalRecord's result to its own s: each       *)
(* assignment of a non-OK Status copies state_ with CopyState.  An OK     *)
(* Status is state_ == NULL and is never copied.                           *)
(***************************************************************************)
SinkErrors == {NewState(kIOError, m1, m2) : m1, m2 \in Messages}

ReturnedStatus(ok) ==
  IF ok THEN {OkState} ELSE {CopyState(CopyState(e)) : e \in SinkErrors}

(***************************************************************************)
(* The caller starts Writer::AddRecord(slice) with |slice| = n.            *)
(***************************************************************************)
AddRecord(n) ==
  /\ call = NoCall
  /\ Len(added) < MaxCalls
  /\ status = OkState \/ RetryAfterError
  /\ added' = Append(added, n)
  /\ call' = [rec |-> Len(added) + 1, left |-> n, ptr |-> 0, begin |-> TRUE]
  /\ UNCHANGED <<file, flushed, block_offset, status, acked, recovered,
                 failures, crashes>>

(***************************************************************************)
(* One iteration of the do ... while loop of AddRecord: switch to a new   *)
(* block (zero-filling the trailer, whose Append status is dropped) when  *)
(* fewer than kHeaderSize bytes are left, cut the fragment, choose its     *)
(* type, emit it, and return when the emit failed or nothing is left.     *)
(***************************************************************************)
AddRecordStep ==
  /\ call # NoCall
  /\ LET leftover == BlockSize - block_offset
         switch   == NeedsTrailer(leftover)
         pads     == IF switch /\ leftover > 0
                     THEN IF PadCanFail THEN AppendOutcomes(leftover)
                          ELSE {[ok |-> TRUE, k |-> leftover]}
                     ELSE {[ok |-> TRUE, k |-> 0]}
         off      == IF switch THEN 0 ELSE block_offset
         avail    == BlockSize - off - HeaderSize
         frag     == Min({call.left, avail})
         end      == call.left = frag
         type     == FragmentType(call.begin, end)
     IN \E pad \in pads :
        LET f0 == AppendPiece(file, Pad(pad.k))
            fails0 == IF pad.ok THEN 0 ELSE 1
        IN \E e \in EmitPhysicalRecord(f0, off, type, call.rec, call.ptr, frag) :
             /\ fails0 + e.failed + failures <= MaxFailures
             /\ file' = e.file
             /\ flushed' = e.flushed
             /\ block_offset' = e.offset
             /\ failures' = failures + fails0 + e.failed
             /\ IF e.ok /\ call.left - frag > 0
                THEN /\ call' = [call EXCEPT !.left = @ - frag, !.ptr = @ + frag,
                                              !.begin = FALSE]
                     /\ UNCHANGED <<status, acked>>
                ELSE /\ call' = NoCall
                     /\ status' \in ReturnedStatus(e.ok)
                     /\ acked' = IF e.ok THEN acked \cup {call.rec} ELSE acked
  /\ UNCHANGED <<added, recovered, crashes>>

(***************************************************************************)
(* The log reader (modelled from the format; its code is not under src/). *)
(* It reads block by block.  At offset o of a block it skips a tail of     *)
(* fewer than kHeaderSize bytes; otherwise it parses a header at the      *)
(* current position.  A physical record is returned only if a whole piece *)
(* of kind "rec" starts exactly there and ends inside the block; anything *)
(* else (a torn piece, zeros, bytes of another piece, a record running    *)
(* past the block) fails the checksum or the length check, and the rest   *)
(* of the block is dropped, signalled by a Bad fragment.                   *)
(***************************************************************************)
Bad == [kind |-> "bad", type |-> kZeroType, rec |-> 0, off |-> 0, n |-> 0, len |-> 0]

PieceAt(f, p) ==
  IF \E i \in 1..Len(f) : PosOf(f, i) = p
  THEN CHOOSE i \in 1..Len(f) : PosOf(f, i) = p
  ELSE 0

Readable(piece, o) ==
  /\ piece.kind = "rec"
  /\ piece.len = HeaderSize + piece.n
  /\ o + HeaderSize + piece.n <= BlockSize

RECURSIVE Fragments(_, _)
Fragments(f, p) ==
  IF p >= Bytes(f) THEN <<>>
  ELSE LET o    == p % BlockSize
           next == p - o + BlockSize
           i    == PieceAt(f, p)
       IN IF BlockSize - o < HeaderSize THEN Fragments(f, next)
          ELSE IF i = 0 \/ ~Readable(f[i], o) THEN <<Bad>> \o Fragments(f, next)
          ELSE <<f[i]>> \o Fragments(f, p + f[i].len)

\* Reassembly of logical records from fragments (Reader::ReadRecord).
RECURSIVE Assemble(_, _, _)
Assemble(fs, inFrag, scratch) ==
  IF fs = <<>> THEN <<>>
  ELSE LET x == Head(fs)
           rest == Tail(fs)
       IN CASE x.kind = "bad"        -> Assemble(rest, FALSE, <<>>)
            [] x.type = kFullType    -> <<<<x>>>> \o Assemble(rest, FALSE, <<>>)
            [] x.type = kFirstType   -> Assemble(rest, TRUE, <<x>>)
            [] x.type = kMiddleType  -> IF inFrag THEN Assemble(rest, TRUE, Append(scratch, x))
                                        ELSE Assemble(rest, FALSE, <<>>)
            [] OTHER (* kLastType *) -> IF inFrag
                                        THEN <<Append(scratch, x)>> \o Assemble(rest, FALSE, <<>>)
                                        ELSE Assemble(rest, FALSE, <<>>)

ReadLog(f) == Assemble(Fragments(f, 0), FALSE, <<>>)

\* The record ids a reader returns from f, in order.
LogIds(f) == LET rs == ReadLog(f) IN [i \in 1..Len(rs) |-> rs[i][1].rec]

(***************************************************************************)
(* The process crashes: the writer and its loop state are lost, and the   *)
(* file keeps its flushed bytes and any part of the rest.  On restart the  *)
(* engine reads the log back, then either starts a new log with           *)
(* Writer(dest), or (ReuseLogs) appends to the old one with               *)
(* Writer(dest, dest_length).                                              *)
(***************************************************************************)
RECURSIVE TruncateTo(_, _)
TruncateTo(f, L) ==
  IF f = <<>> \/ L = 0 THEN <<>>
  ELSE IF Head(f).len <= L THEN <<Head(f)>> \o TruncateTo(Tail(f), L - Head(f).len)
  ELSE <<[Head(f) EXCEPT !.len = L]>>

CrashNewLog ==
  /\ crashes < MaxCrashes
  /\ \E L \in flushed..Bytes(file) :
       /\ recovered' = recovered \o LogIds(TruncateTo(file, L))
       /\ file' = <<>>
       /\ flushed' = 0
       /\ block_offset' = NewWriterOffset
  /\ call' = NoCall
  /\ status' = OkState
  /\ crashes' = crashes + 1
  /\ UNCHANGED <<added, acked, failures>>

CrashReuseLog ==
  /\ ReuseLogs
  /\ crashes < MaxCrashes
  /\ \E L \in flushed..Bytes(file) :
       /\ file' = TruncateTo(file, L)
       /\ flushed' = L
       /\ block_offset' = ReopenWriterOffset(L)
  /\ call' = NoCall
  /\ status' = OkState
  /\ crashes' = crashes + 1
  /\ UNCHANGED <<added, acked, recovered, failures>>

\* No caller has more to write: the writer stays idle.
Quiesce ==
  /\ call = NoCall
  /\ Len(added) = MaxCalls \/ (status # OkState /\ ~RetryAfterError)
  /\ UNCHANGED vars

Init ==
  /\ file = <<>>
  /\ flushed = 0
  /\ block_offset = NewWriterOffset
  /\ call = NoCall
  /\ status = OkState
  /\ added = <<>>
  /\ acked = {}
  /\ recovered = <<>>
  /\ failures = 0
  /\ crashes = 0

Next ==
  \/ \E n \in PayloadLens : AddRecord(n)
  \/ AddRecordStep
  \/ CrashNewLog
  \/ CrashReuseLog
  \/ Quiesce

Spec == Init /\ [][Next]_vars

-----------------------------------------------------------------------------
(***************************************************************************)
(* Properties.                                                             *)
(***************************************************************************)

Piece == [kind : {"pad", "rec"}, type : 0..4, rec : 0..MaxCalls,
          off : Nat, n : Nat, len : Nat]

TypeOK ==
  /\ file \in Seq(Piece)
  /\ flushed \in 0..Bytes(file)
  /\ block_offset \in 0..BlockSize
  /\ call \in {NoCall} \cup [rec : 1..MaxCalls, left : Nat, ptr : Nat, begin : BOOLEAN]
  /\ status \in {OkState} \cup SinkErrors
  /\ added \in Seq(PayloadLens)
  /\ acked \subseteq 1..Len(added)
  /\ recovered \in Seq(1..MaxCalls)

(***************************************************************************)
(* Framing (log_format.h, AddRecord): at the file offset where it really   *)
(* lies, every physical record starts at least kHeaderSize bytes before    *)
(* the end of its block and ends inside that block, so that a reader that  *)
(* resynchronises at block boundaries can find it.                         *)
(***************************************************************************)
RecordsInBlocks ==
  \A i \in 1..Len(file) :
    file[i].kind = "rec" =>
      (PosOf(file, i) % BlockSize) + HeaderSize + file[i].n <= BlockSize

(***************************************************************************)
(* Integrity: every record the reader returns is a whole payload that was  *)
(* passed to AddRecord, its fragments in order, and the records come back  *)
(* in the order they were added (no fragment of one record is glued to     *)
(* another, no record is returned cut short).                              *)
(***************************************************************************)
WholeRecord(r) ==
  LET id == r[1].rec
  IN /\ id \in 1..Len(added)
     /\ \A i \in 1..Len(r) :
          /\ r[i].rec = id
          /\ r[i].off = IF i = 1 THEN 0 ELSE r[i-1].off + r[i-1].n
     /\ r[Len(r)].off + r[Len(r)].n = added[id]

ReaderIntegrity ==
  LET rs == ReadLog(file)
  IN /\ \A i \in 1..Len(rs) : WholeRecord(rs[i])
     /\ \A i \in 1..Len(rs) - 1 : rs[i][1].rec < rs[i+1][1].rec

(***************************************************************************)
(* Durability: a record whose AddRecord returned OK was flushed, so it is  *)
(* read back after any later crash: it is in a log closed by a crash or in *)
(* the current one.                                                        *)
(***************************************************************************)
Durability ==
  \A r \in acked : r \in Range(recovered) \cup Range(LogIds(file))

(***************************************************************************)
(* While the last AddRecord succeeded, the writer's block_offset_ is where *)
(* the file really ends within its block (a full block, offset kBlockSize, *)
(* is the start of the next): the writer's picture of the block it is      *)
(* filling is the true one.                                                *)
(***************************************************************************)
WriterInSync ==
  status = OkState => block_offset % BlockSize = Bytes(file) % BlockSize

(***************************************************************************)
(* When AddRecord fails, the Status it returns is the sink's IOError      *)
(* intact after the assignments in EmitPhysicalRecord and AddRecord:      *)
(* code() is kIOError, ToString() is "IO error: " and the sink's message  *)
(* (with ": " and the second message when there is one), and copying it   *)
(* once more gives the same state_.  The length stored by the Status      *)
(* constructor is what CopyState and ToString read back.                  *)
(***************************************************************************)
ReturnsSinkError ==
  status # OkState => \E m1, m2 \in Messages : ReadsBack(status, kIOError, m1, m2)

(***************************************************************************)
(* A write the caller was told failed (AddRecord returned an IOError, so   *)
(* the engine did not apply it) never comes back when the log is read.     *)
(***************************************************************************)
NoResurrection ==
  \A r \in 1..Len(added) :
    (r \notin acked /\ call.rec # r) =>
       r \notin Range(recovered) \cup Range(LogIds(file))

=============================================================================
