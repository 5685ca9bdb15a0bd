------------------------------- MODULE Coding -------------------------------
(***************************************************************************)
(* util/coding.cc: the fixed-width and varint codecs.  A uint32 / uint64  *)
(* is a vector of 32 / 64 bits (bit i+1 is 2^i), so that the real widths  *)
(* and what a shift drops are kept; a byte is a number in 0..255.          *)
(*                                                                         *)
(* A writer appends values to a std::string dst with the Put* functions;  *)
(* a reader parses dst back with GetVarint32 / GetVarint64 /               *)
(* GetLengthPrefixedSlice and the fixed decoders.  Separately, the varint *)
(* decoders are applied to byte strings that no encoder produced.          *)
(***************************************************************************)
EXTENDS Integers, Sequences, Slice

CONSTANTS
  MaxPuts,       \* bound: values appended to dst
  SliceLens,     \* sizes of the slices PutLengthPrefixedSlice appends
  SliceBytes,    \* the byte a slice is filled with
  CorruptInputs  \* byte strings handed to the varint decoders

VARIABLES
  dst,     \* the string the Put* functions append to
  items,   \* history: what was appended, in order
  input    \* a byte string from elsewhere, decoded by GetVarint32

vars == <<dst, items, input>>

NULL == -1

Ones(w, n) == [i \in 1..w |-> IF i <= n THEN 1 ELSE 0]         \* 2^n - 1
Pow2(w, n) == [i \in 1..w |-> IF i = n + 1 THEN 1 ELSE 0]      \* 2^n
Bit(b, i)  == (b \div (2 ^ i)) % 2                             \* bit i of a byte
BelowPow(v, n) == \A i \in DOMAIN v : i > n => v[i] = 0        \* v < 2^n
ShiftRight(v, n) == [i \in DOMAIN v |-> IF i + n <= Len(v) THEN v[i + n] ELSE 0]
\* Bits 7j .. 7j+6 of v as a number (the low 7 bits of v >> 7j).
Group(v, j) ==
  LET b(i) == IF 7 * j + i + 1 <= Len(v) THEN v[7 * j + i + 1] ELSE 0
  IN b(0) + 2 * b(1) + 4 * b(2) + 8 * b(3) + 16 * b(4) + 32 * b(5) + 64 * b(6)
\* (v >> 8j) & 0xff.
ByteOf(v, j) ==
  LET b(i) == IF 8 * j + i + 1 <= Len(v) THEN v[8 * j + i + 1] ELSE 0
  IN b(0) + 2 * b(1) + 4 * b(2) + 8 * b(3) + 16 * b(4) + 32 * b(5) + 64 * b(6) + 128 * b(7)

(***************************************************************************)
(* EncodeFixed32 / EncodeFixed64: little-endian bytes (memcpy on a little-*)
(* endian host, byte by byte otherwise: the same bytes).  DecodeFixed32 / *)
(* 64 are inline in the missing coding.h.                                  *)
(***************************************************************************)
EncodeFixed(v) == [j \in 1..(Len(v) \div 8) |-> ByteOf(v, j - 1)]

DecodeFixed(bytes, w) == [i \in 1..w |-> Bit(bytes[((i - 1) \div 8) + 1], (i - 1) % 8)]

(***************************************************************************)
(* EncodeVarint32: the cascade v < 1<<7, < 1<<14, < 1<<21, < 1<<28, else  *)
(* five bytes; every byte but the last is (v >> 7j) | 128.                 *)
(***************************************************************************)
\* Mutant: the cascade tested with <= (v == 1<<7k gets one byte too few).
EncodeVarint32AtMost(v) ==
  LET n == CASE BelowPow(v, 7) \/ v = Pow2(32, 7) -> 1
             [] BelowPow(v, 14) \/ v = Pow2(32, 14) -> 2
             [] BelowPow(v, 21) \/ v = Pow2(32, 21) -> 3
             [] BelowPow(v, 28) \/ v = Pow2(32, 28) -> 4
             [] OTHER -> 5
  IN [j \in 1..n |-> (IF j < n THEN 128 + Group(v, j - 1) ELSE ByteOf(ShiftRight(v, 7 * (j - 1)), 0))]

EncodeVarint32(v) ==
  LET n == CASE BelowPow(v, 7) -> 1 [] BelowPow(v, 14) -> 2 [] BelowPow(v, 21) -> 3
             [] BelowPow(v, 28) -> 4 [] OTHER -> 5
  IN [j \in 1..n |-> (IF j < n THEN 128 + Group(v, j - 1) ELSE ByteOf(ShiftRight(v, 7 * (j - 1)), 0))]

\* EncodeVarint64: while (v >= 128) { emit (v & 127) | 128; v >>= 7; } emit v.
RECURSIVE EncodeVarint64(_)
EncodeVarint64(v) ==
  IF ~BelowPow(v, 7) THEN <<128 + Group(v, 0)>> \o EncodeVarint64(ShiftRight(v, 7))
  ELSE <<ByteOf(v, 0)>>

\* Mutant: the loop runs while v > 128.
RECURSIVE VarintLengthGt(_)
VarintLengthGt(v) == IF ~BelowPow(v, 7) /\ v # Pow2(Len(v), 7) THEN 1 + VarintLengthGt(ShiftRight(v, 7)) ELSE 1

\* VarintLength: len = 1; while (v >= 128) { v >>= 7; len++; }
RECURSIVE VarintLength(_)
VarintLength(v) == IF ~BelowPow(v, 7) THEN 1 + VarintLength(ShiftRight(v, 7)) ELSE 1

(***************************************************************************)
(* GetVarint32PtrFallback / GetVarint64Ptr: for shift = 0, 7, ... while    *)
(* shift <= maxShift and p < limit, OR (byte & 127) << shift into a w-bit *)
(* result (bits shifted past w are lost); a byte without the continuation *)
(* bit ends the value.  Returns [p, value], p = NULL on failure.           *)
(***************************************************************************)
OrShifted(r, byte, shift) ==
  [i \in DOMAIN r |-> IF i - 1 - shift \in 0..6 THEN (IF Bit(byte, i - 1 - shift) = 1 THEN 1 ELSE r[i])
                      ELSE r[i]]

RECURSIVE GetVarintLoop(_, _, _, _, _, _)
GetVarintLoop(buf, p, limit, shift, maxShift, r) ==
  IF shift <= maxShift /\ p < limit
  THEN LET byte == buf[p + 1]
       IN IF Bit(byte, 7) = 1
          THEN GetVarintLoop(buf, p + 1, limit, shift + 7, maxShift, OrShifted(r, byte, shift))
          ELSE [p |-> p + 1, value |-> OrShifted(r, byte, shift)]
  ELSE [p |-> NULL, value |-> r]

\* Mutant: the 32-bit loop stops after four bytes (shift <= 21).
GetVarint32PtrFallbackShort(buf, p, limit) == GetVarintLoop(buf, p, limit, 0, 21, Ones(32, 0))

GetVarint32PtrFallback(buf, p, limit) == GetVarintLoop(buf, p, limit, 0, 28, Ones(32, 0))

\* GetVarint32Ptr (inline in coding.h): one byte below 128 is the value.
GetVarint32Ptr(buf, p, limit) ==
  IF p < limit /\ buf[p + 1] < 128
  THEN [p |-> p + 1, value |-> [i \in 1..32 |-> IF i <= 7 THEN Bit(buf[p + 1], i - 1) ELSE 0]]
  ELSE GetVarint32PtrFallback(buf, p, limit)

GetVarint64Ptr(buf, p, limit) == GetVarintLoop(buf, p, limit, 0, 63, Ones(64, 0))

\* GetVarint32/64(Slice* input, value): the input is buf from offset p to
\* its end; on success it is advanced to the returned p, on failure (p =
\* NULL) the call returns false.
GetVarint32(buf, p) == GetVarint32Ptr(buf, p, Len(buf))
GetVarint64(buf, p) == GetVarint64Ptr(buf, p, Len(buf))

\* The number a (small) bit vector stands for.
RECURSIVE ToNat(_, _)
ToNat(v, i) == IF i > Len(v) THEN 0 ELSE (IF v[i] = 1 THEN 2 ^ (i - 1) ELSE 0) + ToNat(v, i + 1)

\* GetLengthPrefixedSlice(p, limit, result): the varint length, then the
\* check p + len > limit.  Returns [p, len], p = NULL on failure.
GetLengthPrefixedSlice(buf, p, limit) ==
  LET q == GetVarint32Ptr(buf, p, limit)
  IN IF q.p = NULL THEN [p |-> NULL, len |-> 0]
     ELSE LET len == ToNat(q.value, 1)
          IN IF q.p + len > limit THEN [p |-> NULL, len |-> 0] ELSE [p |-> q.p + len, len |-> len]

\* GetLengthPrefixedSlice(Slice* input, result): GetVarint32, then the check
\* input->size() >= len, then remove_prefix(len).
GetLengthPrefixedSliceInput(buf, p) ==
  LET q == GetVarint32(buf, p)
  IN IF q.p = NULL THEN [p |-> NULL, len |-> 0]
     ELSE LET len == ToNat(q.value, 1)
          IN IF Len(buf) - q.p >= len THEN [p |-> RemovePrefix(q.p, len), len |-> len] ELSE [p |-> NULL, len |-> 0]

-----------------------------------------------------------------------------
(***************************************************************************)
(* The writer: PutFixed32/64 append the fixed encoding, PutVarint32/64 the *)
(* varint, PutLengthPrefixedSlice the varint32 size and then the bytes.    *)
(***************************************************************************)
\* Boundary values: 2^n - 1 and 2^n at every byte-count boundary.
Values32 == {Ones(32, n) : n \in {0, 7, 14, 21, 28, 32}} \cup {Pow2(32, n) : n \in {7, 14, 21, 28, 31}}
Values64 == {Ones(64, n) : n \in {0, 7, 35, 63, 64}} \cup {Pow2(64, n) : n \in {7, 32, 63}}

SizeBits(n) == [i \in 1..32 |-> IF i <= 16 THEN Bit(n, i - 1) ELSE 0]

Append_(kind, v, bytes) ==
  /\ Len(items) < MaxPuts
  /\ dst' = dst \o bytes
  /\ items' = Append(items, [kind |-> kind, v |-> v])
  /\ UNCHANGED input

PutFixed32(v) == Append_("fixed32", v, EncodeFixed(v))
PutFixed64(v) == Append_("fixed64", v, EncodeFixed(v))
PutVarint32(v) == Append_("varint32", v, EncodeVarint32(v))
PutVarint64(v) == Append_("varint64", v, EncodeVarint64(v))
PutLengthPrefixedSlice(n, b) ==
  Append_("slice", <<n, b>>, EncodeVarint32(SizeBits(n)) \o [i \in 1..n |-> b])

Init ==
  /\ dst = <<>>
  /\ items = <<>>
  /\ input \in CorruptInputs

Next ==
  \/ \E v \in Values32 : PutFixed32(v) \/ PutVarint32(v)
  \/ \E v \in Values64 : PutFixed64(v) \/ PutVarint64(v)
  \/ \E n \in SliceLens, b \in SliceBytes : PutLengthPrefixedSlice(n, b)

Spec == Init /\ [][Next]_vars

-----------------------------------------------------------------------------
(***************************************************************************)
(* The reader: item i is parsed at offset p of dst with the decoder that  *)
(* matches its kind; TRUE when every item reads back and dst is used up.  *)
(***************************************************************************)
ReadItem(it, p) ==
  CASE it.kind = "fixed32" ->
         IF p + 4 <= Len(dst) /\ DecodeFixed(SubSeq(dst, p + 1, p + 4), 32) = it.v THEN p + 4 ELSE NULL
    [] it.kind = "fixed64" ->
         IF p + 8 <= Len(dst) /\ DecodeFixed(SubSeq(dst, p + 1, p + 8), 64) = it.v THEN p + 8 ELSE NULL
    [] it.kind = "varint32" ->
         LET q == GetVarint32(dst, p)
         IN IF q.p # NULL /\ q.value = it.v THEN q.p ELSE NULL
    [] it.kind = "varint64" ->
         LET q == GetVarint64(dst, p)
         IN IF q.p # NULL /\ q.value = it.v THEN q.p ELSE NULL
    [] it.kind = "slice" ->
         LET q == GetLengthPrefixedSliceInput(dst, p)
             r == GetLengthPrefixedSlice(dst, p, Len(dst))
         IN IF /\ q.p # NULL /\ q = r /\ q.len = it.v[1]
               /\ \A j \in 1..q.len : dst[q.p - q.len + j] = it.v[2]
            THEN q.p ELSE NULL

\* The offset after items 1..i, NULL once one of them failed to read back.
ReadTo[i \in 0..MaxPuts] ==
  IF i = 0 THEN 0
  ELSE IF i > Len(items) \/ ReadTo[i - 1] = NULL THEN ReadTo[i - 1]
  ELSE ReadItem(items[i], ReadTo[i - 1])

(***************************************************************************)
(* Whatever sequence of Put* calls built dst, reading it back with the     *)
(* matching Get* / Decode* calls returns every value and slice in order    *)
(* and ends exactly at the end of dst: no encoding is cut short or runs    *)
(* into the next one, at any byte-count boundary of either width.          *)
(***************************************************************************)
RoundTrip == ReadTo[MaxPuts] = Len(dst)

\* What MemTable::Add and the other writers precompute for a value.
ExpectedSize(it) ==
  CASE it.kind = "fixed32" -> 4 [] it.kind = "fixed64" -> 8
    [] it.kind \in {"varint32", "varint64"} -> VarintLength(it.v)
    [] it.kind = "slice" -> VarintLength(SizeBits(it.v[1])) + it.v[1]

RECURSIVE SizeFrom(_)
SizeFrom(i) == IF i > Len(items) THEN 0 ELSE ExpectedSize(items[i]) + SizeFrom(i + 1)

(***************************************************************************)
(* The sizes callers compute with VarintLength before encoding (as         *)
(* MemTable::Add does for encoded_len, and then asserts) add up to the     *)
(* bytes the encoders really appended.                                     *)
(***************************************************************************)
SizesMatch == SizeFrom(1) = Len(dst)

(***************************************************************************)
(* The spec's varint is LEB128: when GetVarint32 accepts a byte string,    *)
(* the value it returns is the LEB128 value of the bytes it consumed.      *)
(***************************************************************************)
GetVarint32Faithful ==
  LET q == GetVarint32Ptr(input, 0, Len(input))
  IN q.p # NULL =>
       \A j \in 1..q.p, i \in 0..6 :
         LET pos == 7 * (j - 1) + i + 1
         IN IF pos <= 32 THEN q.value[pos] = Bit(input[j], i) ELSE Bit(input[j], i) = 0

=============================================================================
