------------------------------- MODULE Slice -------------------------------
(***************************************************************************)
(* The operations of include/leveldb/slice.h that the modelled code       *)
(* calls.  A slice is the byte string it points to (a sequence of          *)
(* 0..255, read as unsigned char by memcmp); where the code keeps a slice *)
(* as a position in a larger buffer, the position is an offset.           *)
(***************************************************************************)
EXTENDS Integers, Sequences

\* memcmp(a, b, n): the sign of the first of the n bytes that differ.
Memcmp(a, b, n) ==
  LET D == {i \in 1..n : a[i] # b[i]}
      i == CHOOSE i \in D : \A j \in D : i <= j
  IN IF D = {} THEN 0 ELSE IF a[i] < b[i] THEN -1 ELSE 1

\* Mutant: the sizes are not compared when the common bytes are equal.
SliceCompareNoSize(a, b) ==
  Memcmp(a, b, IF Len(a) < Len(b) THEN Len(a) ELSE Len(b))

\* Slice::compare: memcmp of the common length; on a tie the shorter first.
SliceCompare(a, b) ==
  LET r == Memcmp(a, b, IF Len(a) < Len(b) THEN Len(a) ELSE Len(b))
  IN CASE r # 0 -> r
       [] Len(a) < Len(b) -> -1
       [] Len(a) > Len(b) -> 1
       [] OTHER -> 0

\* Mutant: the sizes not compared, memcmp over the shorter slice only.
SliceEqualNoSize(x, y) ==
  Memcmp(x, y, IF Len(x) < Len(y) THEN Len(x) ELSE Len(y)) = 0

\* operator==: equal sizes and memcmp of that many bytes is 0.
SliceEqual(x, y) == Len(x) = Len(y) /\ Memcmp(x, y, Len(x)) = 0

\* remove_prefix(n) on a slice held as offset p into its buffer: data_ += n,
\* and size_ -= n follows from the buffer's end.  Its assert(n <= size())
\* is the caller's to establish.
RemovePrefix(p, n) == p + n

=============================================================================
