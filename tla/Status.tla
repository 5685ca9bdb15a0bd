------------------------------- MODULE Status -------------------------------
(***************************************************************************)
(* util/status.cc.  A Status is OK when state_ is NULL.  Otherwise state_  *)
(* is one heap array:                                                      *)
(*   state_[0..3]  the message length, a uint32 copied with memcpy (host   *)
(*                 order, little-endian on the targets of the spec)        *)
(*   state_[4]     the code                                                *)
(*   state_[5..]   the message: msg, then ": " and msg2 if msg2 is not     *)
(*                 empty                                                   *)
(* The constructor writes this array, CopyState duplicates it (the copy   *)
(* constructor and assignment of status.h use it), and ToString reads it *)
(* back.  A message is a sequence of bytes; the type prefix of ToString  *)
(* is kept as the name of the code, since no property concerns its       *)
(* letters.                                                               *)
(* LogWriter uses this module for the Status its sink returns.            *)
(***************************************************************************)
EXTENDS Integers, Sequences

CONSTANTS
  Messages        \* the msg / msg2 slices passed to the constructor

ASSUME Messages \subseteq Seq(0..255)

\* Status::Code of status.h (the header is not in the repository).
kOk == 0
kNotFound == 1
kCorruption == 2
kNotSupported == 3
kInvalidArgument == 4
kIOError == 5

\* The type prefixes of ToString's switch, by code.
TypeNames == <<"NotFound: ", "Corruption: ", "Not implemented: ",
               "Invalid argument: ", "IO error: ">>

\* state_ == NULL: the OK status.
OkState == <<>>

\* memcpy of a uint32 to and from four bytes, least significant first.
HostBytes32(n) == [j \in 1..4 |-> (n \div (2 ^ (8 * (j - 1)))) % 256]
FromHostBytes32(b) == b[1] + 256 * b[2] + 65536 * b[3] + 16777216 * b[4]

Colon == 58
Space == 32

\* Mutant: the two bytes of ": " not counted in the size.
MessageSizeNoSep(len1, len2) == len1 + len2

\* size = len1 + (len2 ? (2 + len2) : 0)
MessageSize(len1, len2) == len1 + (IF len2 # 0 THEN 2 + len2 ELSE 0)

\* Status(code, msg, msg2): the size, the code byte, msg, then ": " msg2.
NewState(code, msg, msg2) ==
  HostBytes32(MessageSize(Len(msg), Len(msg2)))
    \o <<code>> \o msg
    \o (IF Len(msg2) # 0 THEN <<Colon, Space>> \o msg2 ELSE <<>>)

\* CopyState: read the size, copy size + 5 bytes.
CopyState(state) ==
  LET size == FromHostBytes32(SubSeq(state, 1, 4)) IN SubSeq(state, 1, size + 5)

\* Status::code(): kOk for NULL, else state_[4].
Code(state) == IF state = OkState THEN kOk ELSE state[5]

\* Status::ToString: the type prefix chosen by code(), then length bytes from
\* state_ + 5.  An unknown code gets "Unknown code(%d): ".
StatusToString(state) ==
  IF state = OkState THEN [type |-> "OK", text |-> <<>>]
  ELSE LET c == Code(state)
           length == FromHostBytes32(SubSeq(state, 1, 4))
       IN [type |-> IF c \in 1..5 THEN TypeNames[c]
                    ELSE IF c = kOk THEN "OK" ELSE "Unknown code",
           text |-> SubSeq(state, 6, 5 + length)]

\* What a caller of Status(code, msg, msg2) reads back: the code's prefix,
\* then msg, then ": " and msg2 only when msg2 is not empty.
Expected(code, msg, msg2) ==
  [type |-> TypeNames[code],
   text |-> IF msg2 = <<>> THEN msg ELSE msg \o <<Colon, Space>> \o msg2]

\* state reports the code and message it was built with, and a copy of it
\* made by CopyState is the same array and prints the same.
ReadsBack(state, code, msg, msg2) ==
  /\ Code(state) = code
  /\ StatusToString(state) = Expected(code, msg, msg2)
  /\ CopyState(state) = state
  /\ StatusToString(CopyState(state)) = Expected(code, msg, msg2)

=============================================================================
