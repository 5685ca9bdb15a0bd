---------------------------- MODULE MCLogWriter ----------------------------
(***************************************************************************)
(* Model-checking instance of LogWriter.  The block is scaled down from    *)
(* 32768 to 16 bytes so that a handful of payloads reach every case of the *)
(* AddRecord loop: a Full record, a First/Last split across two blocks, a *)
(* trailer of 1..6 zero bytes, and a block left with exactly kHeaderSize  *)
(* bytes (a zero-length fragment).  kHeaderSize keeps its real value 7.   *)
(***************************************************************************)
EXTENDS LogWriter

MCBlockSize   == 16
MCPayloadLens == {0, 3, 11}

\* The messages of the sink's IOError: empty, so that the msg2 test of the
\* Status constructor takes both branches, and one byte.
MCMessages == {<<>>, <<0>>}

=============================================================================
