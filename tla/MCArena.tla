------------------------------ MODULE MCArena ------------------------------
(***************************************************************************)
(* Arena at its real sizes (kBlockSize 4096, 64-bit pointers, new aligned *)
(* to 16).  The requests cover an unaligned odd size (so AllocateAligned  *)
(* must pad), the largest size served from a standard block (1024), the   *)
(* smallest dedicated size (1025) and a size that a mistaken threshold     *)
(* would cut from a standard block (3000), and 4081, which after a 13-byte*)
(* Allocate fits the rest of the block without its 3 bytes of padding and  *)
(* not with them.                                                          *)
(***************************************************************************)
EXTENDS Arena

MCRequests == {13, 1024, 1025, 3000, 4081}
====
