------------------------------- MODULE Arena -------------------------------
(***************************************************************************)
(* Arena (util/arena.cc): a bump allocator over heap blocks.  Addresses    *)
(* are numbers; the heap hands out blocks at increasing addresses, each    *)
(* aligned as operator new aligns it.  Allocate is inline in the missing   *)
(* util/arena.h and is modelled from spec 4.1.  The Arena is used by one   *)
(* thread at a time (spec 9), so each call is one step.                    *)
(***************************************************************************)
EXTENDS Integers, Sequences, SequencesExt

CONSTANTS
  kBlockSize,   \* 4096
  PtrSize,      \* sizeof(void*)
  NewAlign,     \* the alignment of the memory new char[] returns
  Requests,     \* the sizes callers ask for
  MaxAllocs     \* bound: calls in a behaviour

NULL == 0

VARIABLES
  alloc_ptr,              \* Arena::alloc_ptr_
  alloc_bytes_remaining,  \* Arena::alloc_bytes_remaining_
  blocks,                 \* Arena::blocks_: <<[base, size], ...>>
  memory_usage,           \* Arena::memory_usage_
  heap_top,               \* the end of the heap used so far
  regions,                \* history: the regions returned, <<[addr, size, aligned]>>
  retired                 \* history: bytes left unused in each abandoned block

vars == <<alloc_ptr, alloc_bytes_remaining, blocks, memory_usage, heap_top, regions, retired>>

\* The arena's state as one record, so that helpers can be composed like
\* the calls they model.
St == [ptr |-> alloc_ptr, rem |-> alloc_bytes_remaining, blocks |-> blocks,
       usage |-> memory_usage, top |-> heap_top, retired |-> retired]

RoundUp(x, a) == ((x + a - 1) \div a) * a

\* const int align = (sizeof(void*) > 8) ? sizeof(void*) : 8;
Align == IF PtrSize > 8 THEN PtrSize ELSE 8

(***************************************************************************)
(* AllocateNewBlock(block_bytes): new char[block_bytes], push it on        *)
(* blocks_, and store MemoryUsage() + block_bytes + a pointer size.        *)
(* Returns <<result, state>>.                                              *)
(***************************************************************************)
\* Mutant: the usage counter overwritten instead of accumulated.
UsageStoreNoLoad(usage, block_bytes) == block_bytes + PtrSize

UsageStore(usage, block_bytes) == usage + block_bytes + PtrSize

AllocateNewBlock(s, block_bytes) ==
  LET base == RoundUp(s.top, NewAlign)
  IN <<base, [s EXCEPT !.blocks = Append(@, [base |-> base, size |-> block_bytes]),
                       !.usage = UsageStore(@, block_bytes),
                       !.top = base + block_bytes]>>

(***************************************************************************)
(* AllocateFallback(bytes): a request above kBlockSize / 4 gets a block of *)
(* its own and the current block keeps serving; a smaller one abandons     *)
(* the rest of the current block and is cut from a fresh standard block.   *)
(***************************************************************************)
\* Mutant: the dedicated-block threshold taken as the whole block size.
DedicatedThresholdFull(bytes) == bytes > kBlockSize

Dedicated(bytes) == bytes > kBlockSize \div 4

\* Mutant: the dedicated block also replaces the current block.
AllocateFallbackAlwaysSwitch(s, bytes) ==
  LET nb == AllocateNewBlock(s, IF Dedicated(bytes) THEN bytes ELSE kBlockSize)
      t  == nb[2]
  IN <<nb[1], [t EXCEPT !.ptr = nb[1] + bytes,
                        !.rem = (IF Dedicated(bytes) THEN bytes ELSE kBlockSize) - bytes,
                        !.retired = Append(@, s.rem)]>>

AllocateFallback(s, bytes) ==
  IF Dedicated(bytes)
  THEN AllocateNewBlock(s, bytes)
  ELSE LET nb == AllocateNewBlock(s, kBlockSize)
           t  == nb[2]
       IN <<nb[1], [t EXCEPT !.ptr = nb[1] + bytes, !.rem = kBlockSize - bytes,
                             !.retired = Append(@, s.rem)]>>

\* Allocate(bytes) (inline in arena.h): bump within the current block if it
\* fits, else fall back.
AllocateInline(s, bytes) ==
  IF bytes <= s.rem
  THEN <<s.ptr, [s EXCEPT !.ptr = @ + bytes, !.rem = @ - bytes]>>
  ELSE AllocateFallback(s, bytes)

(***************************************************************************)
(* AllocateAligned(bytes): pad the cursor up to Align and bump if padding  *)
(* plus request fit, else fall back (fresh blocks are aligned by new).     *)
(***************************************************************************)
\* Mutant: the fit test made on the request without its padding.
AllocateAlignedNoSlopCheck(s, bytes) ==
  LET mod  == s.ptr % Align
      slop == IF mod = 0 THEN 0 ELSE Align - mod
  IN IF bytes <= s.rem
     THEN <<s.ptr + slop, [s EXCEPT !.ptr = @ + bytes + slop, !.rem = @ - (bytes + slop)]>>
     ELSE AllocateFallback(s, bytes)

\* Mutant: the padding counted but not applied to the result.
AllocateAlignedNoPad(s, bytes) ==
  LET mod    == s.ptr % Align
      slop   == IF mod = 0 THEN 0 ELSE Align - mod
      needed == bytes + slop
  IN IF needed <= s.rem
     THEN <<s.ptr, [s EXCEPT !.ptr = @ + needed, !.rem = @ - needed]>>
     ELSE AllocateFallback(s, bytes)

AllocateAlignedImpl(s, bytes) ==
  LET mod    == s.ptr % Align
      slop   == IF mod = 0 THEN 0 ELSE Align - mod
      needed == bytes + slop
  IN IF needed <= s.rem
     THEN <<s.ptr + slop, [s EXCEPT !.ptr = @ + needed, !.rem = @ - needed]>>
     ELSE AllocateFallback(s, bytes)

\* Apply a call's <<result, state>> and record the region it returned.
Do(out, bytes, aligned) ==
  /\ alloc_ptr' = out[2].ptr
  /\ alloc_bytes_remaining' = out[2].rem
  /\ blocks' = out[2].blocks
  /\ memory_usage' = out[2].usage
  /\ heap_top' = out[2].top
  /\ retired' = out[2].retired
  /\ regions' = Append(regions, [addr |-> out[1], size |-> bytes, aligned |-> aligned])

Allocate(bytes) ==
  /\ Len(regions) < MaxAllocs
  /\ Do(AllocateInline(St, bytes), bytes, FALSE)

AllocateAligned(bytes) ==
  /\ Len(regions) < MaxAllocs
  /\ Do(AllocateAlignedImpl(St, bytes), bytes, TRUE)

\* Arena(): alloc_ptr_ = NULL, alloc_bytes_remaining_ = 0, memory_usage_ = 0.
Init ==
  /\ alloc_ptr = NULL
  /\ alloc_bytes_remaining = 0
  /\ blocks = <<>>
  /\ memory_usage = 0
  /\ heap_top = NewAlign
  /\ regions = <<>>
  /\ retired = <<>>

Next ==
  \E b \in Requests : Allocate(b) \/ AllocateAligned(b)

Spec == Init /\ [][Next]_vars

-----------------------------------------------------------------------------
(***************************************************************************)
(* Properties (spec 8, Arena).                                             *)
(***************************************************************************)

TypeOK ==
  /\ alloc_ptr \in Nat /\ alloc_bytes_remaining \in Nat /\ memory_usage \in Nat
  /\ blocks \in Seq([base : Nat, size : Nat])
  /\ regions \in Seq([addr : Nat, size : Requests, aligned : BOOLEAN])
  /\ retired \in Seq(Nat)

InBlock(r, b) == b.base <= r.addr /\ r.addr + r.size <= b.base + b.size
Overlap(r, q) == r.addr < q.addr + q.size /\ q.addr < r.addr + r.size

(***************************************************************************)
(* Every region returned by Allocate or AllocateAligned lies inside one    *)
(* block the arena owns, and no two returned regions overlap, whatever     *)
(* mix of aligned and unaligned calls and fallbacks produced them.         *)
(***************************************************************************)
RegionsValid ==
  /\ \A i \in DOMAIN regions : \E j \in DOMAIN blocks : InBlock(regions[i], blocks[j])
  /\ \A i, j \in DOMAIN regions : i < j => ~Overlap(regions[i], regions[j])

(***************************************************************************)
(* Every pointer AllocateAligned returns, on the bump path after padding   *)
(* or on the fallback path, is a multiple of the pointer alignment.        *)
(***************************************************************************)
AlignedResults ==
  \A i \in DOMAIN regions : regions[i].aligned => regions[i].addr % Align = 0

(***************************************************************************)
(* MemoryUsage() never falls below what callers were given: the usage     *)
(* counter stored by AllocateNewBlock is at least the sum of the sizes     *)
(* requested so far.                                                       *)
(***************************************************************************)
UsageCoversRequests ==
  memory_usage >= FoldLeft(LAMBDA acc, r : acc + r.size, 0, regions)

(***************************************************************************)
(* The fallback policy bounds waste: a block is only abandoned by a small  *)
(* request that did not fit, so it never leaves more than a quarter block  *)
(* (plus alignment padding) unused.                                        *)
(***************************************************************************)
WasteBounded ==
  \A i \in DOMAIN retired : retired[i] < kBlockSize \div 4 + Align

=============================================================================
