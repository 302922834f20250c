------------------------------- MODULE PhysMem -------------------------------
(***************************************************************************)
(* The physical memory of the x86_64 port (vm/x86_64/mm_phys.c): a bitmap  *)
(* of page frames in words of 64 bits.  A bit is made by shifting the int  *)
(* 1, so the distance counts modulo the width of an int, and the highest   *)
(* bit of an int extends to the whole upper half of the word.              *)
(*                                                                         *)
(* The search for a free frame runs over as many words as there are        *)
(* blocks, far beyond the end of the bitmap.  What it finds there is       *)
(* memory of others; in the model it finds nothing there and answers -1,   *)
(* as the code does at its own end.                                        *)
(***************************************************************************)
EXTENDS Integers, FiniteSetsExt, SequencesExt

CONSTANTS
  IntBits,         \* bits of an int; a word of the bitmap has twice as many
  CharBits,        \* bits of a byte
  PageBytes,       \* PMM_BLOCK_SIZE
  KernelEnd,       \* KERNEL_ENDS_HERE, an address
  Stallocs,        \* the sizes stalloc'ed before physmem_init
  MemBlocks,       \* total_blocks
  Regions          \* the memory map: <<[start, length, free]>>, in blocks

QwordBits == 2 * IntBits
Blocks == 0 .. MemBlocks - 1

ASSUME WidthsAssumption ==
  /\ IntBits \in Nat \ {0} /\ IntBits % CharBits = 0 /\ CharBits % 2 = 0
  /\ MemBlocks % QwordBits = 0     \* the bitmap is of whole words

-----------------------------------------------------------------------------
(* Static allocation (kernel/stalloc.c), from the end of the kernel on: an *)
(* allocation starts at the free area and leaves it at a word boundary.    *)
WordAlign(a) == ((a + 3) \div 4) * 4

stalloc_init == WordAlign(KernelEnd)
stalloc(area, bytes) == WordAlign(area + bytes)

(* The free area when physmem_init has its bitmap and its lock; the next   *)
(* stalloc(1) is the last.                                                 *)
LastAddress ==
  FoldLeft(stalloc, stalloc_init, Stallocs \o <<MemBlocks \div CharBits, 4>>)
stalloc_disable == stalloc(LastAddress, 1)     \* the end, for vm_init

-----------------------------------------------------------------------------
(* The bits of a word that the int 1 << j has. *)
Shifted(j) ==
  LET k == j % IntBits
  IN  IF k = IntBits - 1 THEN k .. QwordBits - 1 ELSE {k}

Mask(bit) ==
  {(bit \div QwordBits) * QwordBits + k : k \in Shifted(bit % QwordBits)}

memmap_setbit(map, bit) == map \cup Mask(bit)
memmap_unsetbit(map, bit) == map \ Mask(bit)
memmap_testbit(map, bit) == Mask(bit) \cap map # {}

(* The first frame whose bit is clear; -1 if none is. *)
physmem_getframe(map) ==
  LET clear == {b \in Blocks : ~ memmap_testbit(map, b)}
  IN  IF clear = {} THEN -1 ELSE Min(clear)

(* The first of count clear bits in a row. *)
physmem_getframes(map, count) ==
  LET runs == {b \in 0 .. MemBlocks - count :
                 \A k \in 0 .. count - 1 : ~ memmap_testbit(map, b + k)}
  IN  IF count = 0 \/ runs = {} THEN -1 ELSE Min(runs)

-----------------------------------------------------------------------------
(* A state of the manager: its bitmap and used_blocks. *)
physmem_freeregion(m, region) ==
  [map |-> memmap_setbit(
     m.map \ UNION {Mask(region.start + k) : k \in 0 .. region.length - 1}, 0),
   used |-> m.used - region.length]

(* The frame taken and the new state; at a panic the frame is -1. *)
physmem_allocblock(m) ==
  LET frame == IF m.used >= MemBlocks THEN -1 ELSE physmem_getframe(m.map)
  IN  [frame |-> frame,
       m |-> IF frame = -1 THEN m
             ELSE [map |-> memmap_setbit(m.map, frame), used |-> m.used + 1]]

(* The frame whose bit is cleared need not be the one that was named: of   *)
(* two frames IntBits apart in a word, the bit is that of the lower one.   *)
physmem_freeblock(m, frame) ==
  [map |-> memmap_unsetbit(m.map, frame), used |-> m.used - 1]

(* "Mark all memory up to the static allocation point as used". *)
RECURSIVE AllocUpToStaticEnd(_)
AllocUpToStaticEnd(m) ==
  LET a == physmem_allocblock(m)
  IN  IF a.frame = -1 \/ a.frame * PageBytes >= LastAddress THEN a.m
      ELSE AllocUpToStaticEnd(a.m)

(* Every byte of the bitmap is set to 0xF, and the free regions of the     *)
(* memory map are freed.                                                   *)
FreeRegions ==
  LET byte == {b \in Blocks : b % CharBits < CharBits \div 2}
      free == SelectSeq(Regions, LAMBDA r : r.free)
  IN  FoldLeft(physmem_freeregion, [map |-> byte, used |-> MemBlocks], free)

(* Mutant: what is static is not allocated. *)
NothingStatic == FreeRegions

physmem_init == AllocUpToStaticEnd(FreeRegions)
=============================================================================
