-------------------------------- MODULE Heap --------------------------------
(***************************************************************************)
(* The heap of a user program (userland/lib.c): a list of free blocks in   *)
(* one array, sorted by address, and readline, which keeps its line in a   *)
(* block that it reallocates as the line grows.                            *)
(*                                                                         *)
(* A block is known by its offset in the array.  Its first word holds its  *)
(* size, header included.                                                  *)
(***************************************************************************)
EXTENDS Integers, Sequences, Functions, FiniteSetsExt

CONSTANTS
  HEAP_SIZE,
  SizeT,           \* sizeof(size_t)
  INT_MAX,         \* the largest int
  IntsInSize,      \* how many times as many numbers a size_t has as an int
  BUFSIZE,         \* the first size of readline's buffer
  RequestSizes     \* sizes that programs ask for

MIN_ALLOC_SIZE == 2 * SizeT
NULL == -1

(* Requests that stay an int when they are rounded and get a header. *)
Small == 0 .. INT_MAX - MIN_ALLOC_SIZE - SizeT - 4

(* The array has room for one block at least, and readline asks for a      *)
(* buffer of some size.  malloc compares sizes as ints: programs ask for   *)
(* small ones only, and so does readline, which doubles its buffer while   *)
(* it fits into the heap.                                                  *)
ASSUME HeapSizes ==
  /\ HEAP_SIZE \in Nat /\ SizeT \in Nat \ {0} /\ BUFSIZE \in Nat \ {0}
  /\ INT_MAX \in Nat /\ IntsInSize \in Nat \ {0}
  /\ HEAP_SIZE >= MIN_ALLOC_SIZE + SizeT
  /\ RequestSizes \subseteq Small
  /\ BUFSIZE \in Small /\ 2 * HEAP_SIZE \in Small

VARIABLES
  heap,      \* [size, free]: the size in each block's header; the free list
  held,      \* the blocks the program holds: what it asked for, rounded
  line       \* readline's [buf, bufsize, count], or <<>>

heapvars == <<heap, held, line>>

(* The sum or difference of two numbers as a size_t, and a size_t that is  *)
(* cast to int.                                                            *)
IntMod == 2 * (INT_MAX + 1)
SizeMod == IntsInSize * IntMod
Size(x) == IF x < 0 THEN x + SizeMod ELSE IF x >= SizeMod THEN x - SizeMod ELSE x
AsInt(x) == IF x % IntMod > INT_MAX THEN (x % IntMod) - IntMod ELSE x % IntMod

(* MIN_ALLOC_SIZE at least, in whole words. *)
Rounded(n) ==
  LET size == Max({MIN_ALLOC_SIZE, n})
  IN  IF size % 4 = 0 THEN size ELSE Size((size \div 4) * 4 + 4)

Without(f, a) == Restrict(f, DOMAIN f \ {a})
With(f, a, v) == [x \in DOMAIN f \cup {a} |-> IF x = a THEN v ELSE f[x]]

(* The free list without its i-th block, and with a block at place i. *)
Unlinked(list, i) == SubSeq(list, 1, i - 1) \o SubSeq(list, i + 1, Len(list))
Linked(list, i, block) ==
  SubSeq(list, 1, i - 1) \o <<block>> \o SubSeq(list, i, Len(list))

heap_init == [size |-> [a \in {0} |-> HEAP_SIZE], free |-> <<0>>]

-----------------------------------------------------------------------------
(* The first free block that is big enough: its end if the rest of it can  *)
(* be a block, else all of it.                                             *)
Want(n) == Size(Rounded(n) + SizeT)
Split(size, n) ==
  AsInt(Size(Size(size - Rounded(n)) - SizeT)) >= AsInt(MIN_ALLOC_SIZE + SizeT)

malloc(h, n) ==
  LET want == Want(n)
      fits == {i \in DOMAIN h.free :
                 Split(h.size[h.free[i]], n) \/ h.size[h.free[i]] >= want}
      i == Min(fits)
      block == h.free[i]
      rest == Size(h.size[block] - want)
  IN  IF n = 0 \/ fits = {} THEN [ptr |-> NULL, h |-> h]
      ELSE IF Split(h.size[block], n)
      THEN [ptr |-> block + rest,
            h |-> [h EXCEPT !.size = With([@ EXCEPT ![block] = rest],
                                          block + rest, want)]]
      ELSE [ptr |-> block, h |-> [h EXCEPT !.free = Unlinked(@, i)]]

(* The list stays sorted, and the block is merged with the free blocks     *)
(* right before and right behind it.                                       *)
MergeNext(h, i) ==
  LET a == h.free[i] b == h.free[i + 1]
  IN  IF i \in 1 .. Len(h.free) - 1 /\ a + h.size[a] = b
      THEN [size |-> Without([h.size EXCEPT ![a] = @ + h.size[b]], b),
            free |-> Unlinked(h.free, i + 1)]
      ELSE h

(* The place of a block in the list: before the first one behind it. *)
Place(h, block) ==
  LET behind == {i \in DOMAIN h.free : h.free[i] > block}
  IN  IF behind = {} THEN Len(h.free) + 1 ELSE Min(behind)

free(h, block) ==
  LET i == Place(h, block)
      listed == [h EXCEPT !.free = Linked(@, i, block)]
  IN  MergeNext(MergeNext(listed, i), i - 1)

(* A new block, and the old one freed when there is a new one. *)
realloc(h, block, n) ==
  LET new == malloc(h, n)
  IN  IF n = 0 THEN [ptr |-> NULL, h |-> free(h, block)]
      ELSE IF new.ptr = NULL THEN new
      ELSE [new EXCEPT !.h = free(@, block)]

-----------------------------------------------------------------------------
HeapInit ==
  /\ heap = heap_init
  /\ held = <<>>
  /\ line = <<>>

Waiting == line = <<>>             \* no readline is under way
Holds(f, ptr, n) == IF ptr = NULL THEN f ELSE With(f, ptr, Rounded(n))

Malloc(n) ==                       \* calloc zeroes the block besides
  /\ Waiting
  /\ heap' = malloc(heap, n).h
  /\ held' = Holds(held, malloc(heap, n).ptr, n)
  /\ UNCHANGED line

Free(b) ==
  /\ Waiting
  /\ heap' = free(heap, b)
  /\ held' = Without(held, b)
  /\ UNCHANGED line

Realloc(b, n) ==
  LET new == realloc(heap, b, n)
  IN  /\ Waiting
      /\ heap' = new.h
      /\ held' = IF n = 0 THEN Without(held, b)
                 ELSE IF new.ptr = NULL THEN held
                 ELSE Holds(Without(held, b), new.ptr, n)
      /\ UNCHANGED line

(* readline asks for its buffer.  It does not look whether it got one; a   *)
(* program that did not ends at the first byte of the line.                *)
ReadLine ==
  LET new == malloc(heap, BUFSIZE)
  IN  /\ Waiting
      /\ heap' = new.h
      /\ line' = [buf |-> new.ptr, bufsize |-> BUFSIZE, count |-> 0]
      /\ UNCHANGED held

Reading == ~ Waiting /\ line.buf # NULL
Faulted == ~ Waiting /\ line.buf = NULL

(* The end of the line: its block is cut to fit. *)
Stop(h) ==
  LET new == realloc(h, line.buf, line.count + 1)
      buf == IF new.ptr = NULL THEN line.buf ELSE new.ptr
  IN  /\ heap' = new.h
      /\ held' = Holds(held, buf, line.count + 1)
      /\ line' = <<>>

TypeNewline == Reading /\ Stop(heap)

TypeDelete ==
  /\ Reading
  /\ line' = [line EXCEPT !.count = IF @ > 0 THEN @ - 1 ELSE 0]
  /\ UNCHANGED <<heap, held>>

(* Mutant: no room is kept for the end of the line. *)
FullSlack(l) == l.count >= l.bufsize

Full(l) == l.count >= l.bufsize - 1

(* A full buffer is doubled; the line ends when it cannot be. *)
TypeChar ==
  LET twice == Size(2 * line.bufsize)
      new == realloc(heap, line.buf, twice)
  IN  /\ Reading
      /\ \/ /\ ~ Full(line)
            /\ line' = [line EXCEPT !.count = @ + 1]
            /\ UNCHANGED <<heap, held>>
         \/ /\ Full(line) /\ new.ptr # NULL
            /\ heap' = new.h
            /\ line' = [buf |-> new.ptr, bufsize |-> twice, count |-> line.count + 1]
            /\ UNCHANGED held
         \/ /\ Full(line) /\ new.ptr = NULL
            /\ Stop(heap)

Fault == Faulted /\ UNCHANGED heapvars

HeapNext ==
  \/ \E n \in RequestSizes : Malloc(n)
  \/ \E b \in DOMAIN held : Free(b) \/ \E n \in RequestSizes \cup {0} : Realloc(b, n)
  \/ ReadLine \/ TypeNewline \/ TypeDelete \/ TypeChar
  \/ Fault

HeapSpec == HeapInit /\ [][HeapNext]_heapvars

-----------------------------------------------------------------------------
(* The blocks tile the heap.  Each is free, held by the program or the     *)
(* buffer of a line, and only one of these; each is big enough for what    *)
(* was asked for, a line and its end included, and for the links of the    *)
(* free list; and free blocks are sorted and never touch, so that what has *)
(* been freed can be allocated in one piece.                               *)
HeapTiled ==
  LET blocks == DOMAIN heap.size
      listed == Range(heap.free)
      reading == IF Reading THEN {line.buf} ELSE {}
      end == [a \in blocks |-> a + heap.size[a]]
  IN  /\ {end[a] : a \in blocks} = (blocks \ {0}) \cup {HEAP_SIZE}
      /\ 0 \in blocks
      /\ \A a \in blocks : heap.size[a] >= MIN_ALLOC_SIZE + SizeT
      /\ blocks = listed \cup DOMAIN held \cup reading
      /\ listed \cap DOMAIN held = {} /\ (listed \cup DOMAIN held) \cap reading = {}
      /\ \A i \in 1 .. Len(heap.free) - 1 : end[heap.free[i]] < heap.free[i + 1]
      /\ \A a \in DOMAIN held : heap.size[a] >= held[a] + SizeT
      /\ Reading => heap.size[line.buf] >= line.count + 1 + SizeT
=============================================================================
