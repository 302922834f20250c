----------------------------- MODULE HeapProofs -----------------------------
(***************************************************************************)
(* The blocks of the heap tile it (HeapTiled), for a heap of every size    *)
(* and requests of every size that HeapSizes allows: those that are still  *)
(* an int when malloc has rounded them.  The arithmetic of size_t and the  *)
(* casts to int are exact there (SizesExact).                              *)
(*                                                                         *)
(* What HeapTiled says of neighbours in the free list is strengthened to   *)
(* all pairs of blocks: none overlaps another, wherever it is listed.  A   *)
(* list in which a freed block was just put is not yet merged, so the      *)
(* strengthening comes in two parts: Tiled, which holds between the steps  *)
(* of free too, and Apart, which says where two neighbours may touch.      *)
(***************************************************************************)
EXTENDS Heap, TLAPS, SequenceTheorems, WellFoundedInduction

(* Zenon proves the leaves, but those with arithmetic or sequences.        *)
USE ZenonT(30)

(* The blocks of h tile the heap.  Those that are not free are U. *)
Tiled(h, U) ==
  /\ h = [size |-> h.size, free |-> h.free]
  /\ DOMAIN h.size \subseteq Nat /\ 0 \in DOMAIN h.size
  /\ h.size \in [DOMAIN h.size -> Nat]
  /\ \A a \in DOMAIN h.size :
       /\ h.size[a] >= MIN_ALLOC_SIZE + SizeT
       /\ a + h.size[a] \in DOMAIN h.size \cup {HEAP_SIZE}
       /\ a + h.size[a] <= HEAP_SIZE
  /\ \A b \in DOMAIN h.size \cup {HEAP_SIZE} :
       b # 0 => \E a \in DOMAIN h.size : a + h.size[a] = b
  /\ \A a, b \in DOMAIN h.size : a < b => a + h.size[a] <= b
  /\ h.free \in Seq(DOMAIN h.size)
  /\ \A i, j \in 1 .. Len(h.free) : i < j => h.free[i] < h.free[j]
  /\ \A i \in 1 .. Len(h.free) : h.free[i] \notin U
  /\ \A a \in DOMAIN h.size :
       a \notin U => \E i \in 1 .. Len(h.free) : h.free[i] = a
  /\ U \subseteq DOMAIN h.size

(* A free block touches the next one in the list only at the places of E. *)
Apart(h, E) ==
  \A i \in 1 .. Len(h.free) - 1 :
    i \notin E => h.free[i] + h.size[h.free[i]] # h.free[i + 1]

(* g is a heap whose blocks U are those of h, and where the others are     *)
(* free and touch only at the places of E.                                 *)
Keeps(g, h, U, E) ==
  Tiled(g, U) /\ Apart(g, E) /\ \A u \in U : g.size[u] = h.size[u]

(* g is a heap whose blocks in use are those of h that U has, and p, which *)
(* has the size want at least.                                             *)
Gives(p, g, h, U, want) ==
  /\ p \in Nat /\ p \notin U
  /\ Tiled(g, U \cup {p}) /\ Apart(g, {})
  /\ g.size[p] >= want
  /\ \A u \in U : g.size[u] = h.size[u]

Before(E, i) == \A k \in E : k < i

(* The blocks that are not free: those held, and the buffer of a line. *)
Used == DOMAIN held \cup (IF Reading THEN {line.buf} ELSE {})

Lines == [buf : Nat \cup {NULL}, bufsize : Small \ {0}, count : Nat]

HeapInv ==
  /\ Tiled(heap, Used) /\ Apart(heap, {})
  /\ held \in [DOMAIN held -> Nat]
  /\ \A a \in DOMAIN held : heap.size[a] >= held[a] + SizeT
  /\ line # <<>> => line \in Lines
  /\ Reading =>
       /\ line.buf \notin DOMAIN held
       /\ line.count + 1 <= line.bufsize
       /\ heap.size[line.buf] >= Rounded(line.bufsize) + SizeT

-----------------------------------------------------------------------------
(* A set of numbers that is not empty has a least one. *)
LEMMA LeastNumber ==
  ASSUME NEW S, S \subseteq Nat, S # {}
  PROVE  Min(S) \in S /\ \A y \in S : Min(S) =< y
<1>1. PICK x \in S : \A y \in S : ~(<<y, x>> \in OpToRel(<, Nat))
  BY NatLessThanWellFounded, WFMin
<1>2. \A y \in S : x =< y
  <2> SUFFICES ASSUME NEW y \in S, ~(x =< y) PROVE FALSE
    OBVIOUS
  <2>1. y < x /\ <<y, x>> \in Nat \X Nat
    BY SMTT(30)
  <2>2. <<y, x>> \in OpToRel(<, Nat)
    BY <2>1 DEF OpToRel
  <2> QED
    BY <1>1, <2>2
<1> QED
  BY <1>2 DEF Min

(* The larger of two numbers. *)
LEMMA LargerOfTwo ==
  ASSUME NEW a \in Nat, NEW b \in Nat
  PROVE  Max({a, b}) \in Nat /\ Max({a, b}) = (IF a >= b THEN a ELSE b)
<1> DEFINE m == IF a >= b THEN a ELSE b
<1>1. m \in {a, b} /\ m \in Nat /\ \A y \in {a, b} : m >= y
  BY SMTT(30)
<1>2. \A x \in {a, b} : (\A y \in {a, b} : x >= y) => x = m
  BY SMTT(30)
<1>3. Max({a, b}) = m
  <2> HIDE DEF m
  <2> QED BY <1>1, <1>2 DEF Max
<1> QED
  BY <1>1, <1>3

(* What is left of a number when all multiples of another are taken off. *)
LEMMA Remainder ==
  ASSUME NEW m \in Nat \ {0}, NEW q \in Nat, NEW a \in Nat, a < m
  PROVE  (q * m + a) % m = a
<1> DEFINE x == q * m + a
           d == x \div m
           r == x % m
<1>1. x \in Nat
  BY SMTT(30)
<1> HIDE DEF x
<1>2. d \in Nat /\ r \in Nat
  BY <1>1, SMTT(30)
<1>3. r < m /\ x = r + m * d
  BY <1>1, SMTT(30)
<1> HIDE DEF d, r
<1>4. r + m * d = q * m + a
  BY <1>3 DEF x
<1>5. ~ (d < q)
  <2> SUFFICES ASSUME d < q PROVE FALSE
    OBVIOUS
  <2>1. PICK e \in Nat : q = d + 1 + e
    <3>1. q - d - 1 \in Nat /\ q = d + 1 + (q - d - 1)
      BY <1>2, SMTT(30)
    <3> QED BY <3>1
  <2>2. q * m = m * d + m + m * e /\ m * e >= 0 /\ m * d \in Nat /\ m * e \in Nat
    BY ONLY <2>1, <1>2, m \in Nat, SMTT(30)
  <2> QED
    BY <2>2, <1>2, <1>3, <1>4, SMTT(30)
<1>6. ~ (q < d)
  <2> SUFFICES ASSUME q < d PROVE FALSE
    OBVIOUS
  <2>1. PICK e \in Nat : d = q + 1 + e
    <3>1. d - q - 1 \in Nat /\ d = q + 1 + (d - q - 1)
      BY <1>2, SMTT(30)
    <3> QED BY <3>1
  <2>2. m * d = q * m + m + m * e /\ m * e >= 0 /\ q * m \in Nat /\ m * e \in Nat
    BY ONLY <2>1, q \in Nat, m \in Nat, SMTT(30)
  <2> QED
    BY <2>2, <1>2, <1>3, <1>4, SMTT(30)
<1>7. d = q
  BY <1>2, <1>5, <1>6, SMTT(30)
<1>8. r = a
  <2>1. m * d = q * m /\ q * m \in Nat
    BY <1>7, SMTT(30)
  <2> QED
    BY <2>1, <1>2, <1>4, SMTT(30)
<1> QED
  BY <1>8 DEF r, x

(* An int is less than the number of ints, and that no more than the       *)
(* number of sizes.                                                        *)
LEMMA Widths ==
  /\ IntMod \in Nat \ {0} /\ IntMod = INT_MAX + INT_MAX + 2
  /\ SizeMod \in Nat /\ SizeMod >= IntMod
<1>1. IntMod \in Nat \ {0} /\ IntMod = INT_MAX + INT_MAX + 2
  BY HeapSizes, SMTT(30) DEF IntMod
<1>2. PICK k \in Nat : IntsInSize = k + 1
  <2>1. IntsInSize - 1 \in Nat /\ IntsInSize = (IntsInSize - 1) + 1
    BY HeapSizes, SMTT(30)
  <2> QED BY <2>1
<1>3. (k + 1) * IntMod = k * IntMod + IntMod /\ k * IntMod \in Nat
  BY ONLY <1>1, k \in Nat, SMTT(30)
<1> QED
  BY <1>1, <1>2, <1>3, SMTT(30) DEF SizeMod

(* A small request and what it is rounded to are ints. *)
LEMMA SmallNumbers ==
  ASSUME NEW n \in Small
  PROVE  /\ n \in Nat /\ MIN_ALLOC_SIZE \in Nat
         /\ n + MIN_ALLOC_SIZE + SizeT + 4 <= INT_MAX
         /\ \A m \in Nat : m <= n => m \in Small
BY HeapSizes, SMTT(30) DEF Small, MIN_ALLOC_SIZE

(* An int that was made a size_t is the same int again. *)
LEMMA IntOfSize ==
  ASSUME NEW x \in Int, 0 - INT_MAX <= x, x <= INT_MAX
  PROVE  AsInt(Size(x)) = x
<1>1. CASE x >= 0
  <2>1. Size(x) = x
    BY <1>1, Widths, HeapSizes, SMTT(30) DEF Size
  <2>2. (0 * IntMod + x) % IntMod = x
    BY <1>1, Widths, HeapSizes, Remainder, SMTT(30)
  <2>3. 0 * IntMod + x = x
    BY Widths, SMTT(30)
  <2>4. x % IntMod = x
    BY <2>2, <2>3
  <2> QED
    BY <2>1, <2>4, HeapSizes, SMTT(30) DEF AsInt
<1>2. CASE x < 0
  <2>1. PICK k \in Nat : IntsInSize = k + 1
    <3>1. IntsInSize - 1 \in Nat /\ IntsInSize = (IntsInSize - 1) + 1
      BY HeapSizes, SMTT(30)
    <3> QED BY <3>1
  <2>2. (k + 1) * IntMod = k * IntMod + IntMod /\ k * IntMod \in Nat
    BY ONLY Widths, k \in Nat, SMTT(30)
  <2>3. x + IntMod \in Nat /\ x + IntMod < IntMod /\ x + IntMod > INT_MAX
    BY <1>2, Widths, HeapSizes, SMTT(30)
  <2>4. SizeMod = k * IntMod + IntMod
    BY <2>1, <2>2 DEF SizeMod
  <2>5. Size(x) = k * IntMod + (x + IntMod)
    <3> DEFINE j == k * IntMod
    <3>1. j \in Nat /\ SizeMod = j + IntMod
      BY <2>2, <2>4
    <3> HIDE DEF j
    <3>2. Size(x) = j + (x + IntMod)
      BY <1>2, <3>1, Widths, SMTT(30) DEF Size
    <3> QED BY <3>2 DEF j
  <2>6. (k * IntMod + (x + IntMod)) % IntMod = x + IntMod
    BY <2>3, Widths, Remainder
  <2>7. AsInt(Size(x)) = (x + IntMod) - IntMod
    BY <2>3, <2>5, <2>6, Widths, HeapSizes DEF AsInt
  <2> QED
    BY <2>7, Widths, SMTT(30)
<1> QED
  BY <1>1, <1>2, SMTT(30)

(* What malloc rounds a request to holds the request and the links of a    *)
(* free block, and a larger request is never rounded to less.              *)
LEMMA RoundedBounds ==
  ASSUME NEW n \in Small
  PROVE  /\ Rounded(n) \in Nat /\ Rounded(n) >= n
         /\ Rounded(n) >= MIN_ALLOC_SIZE
         /\ Rounded(n) + SizeT <= INT_MAX
         /\ \A m \in Small : m <= n => Rounded(m) <= Rounded(n)
<1>1. MIN_ALLOC_SIZE \in Nat /\ SizeT \in Nat /\ INT_MAX \in Nat
  BY HeapSizes, SMTT(30) DEF MIN_ALLOC_SIZE
<1> DEFINE S(k) == IF MIN_ALLOC_SIZE >= k THEN MIN_ALLOC_SIZE ELSE k
<1>2. \A k \in Nat : Max({MIN_ALLOC_SIZE, k}) = S(k)
  BY <1>1, LargerOfTwo
<1>3. ASSUME NEW k \in Small
      PROVE  Rounded(k) = IF S(k) % 4 = 0 THEN S(k) ELSE (S(k) \div 4) * 4 + 4
  <2>1. /\ k \in Nat /\ k + MIN_ALLOC_SIZE + SizeT + 4 <= INT_MAX
        /\ Max({MIN_ALLOC_SIZE, k}) = S(k)
    BY <1>2, SmallNumbers
  <2>2. S(k) \in Nat /\ S(k) + 4 <= INT_MAX
    BY <2>1, <1>1, SMTT(30)
  <2>3. Rounded(k) = IF S(k) % 4 = 0 THEN S(k) ELSE Size((S(k) \div 4) * 4 + 4)
    <3> HIDE DEF S
    <3> QED BY <2>1 DEF Rounded
  <2> HIDE DEF S
  <2>4. (S(k) \div 4) * 4 + 4 \in Nat /\ (S(k) \div 4) * 4 + 4 <= INT_MAX
    BY <2>2, <1>1, SMTT(30)
  <2>5. Size((S(k) \div 4) * 4 + 4) = (S(k) \div 4) * 4 + 4
    BY <2>4, <1>1, Widths, SMTT(30) DEF Size
  <2> QED
    BY <2>3, <2>5
<1>4. ASSUME NEW k \in Small
      PROVE  /\ k \in Nat /\ k + MIN_ALLOC_SIZE + SizeT + 4 <= INT_MAX
             /\ Rounded(k) = ((S(k) + 3) \div 4) * 4
  <2>1. k \in Nat /\ k + MIN_ALLOC_SIZE + SizeT + 4 <= INT_MAX
    BY SmallNumbers
  <2>2. S(k) \in Nat
    BY <2>1, <1>1, SMTT(30)
  <2>3. Rounded(k) = IF S(k) % 4 = 0 THEN S(k) ELSE (S(k) \div 4) * 4 + 4
    BY <1>3
  <2> HIDE DEF S
  <2> QED
    BY <2>1, <2>2, <2>3, SMTT(30)
<1> QED
  BY <1>1, <1>4, SMTT(30)

(* On small requests malloc computes with sizes as with numbers. *)
LEMMA SizesExact ==
  ASSUME NEW n \in Small, NEW s \in Nat, s <= HEAP_SIZE
  PROVE  /\ Want(n) = Rounded(n) + SizeT
         /\ Split(s, n) <=> s - (Rounded(n) + SizeT) >= MIN_ALLOC_SIZE + SizeT
         /\ s >= Want(n) => Size(s - Want(n)) = s - (Rounded(n) + SizeT)
<1> DEFINE R == Rounded(n)
           x == s - (R + SizeT)
           c == MIN_ALLOC_SIZE + SizeT
<1>1. /\ R \in Nat /\ R + SizeT <= INT_MAX /\ SizeT \in Nat /\ INT_MAX \in Nat
      /\ HEAP_SIZE \in Nat /\ c \in Nat
  BY RoundedBounds, HeapSizes, SMTT(30) DEF MIN_ALLOC_SIZE
<1>2. s <= INT_MAX
  <2>1. 2 * HEAP_SIZE <= INT_MAX
    BY HeapSizes, SmallNumbers, SMTT(30)
  <2> QED
    BY <2>1, <1>1, SMTT(30)
<1>3. c <= INT_MAX
  <2>1. n \in Nat /\ n + MIN_ALLOC_SIZE + SizeT + 4 <= INT_MAX /\ MIN_ALLOC_SIZE \in Nat
    BY SmallNumbers
  <2> QED
    BY <2>1, <1>1, SMTT(30)
<1> HIDE DEF R, c
<1>4. Size(R + SizeT) = R + SizeT
  BY <1>1, Widths, SMTT(30) DEF Size
<1>5. Want(n) = R + SizeT
  BY <1>4 DEF Want, R
<1>6. Size(Size(s - R) - SizeT) = Size(x)
  BY <1>1, <1>2, Widths, SMTT(30) DEF Size
<1>7. x \in Int /\ 0 - INT_MAX <= x /\ x <= INT_MAX
  BY <1>1, <1>2, SMTT(30)
<1> HIDE DEF x
<1>8. AsInt(Size(x)) = x
  BY <1>7, IntOfSize
<1>9. AsInt(c) = c
  <2>1. c \in Int /\ 0 - INT_MAX <= c
    BY <1>1, SMTT(30)
  <2>2. AsInt(Size(c)) = c
    BY <2>1, <1>3, IntOfSize
  <2>3. Size(c) = c
    BY <1>1, <1>3, Widths, SMTT(30) DEF Size
  <2> QED
    BY <2>2, <2>3
<1>10. Split(s, n) <=> x >= c
  BY <1>6, <1>8, <1>9 DEF Split, R, c
<1>11. s >= R + SizeT => Size(s - (R + SizeT)) = s - (R + SizeT)
  BY <1>1, <1>2, Widths, SMTT(30) DEF Size
<1> QED
  BY <1>5, <1>10, <1>11 DEF R, x, c

(* The elements of a sequence without its i-th. *)
LEMMA UnlinkedElements ==
  ASSUME NEW S, NEW s \in Seq(S), NEW i \in 1 .. Len(s)
  PROVE  /\ Unlinked(s, i) \in Seq(S)
         /\ Len(Unlinked(s, i)) = Len(s) - 1
         /\ \A k \in 1 .. i - 1 : Unlinked(s, i)[k] = s[k]
         /\ \A k \in i .. Len(s) - 1 : Unlinked(s, i)[k] = s[k + 1]
<1> DEFINE l == SubSeq(s, 1, i - 1)
           r == SubSeq(s, i + 1, Len(s))
           t == Unlinked(s, i)
<1>0. Len(s) \in Nat /\ i \in Int
  BY SMTT(30)
<1>1. /\ l \in Seq(S) /\ Len(l) = i - 1
      /\ \A k \in 1 .. i - 1 : l[k] = s[k]
  BY SMTT(30)
<1>2. /\ r \in Seq(S) /\ Len(r) = Len(s) - i
      /\ \A k \in 1 .. Len(s) - i : r[k] = s[k + i]
  BY SMTT(30)
<1>3. t = l \o r
  BY DEF Unlinked
<1> HIDE DEF l, r, t
<1>4. /\ t \in Seq(S) /\ Len(t) = Len(l) + Len(r)
      /\ \A k \in 1 .. Len(l) : t[k] = l[k]
      /\ \A k \in 1 .. Len(r) : t[Len(l) + k] = r[k]
  <2>1. l \in Seq(S) /\ r \in Seq(S)
    BY <1>1, <1>2
  <2> QED
    BY <2>1, <1>3, SMTT(30)
<1>5. Len(t) = Len(s) - 1 /\ \A k \in 1 .. i - 1 : t[k] = s[k]
  BY <1>0, <1>1, <1>2, <1>4, SMTT(30)
<1>6. ASSUME NEW k \in i .. Len(s) - 1
      PROVE  t[k] = s[k + 1]
  <2>1. k - i + 1 \in 1 .. Len(r) /\ Len(l) + (k - i + 1) = k /\ (k - i + 1) + i = k + 1
        /\ k - i + 1 \in 1 .. Len(s) - i
    BY <1>0, <1>1, <1>2, SMTT(30)
  <2>2. t[Len(l) + (k - i + 1)] = r[k - i + 1] /\ r[k - i + 1] = s[(k - i + 1) + i]
    BY <2>1, <1>2, <1>4
  <2> QED
    BY <2>1, <2>2
<1> QED
  BY <1>4, <1>5, <1>6 DEF t

(* The elements of a sequence with e put in as its i-th. *)
LEMMA LinkedElements ==
  ASSUME NEW S, NEW s \in Seq(S), NEW i \in 1 .. Len(s) + 1, NEW e \in S
  PROVE  /\ Linked(s, i, e) \in Seq(S)
         /\ Len(Linked(s, i, e)) = Len(s) + 1
         /\ \A k \in 1 .. i - 1 : Linked(s, i, e)[k] = s[k]
         /\ Linked(s, i, e)[i] = e
         /\ \A k \in i + 1 .. Len(s) + 1 : Linked(s, i, e)[k] = s[k - 1]
<1> DEFINE l == SubSeq(s, 1, i - 1)
           m == <<e>>
           r == SubSeq(s, i, Len(s))
           lm == l \o m
           t == Linked(s, i, e)
<1>0. Len(s) \in Nat /\ i \in Int
  BY SMTT(30)
<1>1. /\ l \in Seq(S) /\ Len(l) = i - 1
      /\ \A k \in 1 .. i - 1 : l[k] = s[k]
  BY SMTT(30)
<1>2. /\ r \in Seq(S) /\ Len(r) = Len(s) - i + 1
      /\ \A k \in 1 .. Len(s) - i + 1 : r[k] = s[k + i - 1]
  BY SMTT(30)
<1>3. m \in Seq(S) /\ Len(m) = 1 /\ m[1] = e
  BY SMTT(30)
<1>4. t = lm \o r
  BY DEF Linked
<1> HIDE DEF t, r, l, m
<1>5. /\ lm \in Seq(S) /\ Len(lm) = i
      /\ \A k \in 1 .. i - 1 : lm[k] = s[k]
      /\ lm[i] = e
  <2>1. /\ lm \in Seq(S) /\ Len(lm) = Len(l) + Len(m)
        /\ \A k \in 1 .. Len(l) : lm[k] = l[k]
        /\ \A k \in 1 .. Len(m) : lm[Len(l) + k] = m[k]
    <3>1. l \in Seq(S) /\ m \in Seq(S)
      BY <1>1, <1>3
    <3> QED
      BY <3>1, SMTT(30)
  <2>2. lm[Len(l) + 1] = m[1] /\ Len(l) + 1 = i
    <3> HIDE DEF lm
    <3> QED BY <2>1, <1>0, <1>1, <1>3, SMTT(30)
  <2> HIDE DEF lm
  <2> QED
    BY <2>1, <2>2, <1>0, <1>1, <1>3, SMTT(30)
<1> HIDE DEF lm
<1>6. /\ t \in Seq(S) /\ Len(t) = Len(lm) + Len(r)
      /\ \A k \in 1 .. Len(lm) : t[k] = lm[k]
      /\ \A k \in 1 .. Len(r) : t[Len(lm) + k] = r[k]
  BY <1>2, <1>4, <1>5, SMTT(30)
<1>7. /\ Len(t) = Len(s) + 1 /\ t[i] = e
      /\ \A k \in 1 .. i - 1 : t[k] = s[k]
  BY <1>0, <1>2, <1>5, <1>6, SMTT(30)
<1>8. ASSUME NEW k \in i + 1 .. Len(s) + 1
      PROVE  t[k] = s[k - 1]
  <2>1. /\ k - i \in 1 .. Len(r) /\ Len(lm) + (k - i) = k
        /\ k - i \in 1 .. Len(s) - i + 1 /\ (k - i) + i - 1 = k - 1
    BY <1>0, <1>2, <1>5, SMTT(30)
  <2>2. t[Len(lm) + (k - i)] = r[k - i] /\ r[k - i] = s[(k - i) + i - 1]
    BY <2>1, <1>2, <1>6
  <2> QED
    BY <2>1, <2>2
<1> QED
  BY <1>6, <1>7, <1>8 DEF t

-----------------------------------------------------------------------------
(* The numbers that sizes are compared with. *)
LEMMA Minimum ==
  MIN_ALLOC_SIZE + SizeT \in Nat /\ MIN_ALLOC_SIZE + SizeT > 0 /\ HEAP_SIZE \in Nat
BY HeapSizes, SMTT(30) DEF MIN_ALLOC_SIZE

(* The end of a free block cut off becomes a block that is in use. *)
LEMMA SplitTiled ==
  ASSUME NEW h, NEW U, Tiled(h, U), Apart(h, {}),
         NEW i \in 1 .. Len(h.free), NEW want \in Nat, NEW rest \in Nat,
         want >= MIN_ALLOC_SIZE + SizeT, rest >= MIN_ALLOC_SIZE + SizeT,
         h.size[h.free[i]] = rest + want,
         NEW g,
         g = [h EXCEPT !.size = With([@ EXCEPT ![h.free[i]] = rest],
                                     h.free[i] + rest, want)]
  PROVE  Gives(h.free[i] + rest, g, h, U, want)
<1> DEFINE D == DOMAIN h.size
           z == h.size
           f == h.free
           b == f[i]
           c == b + rest
           m == MIN_ALLOC_SIZE + SizeT
           y == g.size
           W == U \cup {c}
<1>1. /\ D \subseteq Nat /\ 0 \in D /\ z \in [D -> Nat] /\ f \in Seq(D)
      /\ h = [size |-> z, free |-> f] /\ U \subseteq D
  BY DEF Tiled
<1>2. /\ \A a \in D : z[a] >= m /\ a + z[a] \in D \cup {HEAP_SIZE} /\ a + z[a] <= HEAP_SIZE
      /\ \A x \in D \cup {HEAP_SIZE} : x # 0 => \E a \in D : a + z[a] = x
      /\ \A a, x \in D : a < x => a + z[a] <= x
  BY DEF Tiled
<1>3. /\ \A k, j \in 1 .. Len(f) : k < j => f[k] < f[j]
      /\ \A k \in 1 .. Len(f) : f[k] \notin U
      /\ \A a \in D : a \notin U => \E k \in 1 .. Len(f) : f[k] = a
      /\ \A k \in 1 .. Len(f) - 1 : f[k] + z[f[k]] # f[k + 1]
  BY DEF Tiled, Apart
<1>4. b \in D /\ b \in Nat /\ b \notin U /\ m \in Nat /\ m > 0 /\ HEAP_SIZE \in Nat
  BY <1>1, <1>3, Minimum, ElementOfSeq
<1>5. z[b] = rest + want /\ rest >= m /\ want >= m
  OBVIOUS
<1>6. /\ g = [size |-> y, free |-> f]
      /\ y = With([z EXCEPT ![b] = rest], c, want)
  BY <1>1
<1>7. /\ DOMAIN y = D \cup {c} /\ y[c] = want
      /\ \A a \in D : a # c => y[a] = IF a = b THEN rest ELSE z[a]
      /\ y = [x \in D \cup {c} |-> y[x]]
  BY <1>6, <1>1, <1>4 DEF With
<1>8. g.free = f
  BY <1>6
<1> HIDE DEF D, z, f, b, m, y
<1>9. c \in Nat /\ c # b /\ c > 0 /\ c \notin D
  <2>1. c \in Nat /\ b < c /\ ~(b + z[b] <= c)
    BY <1>4, <1>5, SMTT(30)
  <2>2. c \notin D
    BY <2>1, <1>2, <1>4
  <2> QED
    BY <2>1, <2>2, <1>4, SMTT(30)
<1>10. /\ y[b] = rest /\ \A a \in D : a # b => y[a] = z[a]
  BY <1>4, <1>7, <1>9
<1> HIDE DEF c
<1>11. DOMAIN y \subseteq Nat /\ 0 \in DOMAIN y /\ y \in [DOMAIN y -> Nat]
  <2>1. \A x \in D \cup {c} : y[x] \in Nat
    BY <1>1, <1>7, <1>10
  <2> QED
    BY <2>1, <1>1, <1>7, <1>9
<1>12. ASSUME NEW a \in DOMAIN y
       PROVE  y[a] >= m /\ a + y[a] \in DOMAIN y \cup {HEAP_SIZE} /\ a + y[a] <= HEAP_SIZE
  <2>1. CASE a = c
    <3>1. c + want = b + z[b]
      BY <1>4, <1>5, SMTT(30) DEF c
    <3> QED
      BY <2>1, <3>1, <1>2, <1>4, <1>5, <1>7
  <2>2. CASE a = b
    <3>1. b + rest = c
      BY DEF c
    <3>2. c <= b + z[b] /\ b + z[b] <= HEAP_SIZE /\ z[b] \in Nat
      BY <1>2, <1>4, <1>5, SMTT(30) DEF c
    <3>3. c <= HEAP_SIZE
      BY <3>2, <1>4, <1>9, SMTT(30)
    <3> QED
      BY <2>2, <3>1, <3>3, <1>5, <1>7, <1>10
  <2>3. CASE a # b /\ a # c
    BY <2>3, <1>2, <1>7, <1>10
  <2> QED
    BY <2>1, <2>2, <2>3
<1>13. ASSUME NEW x \in DOMAIN y \cup {HEAP_SIZE}, x # 0
       PROVE  \E a \in DOMAIN y : a + y[a] = x
  <2>1. CASE x = c
    BY <2>1, <1>4, <1>7, <1>10 DEF c
  <2>2. CASE x # c
    <3>1. PICK a \in D : a + z[a] = x
      BY <2>2, <1>2, <1>7, <1>13
    <3>2. CASE a = b
      <4>1. c + y[c] = x
        BY <3>1, <3>2, <1>4, <1>5, <1>7, SMTT(30) DEF c
      <4> QED
        BY <4>1, <1>7
    <3>3. CASE a # b
      BY <3>1, <3>3, <1>7, <1>10
    <3> QED
      BY <3>2, <3>3
  <2> QED
    BY <2>1, <2>2
<1>14. ASSUME NEW a \in DOMAIN y, NEW x \in DOMAIN y, a < x
       PROVE  a + y[a] <= x
  <2>1. CASE a = c /\ x = c
    BY <2>1, <1>9, <1>14, SMTT(30)
  <2>2. CASE a = c /\ x \in D
    <3>1. b < x
      BY <2>2, <1>1, <1>4, <1>14, SMTT(30) DEF c
    <3>2. b + z[b] <= x
      BY <2>2, <3>1, <1>2, <1>4
    <3> QED
      BY <2>2, <3>2, <1>1, <1>4, <1>5, <1>7, SMTT(30) DEF c
  <2>3. CASE a = b /\ x = c
    BY <2>3, <1>4, <1>10, SMTT(30) DEF c
  <2>4. CASE a = b /\ x \in D
    BY <2>4, <1>1, <1>2, <1>4, <1>5, <1>10, <1>14, SMTT(30)
  <2>5. CASE a \in D /\ a # b /\ x = c
    <3>1. a < b
      <4> SUFFICES ASSUME b < a PROVE FALSE
        BY <2>5, <1>1, <1>4, SMTT(30)
      <4>1. b + z[b] <= a
        BY <2>5, <1>2, <1>4
      <4> QED
        BY <4>1, <2>5, <1>1, <1>4, <1>5, <1>14, SMTT(30) DEF c
    <3>2. a + z[a] <= b /\ z[a] \in Nat /\ y[a] = z[a]
      BY <3>1, <2>5, <1>1, <1>2, <1>4, <1>10
    <3> QED
      BY <3>2, <2>5, <1>1, <1>4, SMTT(30) DEF c
  <2>6. CASE a \in D /\ a # b /\ x \in D
    BY <2>6, <1>2, <1>10, <1>14
  <2> QED
    BY <2>1, <2>2, <2>3, <2>4, <2>5, <2>6, <1>7
<1>15. f \in Seq(DOMAIN y)
  BY <1>1, <1>7, SeqMonotonic
<1>16. \A k \in 1 .. Len(f) : f[k] \in D /\ f[k] \notin W
  BY <1>1, <1>3, <1>9, ElementOfSeq
<1>17. \A a \in DOMAIN y : a \notin W => \E k \in 1 .. Len(f) : f[k] = a
  BY <1>3, <1>7
<1>18. Tiled(g, W)
  <2>1. W \subseteq DOMAIN y
    BY <1>1, <1>7
  <2> HIDE DEF W
  <2>2. g = [size |-> y, free |-> f] /\ g.size = y /\ g.free = f
    BY <1>6, <1>8 DEF y
  <2>3. \A k \in 1 .. Len(f) : f[k] \notin W
    BY <1>16
  <2> HIDE DEF y
  <2> QED
    BY <2>1, <2>2, <2>3, <1>3, <1>11, <1>12, <1>13, <1>14, <1>15, <1>17 DEF Tiled, m
<1>19. Apart(g, {})
  <2> SUFFICES ASSUME NEW k \in 1 .. Len(f) - 1, f[k] + y[f[k]] = f[k + 1]
               PROVE  FALSE
    BY <1>8 DEF Apart, y
  <2>0. Len(f) \in Nat
    BY <1>1, LenProperties
  <2>1. k \in 1 .. Len(f) /\ k + 1 \in 1 .. Len(f)
    BY ONLY SMTT(30), <2>0, k \in 1 .. Len(f) - 1
  <2>2. CASE f[k] = b
    <3>1. f[k + 1] = c
      BY <2>2, <1>10 DEF c
    <3> QED
      BY <2>1, <3>1, <1>9, <1>16
  <2>3. CASE f[k] # b
    BY <2>1, <2>3, <1>3, <1>10, <1>16
  <2> QED
    BY <2>2, <2>3
<1>20. c \notin U /\ y[c] >= want /\ \A u \in U : y[u] = z[u]
  <2>1. want >= want
    BY SMTT(30)
  <2> QED
    BY <2>1, <1>1, <1>4, <1>7, <1>9, <1>10
<1>21. Gives(c, g, h, U, want)
  BY <1>9, <1>18, <1>19, <1>20 DEF y, z, Gives
<1> QED
  BY <1>21 DEF c, b, f

Ascending(f) == \A k, j \in 1 .. Len(f) : k < j => f[k] < f[j]

(* t is f without its i-th element, and ascends. *)
Removed(t, f, i, D) ==
  /\ t \in Seq(D) /\ Len(t) = Len(f) - 1
  /\ \A k \in 1 .. i - 1 : t[k] = f[k]
  /\ \A k \in i .. Len(f) - 1 : t[k] = f[k + 1]
  /\ Ascending(t)
  /\ \A k \in 1 .. Len(t) : \E j \in 1 .. Len(f) : j # i /\ t[k] = f[j]
  /\ \A j \in 1 .. Len(f) : j # i => \E k \in 1 .. Len(t) : t[k] = f[j]

(* t is f with e put in as its i-th element, and ascends. *)
Inserted(t, f, i, e, D) ==
  /\ t \in Seq(D) /\ Len(t) = Len(f) + 1
  /\ \A k \in 1 .. i - 1 : t[k] = f[k]
  /\ t[i] = e
  /\ \A k \in i + 1 .. Len(f) + 1 : t[k] = f[k - 1]
  /\ Ascending(t)
  /\ \A k \in 1 .. Len(t) : t[k] = e \/ \E j \in 1 .. Len(f) : t[k] = f[j]
  /\ \A j \in 1 .. Len(f) : \E k \in 1 .. Len(t) : t[k] = f[j]
  /\ \E k \in 1 .. Len(t) : t[k] = e

(* A sorted list stays sorted when its i-th element is taken out, and that *)
(* one alone is gone.                                                      *)
LEMMA RemoveSorted ==
  ASSUME NEW D, NEW f \in Seq(D), Ascending(f), NEW i \in 1 .. Len(f)
  PROVE  Removed(Unlinked(f, i), f, i, D)
<1> DEFINE t == Unlinked(f, i)
<1>1. /\ t \in Seq(D) /\ Len(t) = Len(f) - 1
      /\ \A k \in 1 .. i - 1 : t[k] = f[k]
      /\ \A k \in i .. Len(f) - 1 : t[k] = f[k + 1]
  BY UnlinkedElements
<1> HIDE DEF t
<1>0. Len(f) \in Nat /\ i \in Nat /\ i >= 1 /\ i <= Len(f)
  BY SMTT(30)
<1>2. ASSUME NEW k \in 1 .. Len(t)
      PROVE  \E j \in 1 .. Len(f) : j = (IF k < i THEN k ELSE k + 1) /\ t[k] = f[j]
  <2>1. CASE k < i
    <3>1. k \in 1 .. i - 1 /\ k \in 1 .. Len(f)
      BY <2>1, <1>0, <1>1, SMTT(30)
    <3> QED
      BY <2>1, <3>1, <1>1
  <2>2. CASE ~(k < i)
    <3>1. k \in i .. Len(f) - 1 /\ k + 1 \in 1 .. Len(f)
      BY <2>2, <1>0, <1>1, SMTT(30)
    <3> QED
      BY <2>2, <3>1, <1>1
  <2> QED
    BY <2>1, <2>2
<1>3. ASSUME NEW k \in 1 .. Len(t), NEW j \in 1 .. Len(t), k < j
      PROVE  t[k] < t[j]
  <2>1. PICK k1 \in 1 .. Len(f) : k1 = (IF k < i THEN k ELSE k + 1) /\ t[k] = f[k1]
    BY <1>2
  <2>2. PICK j1 \in 1 .. Len(f) : j1 = (IF j < i THEN j ELSE j + 1) /\ t[j] = f[j1]
    BY <1>2
  <2>3. k1 < j1
    <3>1. k \in Int /\ j \in Int
      BY SMTT(30)
    <3> QED
      BY <3>1, <2>1, <2>2, <1>0, <1>3, SMTT(30)
  <2> QED
    BY <2>1, <2>2, <2>3 DEF Ascending
<1>4. ASSUME NEW k \in 1 .. Len(t)
      PROVE  \E j \in 1 .. Len(f) : j # i /\ t[k] = f[j]
  <2>1. PICK k1 \in 1 .. Len(f) : k1 = (IF k < i THEN k ELSE k + 1) /\ t[k] = f[k1]
    BY <1>2
  <2>2. k1 # i
    <3>1. k \in Int
      BY SMTT(30)
    <3> QED
      BY <3>1, <2>1, <1>0, SMTT(30)
  <2> QED
    BY <2>1, <2>2
<1>5. ASSUME NEW j \in 1 .. Len(f), j # i
      PROVE  \E k \in 1 .. Len(t) : t[k] = f[j]
  <2>1. CASE j < i
    <3>1. j \in 1 .. i - 1 /\ j \in 1 .. Len(t)
      BY <2>1, <1>0, <1>1, SMTT(30)
    <3> QED
      BY <3>1, <1>1
  <2>2. CASE ~(j < i)
    <3>1. j - 1 \in i .. Len(f) - 1 /\ j - 1 \in 1 .. Len(t) /\ (j - 1) + 1 = j
      BY <2>2, <1>0, <1>1, <1>5, SMTT(30)
    <3> QED
      BY <3>1, <1>1
  <2> QED
    BY <2>1, <2>2
<1>6. Removed(t, f, i, D)
  BY <1>1, <1>3, <1>4, <1>5 DEF Removed, Ascending
<1> QED
  BY <1>6 DEF t

(* A list stays sorted when an element is put in at its place. *)
LEMMA InsertSorted ==
  ASSUME NEW D, NEW f \in Seq(D), Ascending(f),
         NEW i \in 1 .. Len(f) + 1, NEW e \in D,
         \A k \in 1 .. Len(f) : IF k < i THEN f[k] < e ELSE e < f[k]
  PROVE  Inserted(Linked(f, i, e), f, i, e, D)
<1> DEFINE t == Linked(f, i, e)
<1>1. /\ t \in Seq(D) /\ Len(t) = Len(f) + 1
      /\ \A k \in 1 .. i - 1 : t[k] = f[k]
      /\ t[i] = e
      /\ \A k \in i + 1 .. Len(f) + 1 : t[k] = f[k - 1]
  <2>1. /\ Linked(f, i, e) \in Seq(D)
        /\ Len(Linked(f, i, e)) = Len(f) + 1
        /\ \A k \in 1 .. i - 1 : Linked(f, i, e)[k] = f[k]
        /\ Linked(f, i, e)[i] = e
        /\ \A k \in i + 1 .. Len(f) + 1 : Linked(f, i, e)[k] = f[k - 1]
    BY LinkedElements, SMTT(30)
  <2> QED
    BY <2>1
<1> HIDE DEF t
<1>0. Len(f) \in Nat /\ i \in Nat /\ i >= 1 /\ i <= Len(f) + 1
  BY SMTT(30)
<1>2. ASSUME NEW k \in 1 .. Len(t)
      PROVE  \/ k = i /\ t[k] = e
             \/ k < i /\ k \in 1 .. Len(f) /\ t[k] = f[k]
             \/ k > i /\ k - 1 \in 1 .. Len(f) /\ t[k] = f[k - 1]
  <2>1. CASE k < i
    <3>1. k \in 1 .. i - 1 /\ k \in 1 .. Len(f)
      BY <2>1, <1>0, <1>1, SMTT(30)
    <3> QED
      BY <2>1, <3>1, <1>1
  <2>2. CASE k > i
    <3>1. k \in i + 1 .. Len(f) + 1 /\ k - 1 \in 1 .. Len(f)
      BY <2>2, <1>0, <1>1, SMTT(30)
    <3> QED
      BY <2>2, <3>1, <1>1
  <2>3. k < i \/ k > i \/ k = i
    BY <1>0, SMTT(30)
  <2> QED
    BY <2>1, <2>2, <2>3, <1>1
<1>3. ASSUME NEW k \in 1 .. Len(t), NEW j \in 1 .. Len(t), k < j
      PROVE  t[k] < t[j]
  <2>0. k \in Int /\ j \in Int
    BY SMTT(30)
  <2>1. CASE k = i
    <3>1. j > i /\ ~(j < i) /\ j # i /\ ~(j - 1 < i)
      BY <2>0, <2>1, <1>0, <1>3, SMTT(30)
    <3>2. j - 1 \in 1 .. Len(f) /\ t[j] = f[j - 1]
      BY <3>1, <1>2
    <3> QED
      BY <2>1, <3>1, <3>2, <1>1
  <2>2. CASE k < i /\ j = i
    BY <2>2, <1>1, <1>2, SMTT(30)
  <2>3. CASE k < i /\ j < i
    <3>1. k \in 1 .. Len(f) /\ j \in 1 .. Len(f) /\ t[k] = f[k] /\ t[j] = f[j]
      <4>1. k # i /\ j # i /\ ~(k > i) /\ ~(j > i)
        BY <2>0, <2>3, <1>0, SMTT(30)
      <4> QED
        BY <4>1, <1>2
    <3> QED
      BY <3>1, <1>3 DEF Ascending
  <2>4. CASE k < i /\ j > i
    <3>1. k \in 1 .. Len(f) /\ j - 1 \in 1 .. Len(f) /\ t[k] = f[k] /\ t[j] = f[j - 1]
      <4>1. k # i /\ j # i /\ ~(k > i) /\ ~(j < i)
        BY <2>0, <2>4, <1>0, SMTT(30)
      <4> QED
        BY <4>1, <1>2
    <3>2. k < j - 1
      BY <2>0, <2>4, <1>0, SMTT(30)
    <3> QED
      BY <3>1, <3>2 DEF Ascending
  <2>5. CASE k > i
    <3>1. k # i /\ j # i /\ ~(k < i) /\ ~(j < i) /\ k - 1 < j - 1
      BY <2>0, <2>5, <1>0, <1>3, SMTT(30)
    <3>2. k - 1 \in 1 .. Len(f) /\ j - 1 \in 1 .. Len(f) /\ t[k] = f[k - 1] /\ t[j] = f[j - 1]
      BY <3>1, <1>2
    <3> QED
      BY <3>1, <3>2 DEF Ascending
  <2>6. k = i \/ k > i \/ (k < i /\ (j = i \/ j < i \/ j > i))
    BY <2>0, <1>0, SMTT(30)
  <2> QED
    BY <2>1, <2>2, <2>3, <2>4, <2>5, <2>6
<1>4. ASSUME NEW j \in 1 .. Len(f)
      PROVE  \E k \in 1 .. Len(t) : t[k] = f[j]
  <2>1. CASE j < i
    <3>1. j \in 1 .. i - 1 /\ j \in 1 .. Len(t)
      BY <2>1, <1>0, <1>1, SMTT(30)
    <3> QED
      BY <3>1, <1>1
  <2>2. CASE ~(j < i)
    <3>1. j + 1 \in i + 1 .. Len(f) + 1 /\ j + 1 \in 1 .. Len(t) /\ (j + 1) - 1 = j
      BY <2>2, <1>0, <1>1, SMTT(30)
    <3> QED
      BY <3>1, <1>1
  <2> QED
    BY <2>1, <2>2
<1>5. i \in 1 .. Len(t)
  BY <1>0, <1>1, SMTT(30)
<1>6. ASSUME NEW k \in 1 .. Len(t)
      PROVE  t[k] = e \/ \E j \in 1 .. Len(f) : t[k] = f[j]
  BY <1>2
<1>7. Inserted(t, f, i, e, D)
  BY <1>1, <1>3, <1>4, <1>5, <1>6 DEF Inserted, Ascending
<1> QED
  BY <1>7 DEF t

(* A free block taken whole is in use. *)
LEMMA TakeTiled ==
  ASSUME NEW h, NEW U, Tiled(h, U), Apart(h, {}),
         NEW i \in 1 .. Len(h.free), NEW want, h.size[h.free[i]] >= want,
         NEW g, g = [h EXCEPT !.free = Unlinked(@, i)]
  PROVE  Gives(h.free[i], g, h, U, want)
<1> DEFINE D == DOMAIN h.size
           z == h.size
           f == h.free
           b == f[i]
           t == Unlinked(f, i)
           W == U \cup {b}
<1>1. /\ D \subseteq Nat /\ z \in [D -> Nat] /\ f \in Seq(D)
      /\ h = [size |-> z, free |-> f] /\ U \subseteq D
      /\ \A a, x \in D : a < x => a + z[a] <= x
  BY DEF Tiled
<1>2. /\ \A k, j \in 1 .. Len(f) : k < j => f[k] < f[j]
      /\ \A k \in 1 .. Len(f) : f[k] \notin U
      /\ \A a \in D : a \notin U => \E k \in 1 .. Len(f) : f[k] = a
      /\ \A k \in 1 .. Len(f) - 1 : f[k] + z[f[k]] # f[k + 1]
  BY DEF Tiled, Apart
<1>3. b \in D /\ b \in Nat /\ b \notin U
  BY <1>1, <1>2, ElementOfSeq
<1>4. g = [size |-> z, free |-> t] /\ g.size = z /\ g.free = t
  BY <1>1
<1> HIDE DEF f, t
<1>5. /\ t \in Seq(D) /\ Len(t) = Len(f) - 1
      /\ \A k \in 1 .. i - 1 : t[k] = f[k]
      /\ \A k \in i .. Len(f) - 1 : t[k] = f[k + 1]
      /\ \A k, j \in 1 .. Len(t) : k < j => t[k] < t[j]
      /\ \A k \in 1 .. Len(t) : \E j \in 1 .. Len(f) : j # i /\ t[k] = f[j]
      /\ \A j \in 1 .. Len(f) : j # i => \E k \in 1 .. Len(t) : t[k] = f[j]
  <2>1. i \in 1 .. Len(f) /\ t = Unlinked(f, i)
    BY DEF f, t
  <2>2. f \in Seq(D) /\ Ascending(f)
    BY <1>1, <1>2 DEF Ascending
  <2> HIDE DEF D
  <2>3. Removed(t, f, i, D)
    BY <2>1, <2>2, RemoveSorted
  <2> QED
    BY <2>3 DEF Removed, Ascending
<1>6. \A k \in 1 .. Len(t) : t[k] \notin W
  <2> SUFFICES ASSUME NEW k \in 1 .. Len(t) PROVE t[k] \notin W
    OBVIOUS
  <2>1. PICK j \in 1 .. Len(f) : j # i /\ t[k] = f[j]
    BY <1>5
  <2>2. j < i \/ i < j
    <3>1. i \in 1 .. Len(f)
      BY DEF f
    <3> QED
      BY <2>1, <3>1, SMTT(30)
  <2>3. f[j] < f[i] \/ f[i] < f[j]
    <3>1. i \in 1 .. Len(f)
      BY DEF f
    <3> QED
      BY <2>2, <3>1, <1>2
  <2>4. f[j] # b
    <3>1. f[j] \in Nat
      BY <1>1, ElementOfSeq
    <3> QED
      BY <3>1, <2>3, <1>3, SMTT(30)
  <2> QED
    BY <2>1, <2>4, <1>2
<1>7. ASSUME NEW a \in D, a \notin W
      PROVE  \E k \in 1 .. Len(t) : t[k] = a
  <2>1. PICK j \in 1 .. Len(f) : f[j] = a
    BY <1>2, <1>7
  <2>2. j # i
    BY <2>1, <1>7
  <2> QED
    BY <2>1, <2>2, <1>5
<1>8. Tiled(g, W)
  <2>1. W \subseteq D
    BY <1>1, <1>3
  <2> HIDE DEF W, D
  <2>2. D = DOMAIN z
    BY DEF D
  <2> HIDE DEF z
  <2>3. /\ D \subseteq Nat /\ 0 \in D /\ z \in [D -> Nat]
        /\ \A a \in D :
             /\ z[a] >= MIN_ALLOC_SIZE + SizeT
             /\ a + z[a] \in D \cup {HEAP_SIZE}
             /\ a + z[a] <= HEAP_SIZE
        /\ \A x \in D \cup {HEAP_SIZE} : x # 0 => \E a \in D : a + z[a] = x
        /\ \A a, x \in D : a < x => a + z[a] <= x
    BY DEF Tiled, D, z
  <2> QED
    BY <2>1, <2>2, <2>3, <1>4, <1>5, <1>6, <1>7 DEF Tiled
<1>9. Apart(g, {})
  <2> SUFFICES ASSUME NEW k \in 1 .. Len(t) - 1
               PROVE  t[k] + z[t[k]] # t[k + 1]
    BY <1>4 DEF Apart
  <2>0. i \in 1 .. Len(f) /\ Len(f) \in Nat /\ Len(t) = Len(f) - 1
    BY <1>1, <1>5, LenProperties DEF f
  <2>1. k \in 1 .. Len(t) /\ k + 1 \in 1 .. Len(t) /\ k \in 1 .. Len(f)
        /\ k + 1 \in 1 .. Len(f) /\ k \in 1 .. Len(f) - 1
    BY <2>0, SMTT(30)
  <2>2. CASE k + 1 < i
    <3>1. k \in 1 .. i - 1 /\ k + 1 \in 1 .. i - 1
      BY <2>0, <2>2, SMTT(30)
    <3> QED
      BY <2>1, <3>1, <1>2, <1>5
  <2>3. CASE k + 1 = i
    <3>1. k \in 1 .. i - 1 /\ k + 1 \in i .. Len(f) - 1 /\ k + 2 = (k + 1) + 1
          /\ k + 2 \in 1 .. Len(f) /\ k < k + 1 /\ k + 1 < k + 2
      BY <2>0, <2>3, SMTT(30)
    <3>2. t[k] = f[k] /\ t[k + 1] = f[k + 2]
      BY <3>1, <1>5
    <3>3. f[k] < f[k + 1] /\ f[k + 1] < f[k + 2]
      BY <2>1, <3>1, <1>2
    <3>4. f[k] \in D /\ f[k + 1] \in D /\ f[k + 2] \in D
      BY <2>1, <3>1, <1>1, ElementOfSeq
    <3>5. f[k] + z[f[k]] <= f[k + 1] /\ z[f[k]] \in Nat
      BY <3>3, <3>4, <1>1
    <3> HIDE DEF D
    <3>6. f[k] \in Nat /\ f[k + 1] \in Nat /\ f[k + 2] \in Nat
      BY <3>4, <1>1
    <3> QED
      BY <3>2, <3>3, <3>5, <3>6, SMTT(30)
  <2>4. CASE k + 1 > i
    <3>1. k \in i .. Len(f) - 1 /\ k + 1 \in i .. Len(f) - 1
          /\ k + 1 \in 1 .. Len(f) - 1
      BY <2>0, <2>4, SMTT(30)
    <3> QED
      BY <3>1, <1>2, <1>5
  <2> QED
    BY <2>0, <2>2, <2>3, <2>4, SMTT(30)
<1> QED
  BY <1>3, <1>4, <1>8, <1>9 DEF f, Gives

(* Two free blocks that touch become one, and the place where they touched *)
(* is gone from those at which blocks may touch.                           *)
LEMMA JoinTiled ==
  ASSUME NEW h, NEW U, Tiled(h, U),
         NEW i \in 1 .. Len(h.free) - 1, NEW E,
         Apart(h, E \cup {i}), Before(E, i),
         h.free[i] + h.size[h.free[i]] = h.free[i + 1],
         NEW g,
         g = [size |-> Without([h.size EXCEPT ![h.free[i]] = @ + h.size[h.free[i + 1]]],
                               h.free[i + 1]),
              free |-> Unlinked(h.free, i + 1)]
  PROVE  Keeps(g, h, U, E)
<1> DEFINE D == DOMAIN h.size
           z == h.size
           f == h.free
           a == f[i]
           b == f[i + 1]
           m == MIN_ALLOC_SIZE + SizeT
           y == g.size
           t == Unlinked(f, i + 1)
           C == D \ {b}
<1>1. /\ D \subseteq Nat /\ 0 \in D /\ z \in [D -> Nat] /\ f \in Seq(D)
      /\ U \subseteq D
  BY DEF Tiled
<1>2. /\ \A x \in D : z[x] >= m /\ x + z[x] \in D \cup {HEAP_SIZE} /\ x + z[x] <= HEAP_SIZE
      /\ \A x \in D \cup {HEAP_SIZE} : x # 0 => \E w \in D : w + z[w] = x
      /\ \A x, w \in D : x < w => x + z[x] <= w
  BY DEF Tiled
<1>3. /\ Ascending(f)
      /\ \A k \in 1 .. Len(f) : f[k] \notin U
      /\ \A x \in D : x \notin U => \E k \in 1 .. Len(f) : f[k] = x
      /\ \A k \in 1 .. Len(f) - 1 : k \notin E \cup {i} => f[k] + z[f[k]] # f[k + 1]
  BY DEF Tiled, Apart, Ascending
<1>4. /\ Len(f) \in Nat /\ i \in Nat /\ i \in 1 .. Len(f) /\ i + 1 \in 1 .. Len(f)
      /\ i \in 1 .. Len(f) - 1
  <2>1. Len(f) \in Nat /\ i \in 1 .. Len(f) - 1
    BY <1>1, LenProperties
  <2> HIDE DEF f
  <2> QED
    BY <2>1, SMTT(30)
<1>5. /\ a \in D /\ b \in D /\ a \in Nat /\ b \in Nat
      /\ a \notin U /\ b \notin U /\ z[a] \in Nat /\ z[b] \in Nat
      /\ m \in Nat /\ m > 0 /\ HEAP_SIZE \in Nat
      /\ z[a] >= m /\ z[b] >= m
  BY <1>1, <1>2, <1>3, <1>4, Minimum, ElementOfSeq
<1>6. a + z[a] = b /\ a < b
  <2>1. a + z[a] = b
    OBVIOUS
  <2> HIDE DEF a, b, z, m
  <2> QED
    BY <2>1, <1>5, SMTT(30)
<1>7. /\ g.free = t /\ g = [size |-> y, free |-> t]
      /\ y = Without([z EXCEPT ![a] = @ + z[b]], b)
  OBVIOUS
<1>8. /\ DOMAIN y = C /\ y = [x \in C |-> y[x]]
      /\ y[a] = z[a] + z[b]
      /\ \A x \in C : x # a => y[x] = z[x]
  <2>1. a # b
    <3> HIDE DEF a, b
    <3> QED BY <1>5, <1>6, SMTT(30)
  <2>2. y = [x \in C |-> [z EXCEPT ![a] = @ + z[b]][x]]
    BY <1>1, <1>7 DEF Without, Restrict
  <2> HIDE DEF y
  <2> QED
    BY <1>1, <1>5, <2>1, <2>2
<1>9. Removed(t, f, i + 1, D)
  <2> HIDE DEF D, f
  <2> QED BY <1>1, <1>3, <1>4, RemoveSorted
<1> HIDE DEF D, z, f, a, b, m, y, t
<1>10. /\ t \in Seq(D) /\ Len(t) = Len(f) - 1
       /\ \A k \in 1 .. (i + 1) - 1 : t[k] = f[k]
       /\ \A k \in i + 1 .. Len(f) - 1 : t[k] = f[k + 1]
       /\ \A k, j \in 1 .. Len(t) : k < j => t[k] < t[j]
       /\ \A k \in 1 .. Len(t) : \E j \in 1 .. Len(f) : j # i + 1 /\ t[k] = f[j]
       /\ \A j \in 1 .. Len(f) : j # i + 1 => \E k \in 1 .. Len(t) : t[k] = f[j]
  <2>1. Ascending(t) /\ t \in Seq(D) /\ Len(t) = Len(f) - 1
    BY <1>9 DEF Removed
  <2>2. /\ \A k \in 1 .. (i + 1) - 1 : t[k] = f[k]
        /\ \A k \in i + 1 .. Len(f) - 1 : t[k] = f[k + 1]
    BY <1>9 DEF Removed
  <2>3. \A k \in 1 .. Len(t) : \E j \in 1 .. Len(f) : j # i + 1 /\ t[k] = f[j]
    BY <1>9 DEF Removed
  <2>4. \A j \in 1 .. Len(f) : j # i + 1 => \E k \in 1 .. Len(t) : t[k] = f[j]
    BY <1>9 DEF Removed
  <2> QED
    BY <2>1, <2>2, <2>3, <2>4 DEF Ascending
<1>11. \A j \in 1 .. Len(f) : j # i + 1 => f[j] # b
  <2> SUFFICES ASSUME NEW j \in 1 .. Len(f), j # i + 1 PROVE f[j] # b
    OBVIOUS
  <2>1. j < i + 1 \/ i + 1 < j
    BY <1>4, SMTT(30)
  <2>2. f[j] < b \/ b < f[j]
    BY <2>1, <1>3, <1>4 DEF Ascending, b
  <2>3. f[j] \in Nat
    BY <1>1, ElementOfSeq
  <2> QED
    BY <2>2, <2>3, <1>5, SMTT(30)
<1>12. /\ \A k \in 1 .. Len(t) : t[k] \in C /\ t[k] \notin U
       /\ t \in Seq(C)
  <2>1. \A k \in 1 .. Len(t) : t[k] \in C /\ t[k] \notin U
    <3> SUFFICES ASSUME NEW k \in 1 .. Len(t) PROVE t[k] \in C /\ t[k] \notin U
      OBVIOUS
    <3>1. PICK j \in 1 .. Len(f) : j # i + 1 /\ t[k] = f[j]
      BY <1>10
    <3>2. f[j] \in D
      BY <1>1, ElementOfSeq
    <3> QED
      BY <3>1, <3>2, <1>3, <1>11
  <2>2. t \in Seq(C)
    <3>1. t \in Seq(D) /\ \A k \in 1 .. Len(t) : t[k] \in C
      BY <2>1, <1>10
    <3> HIDE DEF C
    <3> QED
      BY <3>1, SMTT(30)
  <2> QED
    BY <2>1, <2>2
<1>13. ASSUME NEW x \in C, x \notin U
       PROVE  \E k \in 1 .. Len(t) : t[k] = x
  <2>1. PICK j \in 1 .. Len(f) : f[j] = x
    BY <1>3, <1>13
  <2>2. j # i + 1
    BY <2>1 DEF b
  <2> QED
    BY <2>1, <2>2, <1>10
<1>14. C \subseteq Nat /\ 0 \in C /\ U \subseteq C /\ a \in C /\ y \in [C -> Nat]
  <2>1. b # 0 /\ a # b /\ z[a] + z[b] \in Nat
    BY <1>5, <1>6, SMTT(30)
  <2>2. a \in C /\ C \subseteq Nat /\ 0 \in C /\ U \subseteq C
    BY <2>1, <1>1, <1>5
  <2>3. \A x \in C : y[x] \in Nat
    BY <2>1, <1>1, <1>8
  <2> QED
    BY <2>2, <2>3, <1>8
<1>15. ASSUME NEW x \in C
       PROVE  y[x] >= m /\ x + y[x] \in C \cup {HEAP_SIZE} /\ x + y[x] <= HEAP_SIZE
  <2>1. CASE x = a
    <3>1. a + y[a] = b + z[b] /\ y[a] >= m
      BY <1>5, <1>6, <1>8, SMTT(30)
    <3>2. b + z[b] \in D \cup {HEAP_SIZE} /\ b + z[b] <= HEAP_SIZE
      BY <1>2, <1>5
    <3>3. b + z[b] # b
      BY <1>5, SMTT(30)
    <3> QED
      BY <2>1, <3>1, <3>2, <3>3
  <2>2. CASE x # a
    <3>1. y[x] = z[x] /\ z[x] >= m /\ x + z[x] \in D \cup {HEAP_SIZE} /\ x + z[x] <= HEAP_SIZE
      BY <2>2, <1>2, <1>8
    <3>2. x + z[x] # b \/ b = HEAP_SIZE
      <4> SUFFICES ASSUME x + z[x] = b PROVE FALSE
        OBVIOUS
      <4>1. x \in Nat /\ z[x] \in Nat /\ x \in D
        BY <1>1
      <4>2. CASE x < a
        <5>1. x + z[x] <= a
          BY <4>1, <4>2, <1>2, <1>5
        <5> QED
          BY <4>1, <5>1, <1>5, <1>6, SMTT(30)
      <4>3. CASE a < x
        <5>1. a + z[a] <= x
          BY <4>1, <4>3, <1>2, <1>5
        <5> QED
          BY <3>1, <4>1, <5>1, <1>5, <1>6, SMTT(30)
      <4> QED
        BY <2>2, <4>1, <4>2, <4>3, <1>5, SMTT(30)
    <3> QED
      BY <3>1, <3>2
  <2> QED
    BY <2>1, <2>2
<1>16. ASSUME NEW x \in C \cup {HEAP_SIZE}, x # 0
       PROVE  \E w \in C : w + y[w] = x
  <2>1. PICK w \in D : w + z[w] = x
    BY <1>2, <1>16
  <2>2. CASE w = b
    <3>1. a + y[a] = x
      BY <2>1, <2>2, <1>5, <1>6, <1>8, SMTT(30)
    <3> QED
      BY <3>1, <1>14
  <2>3. CASE w = a
    <3>1. x = b /\ b = HEAP_SIZE
      BY <2>1, <2>3, <1>6, <1>16
    <3>2. b + z[b] <= HEAP_SIZE
      BY <1>2, <1>5
    <3> QED
      BY <3>1, <3>2, <1>5, SMTT(30)
  <2>4. CASE w # a /\ w # b
    BY <2>1, <2>4, <1>8
  <2> QED
    BY <2>2, <2>3, <2>4
<1>17. ASSUME NEW x \in C, NEW w \in C, x < w
       PROVE  x + y[x] <= w
  <2>1. CASE x = a
    <3>1. a + z[a] <= w /\ w \in Nat
      BY <2>1, <1>1, <1>2, <1>5, <1>17
    <3>2. b < w
      BY <3>1, <1>5, <1>6, <1>17, SMTT(30)
    <3>3. b + z[b] <= w
      BY <3>2, <1>2, <1>5
    <3> QED
      BY <2>1, <3>1, <3>3, <1>5, <1>6, <1>8, SMTT(30)
  <2>2. CASE x # a
    BY <2>2, <1>2, <1>8, <1>17
  <2> QED
    BY <2>1, <2>2
<1>18. Tiled(g, U)
  <2>1. g.size = y /\ g.free = t
    BY <1>7 DEF y
  <2>2. \A k \in 1 .. Len(t) : t[k] \notin U
    BY <1>12
  <2>3. /\ DOMAIN y \subseteq Nat /\ 0 \in DOMAIN y /\ U \subseteq DOMAIN y
        /\ y \in [DOMAIN y -> Nat] /\ t \in Seq(DOMAIN y)
    BY <1>8, <1>12, <1>14
  <2>4. \A x \in DOMAIN y : y[x] >= m /\ x + y[x] \in DOMAIN y \cup {HEAP_SIZE} /\ x + y[x] <= HEAP_SIZE
    BY <1>8, <1>15
  <2>5. \A x \in DOMAIN y \cup {HEAP_SIZE} : x # 0 => \E w \in DOMAIN y : w + y[w] = x
    BY <1>8, <1>16
  <2>6. \A x, w \in DOMAIN y : x < w => x + y[x] <= w
    BY <1>8, <1>17
  <2>7. \A x \in DOMAIN y : x \notin U => \E k \in 1 .. Len(t) : t[k] = x
    BY <1>8, <1>13
  <2>8. \A k, j \in 1 .. Len(t) : k < j => t[k] < t[j]
    BY <1>10
  <2> QED
    BY ONLY ZenonT(30), <1>7, <2>1, <2>2, <2>8, <2>3, <2>4, <2>5, <2>6, <2>7 DEF Tiled, m
<1>19. Apart(g, E)
  <2>1. g.size = y /\ g.free = t
    BY <1>7 DEF y
  <2> SUFFICES ASSUME NEW k \in 1 .. Len(t) - 1, k \notin E
               PROVE  t[k] + y[t[k]] # t[k + 1]
    BY <2>1 DEF Apart
  <2>2. Len(t) = Len(f) - 1 /\ k \in Int
    BY <1>10, SMTT(30)
  <2>3. CASE k < i
    <3>1. /\ k \in 1 .. (i + 1) - 1 /\ k + 1 \in 1 .. (i + 1) - 1 /\ k \in 1 .. Len(f) - 1
          /\ k \in 1 .. Len(f) /\ k # i
      BY <2>2, <2>3, <1>4, SMTT(30)
    <3>2. t[k] = f[k] /\ t[k + 1] = f[k + 1]
      BY <3>1, <1>10
    <3>3. f[k] + z[f[k]] # f[k + 1]
      BY <3>1, <1>3
    <3>4. y[f[k]] = z[f[k]]
      <4>1. f[k] < a /\ f[k] \in D
        BY <2>3, <3>1, <1>1, <1>3, <1>4, ElementOfSeq DEF Ascending, a
      <4>2. f[k] # a /\ f[k] # b
        BY <4>1, <1>1, <1>5, <1>6, SMTT(30)
      <4> QED
        BY <4>1, <4>2, <1>8
    <3> QED
      BY <3>2, <3>3, <3>4
  <2>4. CASE k = i
    <3>1. /\ k \in 1 .. (i + 1) - 1 /\ k + 1 \in i + 1 .. Len(f) - 1
          /\ i + 1 \in 1 .. Len(f) - 1
      BY <2>2, <2>4, <1>4, SMTT(30)
    <3>2. t[k] = a /\ t[k + 1] = f[i + 1 + 1]
      BY <2>4, <3>1, <1>10 DEF a
    <3>3. b + z[b] # f[i + 1 + 1]
      <4>1. i + 1 \notin E \cup {i}
        <5>1. ~(i + 1 < i) /\ i + 1 # i
          BY <1>4, SMTT(30)
        <5> QED
          BY <5>1 DEF Before
      <4> QED
        BY <3>1, <4>1, <1>3 DEF b
    <3>4. a + y[a] = b + z[b]
      BY <1>5, <1>6, <1>8, SMTT(30)
    <3> QED
      BY <3>2, <3>3, <3>4
  <2>5. CASE k > i
    <3>1. /\ k \in i + 1 .. Len(f) - 1 /\ k + 1 \in i + 1 .. Len(f) - 1
          /\ k + 1 \in 1 .. Len(f) - 1 /\ k + 1 \in 1 .. Len(f) /\ k + 1 # i
          /\ i < k + 1 /\ ~(k + 1 < i) /\ i + 1 < k + 1
      BY <2>2, <2>5, <1>4, SMTT(30)
    <3>2. t[k] = f[k + 1] /\ t[k + 1] = f[k + 1 + 1]
      BY <3>1, <1>10
    <3>3. f[k + 1] + z[f[k + 1]] # f[k + 1 + 1]
      <4>1. k + 1 \notin E \cup {i}
        BY <3>1 DEF Before
      <4> QED
        BY <3>1, <4>1, <1>3
    <3>4. y[f[k + 1]] = z[f[k + 1]]
      <4>1. b < f[k + 1] /\ f[k + 1] \in D
        BY <3>1, <1>1, <1>3, <1>4, ElementOfSeq DEF Ascending, b
      <4>2. f[k + 1] # a /\ f[k + 1] # b
        BY <4>1, <1>1, <1>5, <1>6, SMTT(30)
      <4> QED
        BY <4>1, <4>2, <1>8
    <3> QED
      BY <3>2, <3>3, <3>4
  <2> QED
    BY <2>2, <2>3, <2>4, <2>5, <1>4, SMTT(30)
<1>20. \A u \in U : y[u] = z[u]
  BY <1>1, <1>5, <1>8
<1> QED
  BY <1>18, <1>19, <1>20 DEF y, z, Keeps

(* Whether or not the i-th free block touches the next, it does not after  *)
(* the merge.                                                              *)
LEMMA MergeTiled ==
  ASSUME NEW h, NEW U, Tiled(h, U), NEW i \in Int, NEW E,
         Apart(h, E \cup {i}), Before(E, i)
  PROVE  Keeps(MergeNext(h, i), h, U, E)
<1>1. CASE i \in 1 .. Len(h.free) - 1 /\ h.free[i] + h.size[h.free[i]] = h.free[i + 1]
  <2>1. MergeNext(h, i) =
          [size |-> Without([h.size EXCEPT ![h.free[i]] = @ + h.size[h.free[i + 1]]],
                            h.free[i + 1]),
           free |-> Unlinked(h.free, i + 1)]
    BY <1>1 DEF MergeNext
  <2> QED
    BY <1>1, <2>1, JoinTiled
<1>2. CASE ~(i \in 1 .. Len(h.free) - 1 /\ h.free[i] + h.size[h.free[i]] = h.free[i + 1])
  <2>1. MergeNext(h, i) = h
    BY <1>2 DEF MergeNext
  <2>2. Apart(h, E)
    BY <1>2 DEF Apart
  <2> QED
    BY <2>1, <2>2 DEF Keeps
<1> QED
  BY <1>1, <1>2

(* The free blocks before a block's place in the list lie before it, and   *)
(* the others lie behind it.                                               *)
LEMMA PlaceSorted ==
  ASSUME NEW h, NEW D, D \subseteq Nat, h.free \in Seq(D), Ascending(h.free),
         NEW b \in D, \A k \in 1 .. Len(h.free) : h.free[k] # b
  PROVE  /\ Place(h, b) \in 1 .. Len(h.free) + 1
         /\ \A k \in 1 .. Len(h.free) :
              IF k < Place(h, b) THEN h.free[k] < b ELSE b < h.free[k]
<1> DEFINE f == h.free
           behind == {k \in DOMAIN f : f[k] > b}
           i == Place(h, b)
<1>1. DOMAIN f = 1 .. Len(f) /\ Len(f) \in Nat /\ \A k \in 1 .. Len(f) : f[k] \in D
  BY LenProperties, ElementOfSeq
<1>2. i = IF behind = {} THEN Len(f) + 1 ELSE Min(behind)
  BY DEF Place
<1>3. behind = {k \in 1 .. Len(f) : f[k] > b} /\ Ascending(f) /\ \A k \in 1 .. Len(f) : f[k] # b
  BY <1>1
<1> HIDE DEF i, f, behind
<1>4. \A k \in 1 .. Len(f) : f[k] \in Nat /\ b \in Nat /\ k \in Nat
  <2>1. \A k \in 1 .. Len(f) : k \in Nat
    BY <1>1, SMTT(30)
  <2> QED
    BY <2>1, <1>1
<1>5. CASE behind = {}
  <2>1. i = Len(f) + 1
    BY <1>2, <1>5
  <2>2. \A k \in 1 .. Len(f) : f[k] < b /\ k < i
    BY <2>1, <1>1, <1>3, <1>4, <1>5, SMTT(30)
  <2>3. i \in 1 .. Len(f) + 1
    BY <2>1, <1>1, SMTT(30)
  <2> QED
    BY <2>2, <2>3 DEF f, i
<1>6. CASE behind # {}
  <2>1. behind \subseteq Nat
    BY <1>3, <1>4
  <2>2. i \in behind /\ \A k \in behind : i <= k
    BY <2>1, <1>2, <1>6, LeastNumber
  <2>3. i \in 1 .. Len(f) /\ f[i] > b
    BY <2>2, <1>3
  <2>4. ASSUME NEW k \in 1 .. Len(f), k < i
        PROVE  f[k] < b
    <3>1. ~(i <= k)
      BY <2>3, <2>4, <1>4, SMTT(30)
    <3>2. ~(f[k] > b) /\ f[k] # b
      BY <3>1, <2>2, <1>3
    <3> QED
      BY <3>2, <1>4, SMTT(30)
  <2>5. ASSUME NEW k \in 1 .. Len(f), ~(k < i)
        PROVE  b < f[k]
    <3>1. k = i \/ i < k
      BY <2>3, <2>5, <1>4, SMTT(30)
    <3>2. k = i \/ f[i] < f[k]
      BY <3>1, <2>3, <1>3 DEF Ascending
    <3> QED
      BY <3>2, <2>3, <1>4, SMTT(30)
  <2>6. i \in 1 .. Len(f) + 1
    BY <2>3, <1>1, SMTT(30)
  <2> QED
    BY <2>4, <2>5, <2>6 DEF f, i
<1> QED
  BY <1>5, <1>6

(* A block in use that is put at its place in the list is free, and may    *)
(* touch only its neighbours there.                                        *)
LEMMA ListTiled ==
  ASSUME NEW h, NEW U, Tiled(h, U), Apart(h, {}), NEW b \in U, NEW i,
         i = Place(h, b),
         NEW g, g = [h EXCEPT !.free = Linked(@, i, b)]
  PROVE  /\ i \in Nat /\ g.size = h.size
         /\ Tiled(g, U \ {b}) /\ Apart(g, {i - 1, i})
<1> DEFINE D == DOMAIN h.size
           z == h.size
           f == h.free
           t == Linked(f, i, b)
           W == U \ {b}
<1>1. /\ D \subseteq Nat /\ 0 \in D /\ z \in [D -> Nat] /\ f \in Seq(D)
      /\ h = [size |-> z, free |-> f] /\ U \subseteq D /\ b \in D
  BY DEF Tiled
<1>2. /\ Ascending(f)
      /\ \A k \in 1 .. Len(f) : f[k] \notin U
      /\ \A a \in D : a \notin U => \E k \in 1 .. Len(f) : f[k] = a
      /\ \A k \in 1 .. Len(f) - 1 : f[k] + z[f[k]] # f[k + 1]
  BY DEF Tiled, Apart, Ascending
<1>3. g = [size |-> z, free |-> t] /\ g.size = z /\ g.free = t
  BY <1>1
<1>4. /\ i \in 1 .. Len(f) + 1
      /\ \A k \in 1 .. Len(f) : IF k < i THEN f[k] < b ELSE b < f[k]
  <2>1. \A k \in 1 .. Len(f) : f[k] # b
    BY <1>2
  <2> HIDE DEF D
  <2> QED
    BY <2>1, <1>1, <1>2, PlaceSorted
<1>5. Inserted(t, f, i, b, D)
  <2> HIDE DEF D, f
  <2> QED BY <1>1, <1>2, <1>4, InsertSorted
<1>6. /\ t \in Seq(D) /\ Len(t) = Len(f) + 1 /\ Ascending(t)
      /\ \A k \in 1 .. i - 1 : t[k] = f[k]
      /\ \A k \in i + 1 .. Len(f) + 1 : t[k] = f[k - 1]
  BY <1>5 DEF Inserted
<1>7. /\ \A k \in 1 .. Len(t) : t[k] = b \/ \E j \in 1 .. Len(f) : t[k] = f[j]
      /\ \A j \in 1 .. Len(f) : \E k \in 1 .. Len(t) : t[k] = f[j]
      /\ \E k \in 1 .. Len(t) : t[k] = b
  BY <1>5 DEF Inserted
<1> HIDE DEF t
<1>8. \A k \in 1 .. Len(t) : t[k] \notin W
  BY <1>2, <1>7
<1>9. \A a \in D : a \notin W => \E k \in 1 .. Len(t) : t[k] = a
  <2> SUFFICES ASSUME NEW a \in D, a \notin W
               PROVE  \E k \in 1 .. Len(t) : t[k] = a
    OBVIOUS
  <2>1. CASE a = b
    BY <2>1, <1>7
  <2>2. CASE a # b
    <3>1. PICK j \in 1 .. Len(f) : f[j] = a
      BY <2>2, <1>2
    <3> QED
      BY <3>1, <1>7
  <2> QED
    BY <2>1, <2>2
<1>10. Tiled(g, W)
  <2>1. W \subseteq D /\ \A k, j \in 1 .. Len(t) : k < j => t[k] < t[j]
    BY <1>1, <1>6 DEF Ascending
  <2>2. D = DOMAIN z
    OBVIOUS
  <2>3. /\ D \subseteq Nat /\ 0 \in D /\ z \in [D -> Nat]
        /\ \A a \in D :
             /\ z[a] >= MIN_ALLOC_SIZE + SizeT
             /\ a + z[a] \in D \cup {HEAP_SIZE}
             /\ a + z[a] <= HEAP_SIZE
        /\ \A x \in D \cup {HEAP_SIZE} : x # 0 => \E a \in D : a + z[a] = x
        /\ \A a, x \in D : a < x => a + z[a] <= x
    BY DEF Tiled
  <2>4. t \in Seq(D)
    BY <1>6
  <2> HIDE DEF W, D, z
  <2> QED
    BY ONLY ZenonT(30), <2>1, <2>2, <2>3, <2>4, <1>3, <1>8, <1>9 DEF Tiled
<1>11. Apart(g, {i - 1, i})
  <2> HIDE DEF z
  <2> SUFFICES ASSUME NEW k \in 1 .. Len(t) - 1, k # i - 1, k # i
               PROVE  t[k] + z[t[k]] # t[k + 1]
    BY <1>3 DEF Apart
  <2>0. Len(f) \in Nat /\ Len(t) = Len(f) + 1 /\ i \in 1 .. Len(f) + 1
    BY <1>1, <1>4, <1>6, LenProperties
  <2> HIDE DEF f
  <2>1. CASE k < i - 1
    <3>1. k \in 1 .. i - 1 /\ k + 1 \in 1 .. i - 1 /\ k \in 1 .. Len(f) - 1
      BY <2>0, <2>1, SMTT(30)
    <3> QED
      BY <3>1, <1>2, <1>6
  <2>2. CASE k > i
    <3>1. /\ k \in i + 1 .. Len(f) + 1 /\ k + 1 \in i + 1 .. Len(f) + 1
          /\ k - 1 \in 1 .. Len(f) - 1 /\ (k + 1) - 1 = (k - 1) + 1
      BY <2>0, <2>2, SMTT(30)
    <3>2. t[k] = f[k - 1]
      BY <3>1, <1>6
    <3>3. t[k + 1] = f[(k + 1) - 1]
      BY <3>1, <1>6
    <3>4. f[(k + 1) - 1] = f[(k - 1) + 1]
      BY <3>1
    <3>5. f[k - 1] + z[f[k - 1]] # f[(k - 1) + 1]
      BY <3>1, <1>2
    <3> QED
      BY <3>2, <3>3, <3>4, <3>5
  <2> QED
    BY <2>0, <2>1, <2>2, SMTT(30)
<1>12. i \in Nat
  <2>1. Len(f) \in Nat
    BY <1>1, LenProperties
  <2> HIDE DEF f
  <2> QED
    BY <2>1, <1>4, SMTT(30)
<1> QED
  BY <1>3, <1>10, <1>11, <1>12

(* free gives one block back and moves or resizes no other that is in use. *)
LEMMA FreeTiled ==
  ASSUME NEW h, NEW U, Tiled(h, U), Apart(h, {}), NEW b \in U
  PROVE  Keeps(free(h, b), h, U \ {b}, {})
<1> DEFINE i == Place(h, b)
           h1 == [h EXCEPT !.free = Linked(@, i, b)]
           h2 == MergeNext(h1, i)
           h3 == MergeNext(h2, i - 1)
           W == U \ {b}
<1>1. i \in Nat /\ h1.size = h.size /\ Tiled(h1, W) /\ Apart(h1, {i - 1, i})
  <2> HIDE DEF i
  <2>1. i = Place(h, b)
    BY DEF i
  <2> QED
    BY <2>1, ListTiled
<1>2. free(h, b) = h3
  BY DEF free
<1> HIDE DEF i, h1, W
<1>3. {i - 1, i} = {i - 1} \cup {i} /\ i \in Int /\ i - 1 \in Int /\ i - 1 < i
      /\ {} \cup {i - 1} = {i - 1}
  BY <1>1, SMTT(30)
<1>4. Keeps(h2, h1, W, {i - 1})
  <2>1. Apart(h1, {i - 1} \cup {i}) /\ Before({i - 1}, i)
    BY <1>1, <1>3 DEF Before
  <2> QED
    BY <2>1, <1>1, <1>3, MergeTiled
<1> HIDE DEF h2
<1>5. Keeps(h3, h2, W, {})
  <2>1. Apart(h2, {} \cup {i - 1}) /\ Before({}, i - 1) /\ Tiled(h2, W)
    BY <1>3, <1>4 DEF Before, Keeps
  <2> QED
    BY <2>1, <1>3, MergeTiled
<1>6. Keeps(h3, h, W, {})
  BY <1>1, <1>4, <1>5 DEF Keeps
<1> QED
  BY <1>2, <1>6 DEF W

(* malloc finds nothing and changes nothing, or gives a block that was     *)
(* free and is big enough.                                                 *)
LEMMA MallocTiled ==
  ASSUME NEW h, NEW U, Tiled(h, U), Apart(h, {}), NEW n \in Small
  PROVE  \/ malloc(h, n).ptr = NULL /\ malloc(h, n).h = h
         \/ Gives(malloc(h, n).ptr, malloc(h, n).h, h, U, Rounded(n) + SizeT) /\ n # 0
<1> DEFINE want == Rounded(n) + SizeT
           fits == {k \in DOMAIN h.free : h.size[h.free[k]] >= want}
           i == Min(fits)
           block == h.free[i]
           rest == h.size[block] - want
           r == malloc(h, n)
           found == {k \in DOMAIN h.free :
                       Split(h.size[h.free[k]], n) \/ h.size[h.free[k]] >= Want(n)}
<1>0. /\ Want(n) = want /\ found = fits
      /\ \A k \in DOMAIN h.free :
           /\ Split(h.size[h.free[k]], n) <=> h.size[h.free[k]] - want >= MIN_ALLOC_SIZE + SizeT
           /\ h.size[h.free[k]] >= want => Size(h.size[h.free[k]] - want) = h.size[h.free[k]] - want
  <2>1. 0 \in Nat /\ 0 <= HEAP_SIZE
    BY HeapSizes, SMTT(30)
  <2>2. Want(n) = want
    BY <2>1, SizesExact
  <2>3. ASSUME NEW k \in DOMAIN h.free
        PROVE  h.size[h.free[k]] \in Nat /\ h.size[h.free[k]] <= HEAP_SIZE
    <3>1. h.free[k] \in DOMAIN h.size
      BY LenProperties, ElementOfSeq DEF Tiled
    <3>2. /\ h.free[k] \in Nat /\ h.size[h.free[k]] \in Nat /\ HEAP_SIZE \in Nat
          /\ h.free[k] + h.size[h.free[k]] <= HEAP_SIZE
      BY <3>1, HeapSizes DEF Tiled
    <3> QED
      BY <3>2, SMTT(30)
  <2>4. ASSUME NEW k \in DOMAIN h.free
        PROVE  /\ Split(h.size[h.free[k]], n) <=> h.size[h.free[k]] - want >= MIN_ALLOC_SIZE + SizeT
               /\ h.size[h.free[k]] >= Want(n) => Size(h.size[h.free[k]] - Want(n)) = h.size[h.free[k]] - want
    BY <2>3, SizesExact
  <2>5. want \in Nat /\ MIN_ALLOC_SIZE + SizeT \in Nat
    BY RoundedBounds, HeapSizes, SMTT(30) DEF MIN_ALLOC_SIZE
  <2> HIDE DEF want
  <2>6. \A k \in DOMAIN h.free : Split(h.size[h.free[k]], n) => h.size[h.free[k]] >= want
    BY <2>3, <2>4, <2>5, SMTT(30)
  <2> QED
    BY <2>2, <2>4, <2>6
<1>1. CASE n = 0 \/ fits = {}
  <2>1. n = 0 \/ found = {}
    BY <1>1, <1>0
  <2> QED
    BY <2>1 DEF malloc
<1>2. CASE n # 0 /\ fits # {}
  <2>1. i \in 1 .. Len(h.free) /\ h.size[block] >= want /\ h.size[block] \in Nat
    <3>1. /\ Len(h.free) \in Nat /\ DOMAIN h.free = 1 .. Len(h.free)
          /\ \A k \in 1 .. Len(h.free) : h.size[h.free[k]] \in Nat
      BY LenProperties, ElementOfSeq DEF Tiled
    <3>2. \A k \in 1 .. Len(h.free) : k \in Nat
      BY <3>1, SMTT(30)
    <3>3. fits \subseteq Nat
      BY <3>1, <3>2
    <3>4. i \in fits
      <4> HIDE DEF fits
      <4> QED BY <3>3, <1>2, LeastNumber
    <3> QED
      BY <3>1, <3>4
  <2>2. /\ want \in Nat /\ want >= MIN_ALLOC_SIZE + SizeT
        /\ MIN_ALLOC_SIZE + SizeT \in Nat
    <3>1. Rounded(n) \in Nat /\ Rounded(n) >= MIN_ALLOC_SIZE /\ MIN_ALLOC_SIZE \in Nat
      BY RoundedBounds, HeapSizes, SMTT(30) DEF MIN_ALLOC_SIZE
    <3> HIDE DEF fits
    <3> QED
      BY <3>1, HeapSizes, SMTT(30)
  <2>3. rest \in Nat /\ h.size[block] = rest + want
    <3> HIDE DEF block, want
    <3> QED BY <2>1, <2>2, SMTT(30)
  <2> DEFINE j == Min(found)
             rem == Size(h.size[h.free[j]] - Want(n))
  <2>a. found # {} /\ j = i /\ h.free[j] = block /\ Want(n) = want /\ rem = rest
    <3>1. found = fits /\ Want(n) = want
      BY <1>0
    <3>2. j = i
      BY <3>1
    <3>3. i \in DOMAIN h.free
      BY <2>1, LenProperties DEF Tiled
    <3>4. Size(h.size[block] - want) = rest
      BY <3>3, <2>1, <1>0
    <3> QED
      BY <3>1, <3>2, <3>4, <1>2
  <2>b. Split(h.size[block], n) <=> rest >= MIN_ALLOC_SIZE + SizeT
    BY <1>0, <2>1, LenProperties DEF Tiled
  <2>4. CASE Split(h.size[block], n)
    <3>0. /\ r.ptr = h.free[j] + rem
          /\ r.h = [h EXCEPT !.size = With([@ EXCEPT ![h.free[j]] = rem], h.free[j] + rem, Want(n))]
      BY <1>2, <2>4, <2>a DEF malloc
    <3>1. /\ r.ptr = block + rest
          /\ r.h = [h EXCEPT !.size = With([@ EXCEPT ![block] = rest], block + rest, want)]
      <4> HIDE DEF j, rem, block, rest, want, r
      <4> QED BY <3>0, <2>a
    <3>2. rest >= MIN_ALLOC_SIZE + SizeT
      BY <2>4, <2>b
    <3>3. Gives(h.free[i] + rest, r.h, h, U, want)
      <4>1. r.h = [h EXCEPT !.size = With([@ EXCEPT ![h.free[i]] = rest], h.free[i] + rest, want)]
        BY <3>1
      <4>2. h.size[h.free[i]] = rest + want
        BY <2>3
      <4> HIDE DEF r, i, rest, want
      <4> QED
        BY <2>1, <2>2, <2>3, <3>2, <4>1, <4>2, SplitTiled
    <3> QED
      BY <1>2, <3>1, <3>3
  <2>5. CASE ~ Split(h.size[block], n)
    <3>0. r.ptr = h.free[j] /\ r.h = [h EXCEPT !.free = Unlinked(@, j)]
      BY <1>2, <2>5, <2>a DEF malloc
    <3>1. r.ptr = block /\ r.h = [h EXCEPT !.free = Unlinked(@, i)]
      <4> HIDE DEF j, i, block, r
      <4> QED BY <3>0, <2>a
    <3>2. Gives(h.free[i], r.h, h, U, want)
      <4> HIDE DEF i, r, want
      <4> QED BY <2>1, <3>1, TakeTiled
    <3> QED
      BY <1>2, <3>1, <3>2
  <2> QED
    BY <2>4, <2>5
<1> QED
  BY <1>1, <1>2

(* realloc frees the block, or leaves all as it was, or gives another      *)
(* block in its place.                                                     *)
LEMMA ReallocTiled ==
  ASSUME NEW h, NEW U, Tiled(h, U), Apart(h, {}), NEW b \in U, NEW n \in Small
  PROVE  \/ /\ n = 0 /\ realloc(h, b, n).ptr = NULL
            /\ Keeps(realloc(h, b, n).h, h, U \ {b}, {})
         \/ /\ n # 0 /\ realloc(h, b, n).ptr = NULL
            /\ realloc(h, b, n).h = h
         \/ /\ n # 0
            /\ Gives(realloc(h, b, n).ptr, realloc(h, b, n).h, h, U \ {b},
                     Rounded(n) + SizeT)
<1>1. CASE n = 0
  BY <1>1, FreeTiled DEF realloc
<1>2. CASE n # 0 /\ malloc(h, n).ptr = NULL
  <2>1. malloc(h, n).h = h
    <3>1. NULL \notin Nat
      BY SMTT(30) DEF NULL
    <3> QED
      BY <1>2, <3>1, MallocTiled DEF Gives
  <2> QED
    BY <1>2, <2>1 DEF realloc
<1>3. CASE n # 0 /\ malloc(h, n).ptr # NULL
  <2> DEFINE p == malloc(h, n).ptr
             g == malloc(h, n).h
             V == U \cup {p}
             W == U \ {b}
  <2>1. Gives(p, g, h, U, Rounded(n) + SizeT)
    BY <1>3, MallocTiled
  <2>2. realloc(h, b, n) = [malloc(h, n) EXCEPT !.h = free(@, b)]
    BY <1>3 DEF realloc
  <2>3. malloc(h, n) = [ptr |-> p, h |-> g]
    BY DEF malloc
  <2>4. realloc(h, b, n).ptr = p /\ realloc(h, b, n).h = free(g, b)
    BY <2>2, <2>3
  <2> HIDE DEF p, g
  <2>5. /\ p \in Nat /\ p \notin U /\ Tiled(g, V) /\ Apart(g, {})
        /\ g.size[p] >= Rounded(n) + SizeT
        /\ \A u \in U : g.size[u] = h.size[u]
    BY <2>1 DEF Gives
  <2>6. Keeps(free(g, b), g, V \ {b}, {})
    <3> HIDE DEF V
    <3>1. b \in V
      BY DEF V
    <3> QED
      BY <2>5, <3>1, FreeTiled
  <2>7. V \ {b} = W \cup {p} /\ p \notin W
    BY <2>5
  <2>8. Gives(p, free(g, b), h, W, Rounded(n) + SizeT)
    BY <2>5, <2>6, <2>7 DEF Gives, Keeps
  <2> QED
    BY <1>3, <2>4, <2>8
<1> QED
  BY <1>1, <1>2, <1>3

-----------------------------------------------------------------------------
(* A record of readline is not the empty one, and no block is NULL. *)
LEMMA LineIsSet ==
  /\ \A l \in Lines : l # <<>>
  /\ NULL \notin Nat
<1>1. \A l \in Lines : l # <<>>
  <2> SUFFICES ASSUME NEW l \in Lines, l = <<>> PROVE FALSE
    OBVIOUS
  <2>1. "buf" \in DOMAIN l
    BY DEF Lines
  <2>2. DOMAIN l = {}
    BY SMTT(30)
  <2> QED
    BY <2>1, <2>2
<1>2. NULL \notin Nat
  BY SMTT(30) DEF NULL
<1> QED
  BY <1>1, <1>2

(* The held blocks with what each was asked for, in a heap. *)
HeldFit(h, f) ==
  /\ f \in [DOMAIN f -> Nat]
  /\ \A a \in DOMAIN f : h.size[a] >= f[a] + SizeT

(* What the invariant says when no line is being read. *)
LEMMA WaitingInv ==
  ASSUME line' = <<>>, Tiled(heap', DOMAIN held'), Apart(heap', {}),
         HeldFit(heap', held')
  PROVE  HeapInv'
<1>1. ~ Reading'
  BY DEF Reading, Waiting
<1>2. Used' = DOMAIN held'
  BY <1>1 DEF Used
<1> QED
  BY <1>1, <1>2 DEF HeapInv, HeldFit

(* What it says when one is. *)
LEMMA ReadingInv ==
  ASSUME NEW p \in Nat, p \notin DOMAIN held', NEW n \in Small \ {0}, NEW k \in Nat,
         line' = [buf |-> p, bufsize |-> n, count |-> k], k + 1 <= n,
         Tiled(heap', DOMAIN held' \cup {p}), Apart(heap', {}),
         HeldFit(heap', held'), heap'.size[p] >= Rounded(n) + SizeT
  PROVE  HeapInv'
<1>1. line' \in Lines
  BY DEF Lines
<1>2. Reading' /\ line'.buf = p /\ line'.bufsize = n /\ line'.count = k
  BY <1>1, LineIsSet DEF Reading, Waiting
<1>3. Used' = DOMAIN held' \cup {p}
  BY <1>2 DEF Used
<1> QED
  BY <1>1, <1>2, <1>3 DEF HeapInv, HeldFit

(* A block given to the program is one that it holds. *)
LEMMA HoldsDomain ==
  ASSUME NEW f, NEW p \in Nat, NEW n
  PROVE  DOMAIN Holds(f, p, n) = DOMAIN f \cup {p}
BY LineIsSet DEF Holds, With

(* It is big enough for what was asked for. *)
LEMMA HoldsFit ==
  ASSUME NEW f, NEW g, NEW p \in Nat, NEW n \in Small, HeldFit(g, f),
         g.size[p] >= Rounded(n) + SizeT
  PROVE  HeldFit(g, Holds(f, p, n))
<1> DEFINE w == Holds(f, p, n)
<1>1. w = [x \in DOMAIN f \cup {p} |-> IF x = p THEN Rounded(n) ELSE f[x]]
  BY LineIsSet DEF Holds, With
<1>2. Rounded(n) \in Nat
  BY RoundedBounds
<1> HIDE DEF w
<1>3. \A x \in DOMAIN f \cup {p} : w[x] \in Nat /\ g.size[x] >= w[x] + SizeT
  BY <1>1, <1>2 DEF HeldFit
<1> QED
  BY <1>1, <1>3 DEF HeldFit, w

(* The blocks that stay held fit when one is given back. *)
LEMMA WithoutFit ==
  ASSUME NEW f, NEW g, NEW h, NEW b, HeldFit(h, f),
         \A u \in DOMAIN f \ {b} : g.size[u] = h.size[u]
  PROVE  DOMAIN Without(f, b) = DOMAIN f \ {b} /\ HeldFit(g, Without(f, b))
<1> DEFINE w == Without(f, b)
<1>1. w = [x \in DOMAIN f \ {b} |-> f[x]]
  BY DEF Without, Restrict
<1> HIDE DEF w
<1>2. \A x \in DOMAIN f \ {b} : w[x] \in Nat /\ g.size[x] >= w[x] + SizeT
  BY <1>1 DEF HeldFit
<1> QED
  BY <1>1, <1>2 DEF HeldFit, w

(* The heap starts as one free block. *)
LEMMA HeapInitInv == HeapInit => HeapInv
<1> SUFFICES ASSUME HeapInit PROVE HeapInv
  OBVIOUS
<1> DEFINE z == [a \in {0} |-> HEAP_SIZE]
<1>1. heap = [size |-> z, free |-> <<0>>] /\ held = <<>> /\ line = <<>>
  BY DEF HeapInit, heap_init
<1>2. DOMAIN held = {} /\ held \in [DOMAIN held -> Nat]
  BY <1>1, SMTT(30)
<1>3. ~ Reading /\ Used = {}
  BY <1>1, <1>2 DEF Used, Reading, Waiting
<1>4. heap.size = z /\ heap.free = <<0>> /\ heap = [size |-> heap.size, free |-> heap.free]
  BY <1>1
<1>5. Len(<<0>>) = 1 /\ <<0>> \in Seq({0}) /\ <<0>>[1] = 0
  BY SMTT(30)
<1>6. \A k \in 1 .. 1 : k = 1
  BY SMTT(30)
<1>7. 1 .. 1 - 1 = {} /\ ~(0 < 0) /\ ~(1 < 1) /\ 1 \in 1 .. 1 /\ 0 \in Nat
  BY SMTT(30)
<1>8. /\ HEAP_SIZE \in Nat /\ HEAP_SIZE >= MIN_ALLOC_SIZE + SizeT
      /\ 0 + HEAP_SIZE = HEAP_SIZE /\ HEAP_SIZE <= HEAP_SIZE
  BY HeapSizes, SMTT(30)
<1>9. DOMAIN z = {0} /\ z[0] = HEAP_SIZE /\ z \in [{0} -> Nat]
  BY <1>8
<1> HIDE DEF z
<1>10. Tiled(heap, {})
  <2>1. /\ DOMAIN z \subseteq Nat /\ 0 \in DOMAIN z
        /\ z \in [DOMAIN z -> Nat]
        /\ \A a \in DOMAIN z :
             /\ z[a] >= MIN_ALLOC_SIZE + SizeT
             /\ a + z[a] \in DOMAIN z \cup {HEAP_SIZE}
             /\ a + z[a] <= HEAP_SIZE
        /\ \A b \in DOMAIN z \cup {HEAP_SIZE} : b # 0 => \E a \in DOMAIN z : a + z[a] = b
        /\ \A a, b \in DOMAIN z : a < b => a + z[a] <= b
    BY <1>7, <1>8, <1>9
  <2>2. /\ <<0>> \in Seq(DOMAIN z)
        /\ \A i, j \in 1 .. Len(<<0>>) : i < j => <<0>>[i] < <<0>>[j]
        /\ \A a \in DOMAIN z : \E i \in 1 .. Len(<<0>>) : <<0>>[i] = a
    BY <1>5, <1>6, <1>7, <1>9
  <2> DEFINE f == <<0>>
  <2> HIDE DEF f
  <2>3. /\ f \in Seq(DOMAIN z)
        /\ \A i, j \in 1 .. Len(f) : i < j => f[i] < f[j]
        /\ \A a \in DOMAIN z : \E i \in 1 .. Len(f) : f[i] = a
        /\ heap.free = f
    BY <2>2, <1>4 DEF f
  <2> QED
    BY <2>1, <2>3, <1>4 DEF Tiled
<1>11. Apart(heap, {})
  BY <1>4, <1>5, <1>7 DEF Apart
<1> QED
  BY <1>1, <1>2, <1>3, <1>10, <1>11 DEF HeapInv

(* What the invariant gives when no line is being read. *)
LEMMA IfWaiting ==
  ASSUME HeapInv, Waiting
  PROVE  Tiled(heap, DOMAIN held) /\ Apart(heap, {}) /\ HeldFit(heap, held)
<1>1. Used = DOMAIN held
  BY DEF Used, Reading
<1> QED
  BY <1>1 DEF HeapInv, HeldFit

(* What it gives when one is. *)
LEMMA IfReading ==
  ASSUME HeapInv, Reading
  PROVE  /\ Tiled(heap, DOMAIN held \cup {line.buf}) /\ Apart(heap, {})
         /\ HeldFit(heap, held)
         /\ line \in Lines /\ line.buf \in Nat /\ line.buf \notin DOMAIN held
         /\ line.bufsize \in Small \ {0} /\ line.count \in Nat
         /\ line.count + 1 <= line.bufsize
         /\ heap.size[line.buf] >= Rounded(line.bufsize) + SizeT
         /\ line = [buf |-> line.buf, bufsize |-> line.bufsize, count |-> line.count]
<1>1. Used = DOMAIN held \cup {line.buf}
  BY DEF Used
<1>2. line \in Lines
  BY DEF HeapInv, Reading, Waiting
<1>3. /\ line.buf \in Nat \cup {NULL} /\ line.bufsize \in Small \ {0} /\ line.count \in Nat
      /\ line = [buf |-> line.buf, bufsize |-> line.bufsize, count |-> line.count]
  BY <1>2 DEF Lines
<1> QED
  BY <1>1, <1>2, <1>3 DEF HeapInv, HeldFit, Reading

(* malloc keeps the invariant. *)
LEMMA MallocInv ==
  ASSUME HeapInv, NEW n \in Small, Malloc(n)
  PROVE  HeapInv'
<1> DEFINE p == malloc(heap, n).ptr
           U == DOMAIN held
<1>1. Tiled(heap, U) /\ Apart(heap, {}) /\ HeldFit(heap, held)
  BY IfWaiting DEF Malloc
<1>2. /\ line' = <<>> /\ heap' = malloc(heap, n).h
      /\ held' = Holds(held, p, n)
  BY DEF Malloc, Waiting
<1>3. CASE p = NULL /\ heap' = heap
  <2>1. held' = held
    BY <1>2, <1>3 DEF Holds
  <2> QED
    BY <1>1, <1>2, <1>3, <2>1, WaitingInv
<1>4. CASE Gives(p, heap', heap, U, Rounded(n) + SizeT)
  <2> HIDE DEF p
  <2>1. /\ p \in Nat /\ Tiled(heap', U \cup {p}) /\ Apart(heap', {})
        /\ heap'.size[p] >= Rounded(n) + SizeT
        /\ \A u \in U : heap'.size[u] = heap.size[u]
    BY <1>4 DEF Gives
  <2>2. DOMAIN held' = U \cup {p} /\ HeldFit(heap', held')
    <3>1. HeldFit(heap', held)
      BY <1>1, <2>1 DEF HeldFit
    <3> QED
      BY <1>2, <2>1, <3>1, HoldsDomain, HoldsFit
  <2> QED
    BY <1>2, <2>1, <2>2, WaitingInv
<1>5. \/ p = NULL /\ heap' = heap
      \/ Gives(p, heap', heap, U, Rounded(n) + SizeT)
  BY <1>1, <1>2, MallocTiled
<1> QED
  BY <1>3, <1>4, <1>5

(* free keeps the invariant. *)
LEMMA FreeInv ==
  ASSUME HeapInv, NEW b \in DOMAIN held, Free(b)
  PROVE  HeapInv'
<1> DEFINE U == DOMAIN held
<1>1. Tiled(heap, U) /\ Apart(heap, {}) /\ HeldFit(heap, held)
  BY IfWaiting DEF Free
<1>2. line' = <<>> /\ heap' = free(heap, b) /\ held' = Without(held, b)
  BY DEF Free, Waiting
<1>3. Keeps(heap', heap, U \ {b}, {})
  <2> HIDE DEF U
  <2>1. b \in U
    BY DEF U
  <2> QED
    BY <1>1, <1>2, <2>1, FreeTiled
<1>4. /\ Tiled(heap', U \ {b}) /\ Apart(heap', {})
      /\ \A u \in U \ {b} : heap'.size[u] = heap.size[u]
  BY <1>3 DEF Keeps
<1>5. DOMAIN held' = U \ {b} /\ HeldFit(heap', held')
  BY <1>1, <1>2, <1>4, WithoutFit
<1> QED
  BY <1>2, <1>4, <1>5, WaitingInv

(* realloc keeps the invariant. *)
LEMMA ReallocInv ==
  ASSUME HeapInv, NEW b \in DOMAIN held, NEW n \in Small, Realloc(b, n)
  PROVE  HeapInv'
<1> DEFINE U == DOMAIN held
           new == realloc(heap, b, n)
           w == Without(held, b)
<1>1. Tiled(heap, U) /\ Apart(heap, {}) /\ HeldFit(heap, held)
  BY IfWaiting DEF Realloc
<1>2. /\ line' = <<>> /\ heap' = new.h
      /\ held' = IF n = 0 THEN w
                 ELSE IF new.ptr = NULL THEN held ELSE Holds(w, new.ptr, n)
  BY DEF Realloc, Waiting
<1>3. \/ n = 0 /\ new.ptr = NULL /\ Keeps(heap', heap, U \ {b}, {})
      \/ n # 0 /\ new.ptr = NULL /\ heap' = heap
      \/ n # 0 /\ Gives(new.ptr, heap', heap, U \ {b}, Rounded(n) + SizeT)
  BY <1>1, <1>2, ReallocTiled
<1> HIDE DEF new
<1>4. CASE n = 0 /\ new.ptr = NULL /\ Keeps(heap', heap, U \ {b}, {})
  <2>1. /\ Tiled(heap', U \ {b}) /\ Apart(heap', {})
        /\ \A u \in U \ {b} : heap'.size[u] = heap.size[u]
    BY <1>4 DEF Keeps
  <2>2. held' = w /\ DOMAIN w = U \ {b} /\ HeldFit(heap', w)
    BY <1>1, <1>2, <1>4, <2>1, WithoutFit
  <2> QED
    BY <1>2, <2>1, <2>2, WaitingInv
<1>5. CASE n # 0 /\ new.ptr = NULL /\ heap' = heap
  BY <1>1, <1>2, <1>5, WaitingInv
<1>6. CASE n # 0 /\ Gives(new.ptr, heap', heap, U \ {b}, Rounded(n) + SizeT)
  <2> DEFINE p == new.ptr
  <2>1. /\ p \in Nat /\ Tiled(heap', (U \ {b}) \cup {p}) /\ Apart(heap', {})
        /\ heap'.size[p] >= Rounded(n) + SizeT
        /\ \A u \in U \ {b} : heap'.size[u] = heap.size[u]
    BY <1>6 DEF Gives
  <2>2. held' = Holds(w, p, n)
    BY <1>2, <1>6, <2>1, LineIsSet
  <2>3. DOMAIN w = U \ {b} /\ HeldFit(heap', w)
    BY <1>1, <2>1, WithoutFit
  <2> HIDE DEF p, w
  <2>4. DOMAIN held' = (U \ {b}) \cup {p} /\ HeldFit(heap', held')
    BY <2>1, <2>2, <2>3, HoldsDomain, HoldsFit
  <2> QED
    BY <1>2, <2>1, <2>4, WaitingInv
<1> QED
  BY <1>3, <1>4, <1>5, <1>6

(* readline's first buffer keeps the invariant, and so does having none. *)
LEMMA ReadLineInv ==
  ASSUME HeapInv, ReadLine
  PROVE  HeapInv'
<1> DEFINE new == malloc(heap, BUFSIZE)
           p == new.ptr
           U == DOMAIN held
<1>1. Tiled(heap, U) /\ Apart(heap, {}) /\ HeldFit(heap, held)
  BY IfWaiting DEF ReadLine
<1>2. /\ line' = [buf |-> p, bufsize |-> BUFSIZE, count |-> 0]
      /\ heap' = new.h /\ held' = held
  BY DEF ReadLine
<1>3. BUFSIZE \in Small /\ BUFSIZE \in Small \ {0} /\ 0 \in Nat /\ 0 + 1 <= BUFSIZE
  BY HeapSizes, SMTT(30)
<1>4. \/ p = NULL /\ heap' = heap
      \/ Gives(p, heap', heap, U, Rounded(BUFSIZE) + SizeT)
  BY <1>1, <1>2, <1>3, MallocTiled
<1> HIDE DEF p
<1>5. CASE p = NULL /\ heap' = heap
  <2>1. line' \in Lines /\ ~ Reading'
    BY <1>2, <1>3, <1>5 DEF Lines, Reading
  <2>2. Used' = U
    BY <2>1, <1>2 DEF Used
  <2> QED
    BY <2>1, <2>2, <1>1, <1>2, <1>5 DEF HeapInv, HeldFit
<1>6. CASE Gives(p, heap', heap, U, Rounded(BUFSIZE) + SizeT)
  <2>1. /\ p \in Nat /\ p \notin U /\ Tiled(heap', U \cup {p}) /\ Apart(heap', {})
        /\ heap'.size[p] >= Rounded(BUFSIZE) + SizeT
        /\ \A u \in U : heap'.size[u] = heap.size[u]
    BY <1>6 DEF Gives
  <2>2. HeldFit(heap', held')
    BY <1>1, <1>2, <2>1 DEF HeldFit
  <2> QED
    BY <1>2, <1>3, <2>1, <2>2, ReadingInv
<1> QED
  BY <1>4, <1>5, <1>6

(* The end of a line keeps the invariant: what was its buffer, or the      *)
(* block it was cut to, is the program's.                                  *)
LEMMA StopInv ==
  ASSUME HeapInv, Reading, Stop(heap)
  PROVE  HeapInv'
<1> DEFINE U == DOMAIN held
           b == line.buf
           n == line.count + 1
           new == realloc(heap, b, n)
<1>1. /\ Tiled(heap, U \cup {b}) /\ Apart(heap, {}) /\ HeldFit(heap, held)
      /\ b \in Nat /\ b \notin U /\ line.bufsize \in Small /\ line.count \in Nat
      /\ n <= line.bufsize
      /\ heap.size[b] >= Rounded(line.bufsize) + SizeT
      /\ heap.size[b] \in Nat
  BY IfReading DEF Tiled
<1>2. /\ line' = <<>> /\ heap' = new.h
      /\ held' = Holds(held, IF new.ptr = NULL THEN b ELSE new.ptr, n)
  BY DEF Stop
<1>3. n \in Small /\ n # 0
  <2>1. n \in Nat /\ n # 0
    BY <1>1, SMTT(30)
  <2> QED
    BY <1>1, <2>1, SmallNumbers
<1>4. Rounded(n) \in Nat /\ Rounded(line.bufsize) \in Nat /\ Rounded(n) <= Rounded(line.bufsize)
  BY <1>1, <1>3, RoundedBounds
<1>5. heap.size[b] >= Rounded(n) + SizeT
  BY <1>1, <1>4, HeapSizes, SMTT(30)
<1> HIDE DEF n, b
<1>6. (U \cup {b}) \ {b} = U
  BY <1>1
<1>7. \/ new.ptr = NULL /\ heap' = heap
      \/ Gives(new.ptr, heap', heap, U, Rounded(n) + SizeT)
  <2> DEFINE V == U \cup {b}
  <2>1. b \in V /\ V \ {b} = U
    BY <1>6
  <2> HIDE DEF V, U
  <2>2. Tiled(heap, V)
    BY <1>1 DEF V
  <2> QED
    BY <1>1, <1>2, <1>3, <2>1, <2>2, ReallocTiled
<1> HIDE DEF new
<1>8. CASE new.ptr = NULL /\ heap' = heap
  <2>1. held' = Holds(held, b, n)
    BY <1>2, <1>8
  <2>2. DOMAIN held' = U \cup {b} /\ HeldFit(heap', held')
    BY <1>1, <1>3, <1>5, <1>8, <2>1, HoldsDomain, HoldsFit
  <2> QED
    BY <1>1, <1>2, <1>8, <2>2, WaitingInv
<1>9. CASE Gives(new.ptr, heap', heap, U, Rounded(n) + SizeT)
  <2> DEFINE p == new.ptr
  <2>1. /\ p \in Nat /\ Tiled(heap', U \cup {p}) /\ Apart(heap', {})
        /\ heap'.size[p] >= Rounded(n) + SizeT
        /\ \A u \in U : heap'.size[u] = heap.size[u]
    BY <1>9 DEF Gives
  <2>2. held' = Holds(held, p, n)
    BY <1>2, <2>1, LineIsSet
  <2> HIDE DEF p
  <2>3. DOMAIN held' = U \cup {p} /\ HeldFit(heap', held')
    <3>1. HeldFit(heap', held)
      BY <1>1, <2>1 DEF HeldFit
    <3> QED
      BY <1>3, <2>1, <2>2, <3>1, HoldsDomain, HoldsFit
  <2> QED
    BY <1>2, <2>1, <2>3, WaitingInv
<1> QED
  BY <1>7, <1>8, <1>9

(* A byte deleted keeps the invariant. *)
LEMMA DeleteInv ==
  ASSUME HeapInv, TypeDelete
  PROVE  HeapInv'
<1> DEFINE k == IF line.count > 0 THEN line.count - 1 ELSE 0
<1>1. /\ Tiled(heap, DOMAIN held \cup {line.buf}) /\ Apart(heap, {})
      /\ HeldFit(heap, held)
      /\ line.buf \in Nat /\ line.buf \notin DOMAIN held
      /\ line.bufsize \in Small \ {0} /\ line.count \in Nat
      /\ line.count + 1 <= line.bufsize
      /\ heap.size[line.buf] >= Rounded(line.bufsize) + SizeT
      /\ line = [buf |-> line.buf, bufsize |-> line.bufsize, count |-> line.count]
  BY IfReading DEF TypeDelete
<1>2. /\ line' = [buf |-> line.buf, bufsize |-> line.bufsize, count |-> k]
      /\ heap' = heap /\ held' = held
  <2>1. line' = [line EXCEPT !.count = k] /\ heap' = heap /\ held' = held
    BY DEF TypeDelete
  <2> HIDE DEF k
  <2> QED
    BY <1>1, <2>1
<1>3. k \in Nat /\ k + 1 <= line.bufsize
  <2>1. line.bufsize \in Nat
    BY <1>1, SmallNumbers
  <2> QED
    BY <1>1, <2>1, SMTT(30)
<1> HIDE DEF k
<1> QED
  BY <1>1, <1>2, <1>3, ReadingInv

(* A byte typed keeps the invariant, also when the buffer is full. *)
LEMMA CharInv ==
  ASSUME HeapInv, TypeChar
  PROVE  HeapInv'
<1> DEFINE U == DOMAIN held
           b == line.buf
           size == line.bufsize
           k == line.count + 1
           twice == Size(2 * size)
           new == realloc(heap, b, twice)
<1>0. Reading
  BY DEF TypeChar
<1>1. /\ Tiled(heap, U \cup {b}) /\ Apart(heap, {})
      /\ HeldFit(heap, held)
      /\ b \in Nat /\ b \notin U
      /\ size \in Small \ {0} /\ line.count \in Nat
      /\ line.count + 1 <= size
      /\ heap.size[b] >= Rounded(size) + SizeT
      /\ line = [buf |-> b, bufsize |-> size, count |-> line.count]
  BY <1>0, IfReading
<1>2. \/ /\ ~ Full(line) /\ line' = [line EXCEPT !.count = k]
         /\ heap' = heap /\ held' = held
      \/ /\ new.ptr # NULL /\ heap' = new.h /\ held' = held
         /\ line' = [buf |-> new.ptr, bufsize |-> twice, count |-> k]
      \/ Stop(heap)
  BY DEF TypeChar
<1>3. k \in Nat /\ twice \in Small \ {0} /\ k + 1 <= twice
  <2>1. Rounded(size) \in Nat /\ Rounded(size) >= size /\ size \in Nat
    BY <1>1, RoundedBounds, SmallNumbers
  <2>2. /\ b \in Nat /\ heap.size[b] \in Nat
        /\ b + heap.size[b] <= HEAP_SIZE /\ HEAP_SIZE \in Nat /\ SizeT \in Nat
    BY <1>1, HeapSizes DEF Tiled
  <2>3. heap.size[b] >= Rounded(size) + SizeT
    BY <1>1
  <2> HIDE DEF size, b
  <2>4. 2 * size \in Nat /\ 2 * size <= 2 * HEAP_SIZE
    BY <2>1, <2>2, <2>3, SMTT(30)
  <2>5. /\ 2 * size \in Small /\ 2 * size + MIN_ALLOC_SIZE + SizeT + 4 <= INT_MAX
        /\ MIN_ALLOC_SIZE \in Nat
    BY <2>4, HeapSizes, SmallNumbers
  <2>6. twice = 2 * size
    BY <2>2, <2>4, <2>5, Widths, HeapSizes, SMTT(30) DEF Size
  <2>7. size # 0 /\ line.count \in Nat /\ line.count + 1 <= size
    BY <1>1 DEF size
  <2>8. k \in Nat /\ 2 * size # 0 /\ k + 1 <= 2 * size
    BY <2>1, <2>7, SMTT(30)
  <2> HIDE DEF twice
  <2> QED
    BY <2>5, <2>6, <2>8
<1>4. CASE /\ ~ Full(line) /\ line' = [line EXCEPT !.count = k]
           /\ heap' = heap /\ held' = held
  <2>1. line' = [buf |-> b, bufsize |-> size, count |-> k]
    <3>1. line = [buf |-> b, bufsize |-> size, count |-> line.count]
      BY <1>1
    <3> HIDE DEF b, size, k
    <3> QED BY <1>4, <3>1, SMTT(30)
  <2>2. k + 1 <= size
    <3>1. ~(line.count >= size - 1)
      BY <1>4 DEF Full
    <3>2. size \in Nat
      BY <1>1, SmallNumbers
    <3> QED
      BY <3>1, <3>2, <1>1, SMTT(30)
  <2> HIDE DEF b, size, k
  <2> QED
    BY <1>1, <1>3, <1>4, <2>1, <2>2, ReadingInv
<1>5. CASE /\ new.ptr # NULL /\ heap' = new.h /\ held' = held
           /\ line' = [buf |-> new.ptr, bufsize |-> twice, count |-> k]
  <2> DEFINE V == U \cup {b}
             p == new.ptr
             n == twice
  <2>1. b \in V /\ V \ {b} = U /\ Tiled(heap, V)
    BY <1>1
  <2> HIDE DEF b, k, n
  <2>2. n \in Small /\ n # 0 /\ n \in Small \ {0} /\ k + 1 <= n
    BY <1>3 DEF n
  <2>3. new = realloc(heap, b, n)
    BY DEF n
  <2> HIDE DEF V, U, new
  <2>4. Gives(new.ptr, heap', heap, U, Rounded(n) + SizeT)
    BY <1>1, <1>5, <2>1, <2>2, <2>3, ReallocTiled
  <2>5. /\ p \in Nat /\ p \notin U /\ Tiled(heap', U \cup {p}) /\ Apart(heap', {})
        /\ heap'.size[p] >= Rounded(n) + SizeT
        /\ \A u \in U : heap'.size[u] = heap.size[u]
    BY <2>4 DEF Gives
  <2>6. HeldFit(heap', held') /\ DOMAIN held' = U
    BY <1>1, <1>5, <2>5 DEF HeldFit, U
  <2>7. line' = [buf |-> p, bufsize |-> n, count |-> k]
    BY <1>5 DEF n
  <2> HIDE DEF p
  <2> QED
    BY <1>3, <2>2, <2>5, <2>6, <2>7, ReadingInv
<1>6. CASE Stop(heap)
  BY <1>0, <1>6, StopInv
<1> QED
  BY <1>2, <1>4, <1>5, <1>6

(* Every step keeps the invariant. *)
LEMMA HeapNextInv ==
  ASSUME HeapInv, [HeapNext]_heapvars
  PROVE  HeapInv'
<1>1. CASE UNCHANGED heapvars
  BY <1>1 DEF heapvars, HeapInv, Used, Reading, Waiting
<1>2. CASE \E n \in RequestSizes : Malloc(n)
  BY <1>2, HeapSizes, MallocInv
<1>3. CASE \E b \in DOMAIN held : Free(b)
  BY <1>3, FreeInv
<1>4. CASE \E b \in DOMAIN held : \E n \in RequestSizes \cup {0} : Realloc(b, n)
  <2>1. RequestSizes \cup {0} \subseteq Small
    <3>1. 0 \in Nat /\ 0 <= BUFSIZE
      BY HeapSizes, SMTT(30)
    <3> QED
      BY <3>1, HeapSizes, SmallNumbers
  <2> QED
    BY <1>4, <2>1, ReallocInv
<1>5. CASE TypeNewline
  BY <1>5, StopInv DEF TypeNewline
<1>6. CASE Fault
  BY <1>1, <1>6 DEF Fault
<1> QED
  BY <1>1, <1>2, <1>3, <1>4, <1>5, <1>6, ReadLineInv, DeleteInv, CharInv DEF HeapNext

(* The invariant says what HeapTiled does. *)
LEMMA HeapInvTiled == HeapInv => HeapTiled
<1> SUFFICES ASSUME HeapInv PROVE HeapTiled
  OBVIOUS
<1> DEFINE blocks == DOMAIN heap.size
           z == heap.size
           f == heap.free
           listed == Range(heap.free)
           reading == IF Reading THEN {line.buf} ELSE {}
           end == [a \in blocks |-> a + heap.size[a]]
<1>1. /\ Tiled(heap, Used) /\ Apart(heap, {}) /\ Used = DOMAIN held \cup reading
      /\ \A a \in DOMAIN held : z[a] >= held[a] + SizeT
  BY DEF HeapInv, Used
<1>2. /\ blocks \subseteq Nat /\ 0 \in blocks /\ z \in [blocks -> Nat] /\ f \in Seq(blocks)
      /\ Used \subseteq blocks
      /\ \A a \in blocks : z[a] >= MIN_ALLOC_SIZE + SizeT /\ a + z[a] \in blocks \cup {HEAP_SIZE}
      /\ \A b \in blocks \cup {HEAP_SIZE} : b # 0 => \E a \in blocks : a + z[a] = b
      /\ \A a, b \in blocks : a < b => a + z[a] <= b
  BY <1>1 DEF Tiled
<1>3. /\ \A i, j \in 1 .. Len(f) : i < j => f[i] < f[j]
      /\ \A i \in 1 .. Len(f) : f[i] \notin Used
      /\ \A a \in blocks : a \notin Used => \E i \in 1 .. Len(f) : f[i] = a
      /\ \A i \in 1 .. Len(f) - 1 : f[i] + z[f[i]] # f[i + 1]
  BY <1>1 DEF Tiled, Apart
<1>4. /\ DOMAIN f = 1 .. Len(f) /\ Len(f) \in Nat /\ \A i \in 1 .. Len(f) : f[i] \in blocks
      /\ listed = {f[i] : i \in 1 .. Len(f)}
  BY <1>2, LenProperties, ElementOfSeq DEF Range
<1> HIDE DEF listed, reading, f, z
<1>5. \A a \in blocks : end[a] = a + z[a]
  BY DEF z
<1>6. \A a \in blocks : a + z[a] # 0
  BY <1>2, Minimum, SMTT(30)
<1> HIDE DEF end, blocks
<1>7. {end[a] : a \in blocks} = (blocks \ {0}) \cup {HEAP_SIZE}
  <2>1. HEAP_SIZE # 0
    BY HeapSizes, Minimum, SMTT(30)
  <2>2. \A a \in blocks : end[a] \in (blocks \ {0}) \cup {HEAP_SIZE}
    BY <1>2, <1>5, <1>6
  <2>3. \A b \in (blocks \ {0}) \cup {HEAP_SIZE} : \E a \in blocks : end[a] = b
    BY <2>1, <1>2, <1>5
  <2> QED
    BY <2>2, <2>3
<1>8. /\ blocks = listed \cup DOMAIN held \cup reading
      /\ listed \cap DOMAIN held = {} /\ (listed \cup DOMAIN held) \cap reading = {}
  <2>1. listed \subseteq blocks /\ listed \cap Used = {}
    BY <1>3, <1>4
  <2>2. \A a \in blocks : a \in Used \/ a \in listed
    BY <1>3, <1>4
  <2>3. DOMAIN held \cap reading = {}
    BY DEF HeapInv, reading
  <2> QED
    BY <2>1, <2>2, <2>3, <1>1, <1>2
<1>9. ASSUME NEW i \in 1 .. Len(f) - 1
      PROVE  end[f[i]] < f[i + 1]
  <2>1. i \in 1 .. Len(f) /\ i + 1 \in 1 .. Len(f) /\ i < i + 1
    BY <1>4, SMTT(30)
  <2>2. /\ f[i] \in blocks /\ f[i + 1] \in blocks /\ f[i] < f[i + 1]
        /\ f[i] + z[f[i]] # f[i + 1]
    BY <2>1, <1>3, <1>4
  <2>3. f[i] + z[f[i]] <= f[i + 1] /\ z[f[i]] \in Nat /\ f[i] \in Nat /\ f[i + 1] \in Nat
    BY <2>2, <1>2
  <2>4. f[i] + z[f[i]] < f[i + 1]
    BY <2>2, <2>3, SMTT(30)
  <2> QED
    BY <2>2, <2>4, <1>5
<1>10. Reading => z[line.buf] >= line.count + 1 + SizeT
  <2> SUFFICES ASSUME Reading PROVE z[line.buf] >= line.count + 1 + SizeT
    OBVIOUS
  <2>1. /\ line.bufsize \in Small /\ line.bufsize \in Nat /\ line.count \in Nat
        /\ line.count + 1 <= line.bufsize
        /\ z[line.buf] >= Rounded(line.bufsize) + SizeT
    BY IfReading, SmallNumbers DEF z
  <2>2. Rounded(line.bufsize) \in Nat /\ Rounded(line.bufsize) >= line.bufsize
    BY <2>1, RoundedBounds
  <2>3. z[line.buf] \in Nat
    <3>1. line.buf \in blocks
      BY <1>1, <1>2 DEF reading
    <3> QED
      BY <3>1, <1>2
  <2> QED
    BY <2>1, <2>2, <2>3, HeapSizes, SMTT(30)
<1> QED
  BY <1>1, <1>2, <1>7, <1>8, <1>9, <1>10 DEF HeapTiled, blocks, listed, reading, end, f, z

(* The blocks tile the heap, and each is free, held or the buffer of a     *)
(* line and big enough for it: malloc, free and realloc of userland/lib.c  *)
(* and readline on top of them keep it so, in every order, for every size  *)
(* of the heap and of the requests within HeapSizes: that a request stays  *)
(* an int when it is rounded, as the casts of malloc's test need.          *)
THEOREM HeapStaysTiled == HeapSpec => []HeapTiled
<1>1. HeapInv /\ [HeapNext]_heapvars => HeapInv'
  BY HeapNextInv
<1> QED
  BY HeapInitInv, <1>1, HeapInvTiled, PTL DEF HeapSpec
=============================================================================
