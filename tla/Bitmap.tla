------------------------------ MODULE Bitmap --------------------------------
(***************************************************************************)
(* Bitmaps (lib/bitmap.c) over arrays of words, on a machine of either     *)
(* byte order (libc.c). A word of an array is written as the number its    *)
(* bytes spell in big-endian order, the order of the disk: `Load' gives    *)
(* the number that the machine reads from those bytes, `Store' the word it *)
(* leaves. The code's words have four bytes of eight bits.                 *)
(***************************************************************************)
EXTENDS Integers, Sequences

CONSTANTS
  WordBytes,    \* bytes in a word
  ByteBits,     \* bits in a byte
  BigEndian     \* TRUE for mips32, FALSE for x86_64

WordBits == WordBytes * ByteBits
WordMax == 2^WordBits - 1
Word == 0..WordMax

(* The number with the bytes of w in the other order. *)
swap32(w) ==
  LET byte(k) == (w \div 2^(ByteBits * k)) % 2^ByteBits
      sum[k \in 0..WordBytes] ==
        IF k = 0 THEN 0
        ELSE sum[k - 1] + byte(k - 1) * 2^(ByteBits * (WordBytes - k))
  IN sum[WordBytes]

from_big_endian32(w) == IF BigEndian THEN w ELSE swap32(w)

(* What the machine's loads and stores make of a word of memory. *)
Load(w) == from_big_endian32(w)
Store(n) == from_big_endian32(n)

-----------------------------------------------------------------------------
(* The size in words: bitmap_sizeof gives it in bytes. *)
Words(bits) == (bits + WordBits - 1) \div WordBits

bitmap_init(size) == [i \in 0..Words(size) - 1 |-> 0]

bitmap_get(bitmap, pos) ==
  (Load(bitmap[pos \div WordBits]) \div 2^(pos % WordBits)) % 2

bitmap_set(bitmap, pos, value) ==
  LET bit == (value - bitmap_get(bitmap, pos)) * 2^(pos % WordBits)
  IN [bitmap EXCEPT ![pos \div WordBits] = Store(Load(@) + bit)]

(* The bit found, -1 if there is none, and the bitmap with that bit set.   *)
(* The scan passes the full words; in the first other one it takes the     *)
(* lowest clear bit, even one past the end, which counts as none.          *)
bitmap_findnset(bitmap, l) ==
  LET open == {i \in 0..Words(l) - 1 : bitmap[i] # WordMax}
      word == CHOOSE i \in open : \A k \in open : i <= k
      clear == {j \in 0..WordBits - 1 : bitmap_get(bitmap, word * WordBits + j) = 0}
      bit == word * WordBits + (CHOOSE j \in clear : \A k \in clear : j <= k)
  IN IF open = {} \/ bit >= l
     THEN [bit |-> -1, bitmap |-> bitmap]
     ELSE [bit |-> bit, bitmap |-> bitmap_set(bitmap, bit, 1)]

(* n calls of bitmap_findnset: the bits found, and the bitmap they leave.  *)
FindMany(bitmap, l, n) ==
  LET calls[k \in 0..n] ==
        IF k = 0 THEN [found |-> <<>>, bitmap |-> bitmap]
        ELSE LET r == bitmap_findnset(calls[k - 1].bitmap, l)
             IN [found |-> Append(calls[k - 1].found, r.bit), bitmap |-> r.bitmap]
  IN calls[n]

(* The positions below l that are set. *)
BitsSet(bitmap, l) == {pos \in 0..l - 1 : bitmap_get(bitmap, pos) = 1}
=============================================================================
