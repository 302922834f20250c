-------------------------------- MODULE Quad --------------------------------
(***************************************************************************)
(* The division of quads for compilers without it (lib/gcc): Knuth's       *)
(* Program D on four digits in base B.  Numbers are digit arrays with      *)
(* indices 0 to 4 as in the code, where leading zeros are skipped by       *)
(* moving the array pointers; here uz and vz are the distances moved.  A   *)
(* u_int has two digits and wraps.                                         *)
(***************************************************************************)
EXTENDS Integers, SequencesExt, FiniteSetsExt

CONSTANT HALF_BITS

B == 2 ^ HALF_BITS
UInt(x) == x % B ^ 2
HHALF(x) == x \div B
LHALF(x) == x % B
COMBINE(a, b) == a * B + b
QuadMax == B ^ 4 - 1

Digits(x) == [k \in 0 .. 4 |-> (x \div B ^ (4 - k)) % B]
Value(p) == COMBINE(p[1], p[2]) * B ^ 2 + COMBINE(p[3], p[4])
Skip(p) == Min({k \in 1 .. 4 : p[k] # 0}) - 1       \* leading zeros

(* Shift p[from .. from + len] left by sh bits. *)
shl(p, from, len, sh) ==
  [k \in 0 .. 4 |->
     CASE k \in from .. from + len - 1 ->
            LHALF(p[k] * 2 ^ sh) + p[k + 1] \div 2 ^ (HALF_BITS - sh)
       [] k = from + len -> LHALF(p[k] * 2 ^ sh)
       [] OTHER -> p[k]]

-----------------------------------------------------------------------------
(* A divisor of one digit. *)
DivideByDigit(u, t) ==
  LET r1 == COMBINE(u[1] % t, u[2])
      r2 == COMBINE(r1 % t, u[3])
      r3 == COMBINE(r2 % t, u[4])
  IN  [q |-> Value(<<u[1] \div t, r1 \div t, r2 \div t, r3 \div t>>), r |-> r3 % t]

(* D3: the first guess of a digit is lowered while the next digit says it  *)
(* is too big.                                                             *)
RECURSIVE LowerGuess(_, _, _, _, _)
LowerGuess(v1, v2, uj2, qhat, rhat) ==
  IF rhat + v1 >= B \/ UInt(v2 * (qhat - 1)) <= COMBINE(rhat + v1, uj2)
  THEN qhat - 1
  ELSE LowerGuess(v1, v2, uj2, qhat - 1, rhat + v1)

Guess(v1, v2, uj0, uj1, uj2) ==
  LET nn == COMBINE(uj0, uj1)
  IN  IF uj0 = v1 THEN LowerGuess(v1, v2, uj2, B, uj1)
      ELSE IF UInt(v2 * (nn \div v1)) <= COMBINE(nn % v1, uj2) THEN nn \div v1
      ELSE LowerGuess(v1, v2, uj2, nn \div v1, nn % v1)

(* D4: u[j .. j + n] less v * qhat; t is the borrow. *)
RECURSIVE MultiplySubtract(_, _, _, _, _, _)
MultiplySubtract(u, v, j, qhat, i, t) ==
  IF i = 0 THEN [u |-> [u EXCEPT ![j] = LHALF(UInt(@ - t))],
                 borrow |-> HHALF(UInt(u[j] - t)) # 0]
  ELSE LET x == UInt(u[i + j] - v[i] * qhat - t)
       IN  MultiplySubtract([u EXCEPT ![i + j] = LHALF(x)], v, j, qhat, i - 1,
                            (B - HHALF(x)) % B)

(* D6: add v back; t is the carry. *)
RECURSIVE AddBack(_, _, _, _, _)
AddBack(u, v, j, i, t) ==
  IF i = 0 THEN [u EXCEPT ![j] = LHALF(@ + t)]
  ELSE LET x == t + u[i + j] + v[i]
       IN  AddBack([u EXCEPT ![i + j] = LHALF(x)], v, j, i - 1, HHALF(x))

(* Mutant: the divisor is not added back. *)
DivideDigitKept(s, v, n, j) ==
  LET qhat == Guess(v[1], v[2], s.u[j], s.u[j + 1], s.u[j + 2])
      sub == MultiplySubtract(s.u, v, j, qhat, n, 0)
  IN  [u |-> sub.u, q |-> Append(s.q, IF sub.borrow THEN qhat - 1 ELSE qhat)]

(* D3 to D6 for digit j, an index of the moved array, of the quotient. *)
DivideDigit(s, v, n, j) ==
  LET qhat == Guess(v[1], v[2], s.u[j], s.u[j + 1], s.u[j + 2])
      sub == MultiplySubtract(s.u, v, j, qhat, n, 0)
  IN  IF sub.borrow
      THEN [u |-> AddBack(sub.u, v, j, n, 0), q |-> Append(s.q, qhat - 1)]
      ELSE [u |-> sub.u, q |-> Append(s.q, qhat)]

RECURSIVE DivideDigits(_, _, _, _, _)
DivideDigits(s, v, n, j, m) ==
  IF j > m THEN s ELSE DivideDigits(DivideDigit(s, v, n, j), v, n, j + 1, m)

(* Array p with its pointer moved by z; what is behind its end is not used. *)
Move(p, z) == [k \in 0 .. 4 |-> IF k + z <= 4 THEN p[k + z] ELSE 0]

(* D8: the remainder in the digits behind the quotient, shifted back. *)
Unnormalized(u, m, n, d) ==
  IF d = 0 THEN u
  ELSE [i \in 0 .. 4 |->
          IF i \in m + 1 .. m + n
          THEN u[i] \div 2 ^ d + LHALF(u[i - 1] * 2 ^ (HALF_BITS - d))
          ELSE IF i = m THEN 0 ELSE u[i]]

(* The code divides 1 by zero when asked to divide by zero: the            *)
(* processor's exception, and no value comes back.                         *)
Trap == -1

__qdivrem(uq, vq) ==
  LET u0 == Digits(uq) v0 == Digits(vq)
      vz == Skip(v0) n == 4 - vz
      uz == Skip(u0) m == 4 - n - uz
      v1 == v0[vz + 1]
      d == Min({k \in 0 .. HALF_BITS : v1 * 2 ^ k >= B \div 2})
      u == shl(Move(u0, uz), 0, m + n, d)
      v == shl(Move(v0, vz), 1, n - 1, d)
      s == DivideDigits([u |-> u, q |-> <<>>], v, n, 0, m)
      r == Unnormalized(s.u, m, n, d)
  IN  CASE vq = 0 -> [q |-> Trap, r |-> Trap]
        [] uq < vq -> [q |-> 0, r |-> uq]
        [] uq >= vq /\ n = 1 -> DivideByDigit(u0, v0[4])
        [] OTHER -> [q |-> FoldLeft(COMBINE, 0, s.q),
                     r |-> Value([k \in 0 .. 4 |-> IF k < uz THEN u0[k] ELSE r[k - uz]])]

__udivdi3(a, b) == __qdivrem(a, b).q
__umoddi3(a, b) == __qdivrem(a, b).r

(* Signed quads as the unsigned ones that stand for them. *)
Negative(a) == a > QuadMax \div 2
Negate(a) == (QuadMax + 1 - a) % (QuadMax + 1)
__divdi3(a, b) ==
  LET uq == __udivdi3(IF Negative(a) THEN Negate(a) ELSE a,
                      IF Negative(b) THEN Negate(b) ELSE b)
  IN  IF uq # Trap /\ Negative(a) # Negative(b) THEN Negate(uq) ELSE uq

-----------------------------------------------------------------------------
(* A number is divided by every divisor: what the calls return for it. *)
VARIABLES dividend, result

quadvars == <<dividend, result>>

QuadInit == dividend = 0 /\ result = <<>>

Divide ==
  /\ result = <<>>
  /\ dividend' \in 0 .. QuadMax
  /\ result' = [b \in 0 .. QuadMax |->
                  [q |-> __udivdi3(dividend', b), r |-> __umoddi3(dividend', b),
                   signed |-> __divdi3(dividend', b)]]

(* The caller has its results and may divide again. *)
Return ==
  /\ result # <<>>
  /\ dividend' = 0 /\ result' = <<>>

QuadNext == Divide \/ Return
QuadSpec == QuadInit /\ [][QuadNext]_quadvars

Signed(a) == IF Negative(a) THEN a - (QuadMax + 1) ELSE a
Abs(x) == IF x < 0 THEN -x ELSE x

(* The quotient and the remainder are those of whole numbers, whichever    *)
(* digits the guesses of Program D miss; signed division rounds to zero,   *)
(* and overflows only for the least number divided by -1.  A division      *)
(* traps when its divisor is zero and never else, although the code        *)
(* divides by digits of the divisor all along.                             *)
DivisionCorrect ==
  \A b \in DOMAIN result :
    LET a == dividend
        x == Abs(Signed(a)) \div Abs(Signed(b))
    IN  IF b = 0 THEN result[b] = [q |-> Trap, r |-> Trap, signed |-> Trap]
        ELSE
        /\ result[b].q = a \div b
        /\ result[b].r = a % b
        /\ \/ Signed(b) = -1 /\ Signed(a) = - ((QuadMax + 1) \div 2)
           \/ Signed(result[b].signed) = IF Negative(a) = Negative(b) THEN x ELSE -x
=============================================================================
