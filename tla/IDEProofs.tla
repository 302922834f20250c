------------------------------ MODULE IDEProofs ------------------------------
(***************************************************************************)
(* The x86_64 disk driver touches the sector asked for (SectorsRight), for *)
(* every number of clients, every width of the registers and every size of *)
(* the drives, while a channel has one request at a time.                  *)
(*                                                                         *)
(* The strengthening says where in its program of port accesses a request  *)
(* is, and what the registers of its channel hold there.                   *)
(***************************************************************************)
EXTENDS IDE, TLAPS

(* Zenon proves the leaves, but those with arithmetic or sequences.        *)
USE ZenonT(30)

(* The program of a request, its drive, and how many accesses more a       *)
(* 48-bit number takes.                                                    *)
Dev(q) == ide_devices[q.drive]
Program(q) == ide_pio_readwrite(q.rw, Dev(q), q.sector)
More(q) == IF Dev(q).lba_mode = 2 THEN 3 ELSE 0
Target(q) == <<q.drive, q.sector>>

HeadBits(q) == IF Dev(q).lba_mode = 2 THEN 0 ELSE Upper(q.sector) % NibbleBase

(* What the registers r hold for the request q before its k-th access. *)
Registers(q, r, k) ==
  /\ k > 2 => r.slave = Dev(q).drive /\ r.head = HeadBits(q)
  /\ \A j \in 1 .. 3 :
       /\ Dev(q).lba_mode = 2 /\ k > 3 + j /\ k <= 6 + j =>
            r.lba[j] = LowBytes(Upper(q.sector))[j]
       /\ k > 3 + More(q) + j =>
            /\ r.lba[j] = LowBytes(q.sector)[j]
            /\ Dev(q).lba_mode = 2 => r.previous[j] = LowBytes(Upper(q.sector))[j]

(* What has come of it. *)
Progress(q, r, k) ==
  /\ k > 7 + More(q) /\ k <= 9 + More(q) => r.at = Target(q)
  /\ k = 8 + More(q) /\ ~ r.busy /\ r.drq => q.sector < Dev(q).totalsectors
  /\ k > 8 + More(q) => q.sector < Dev(q).totalsectors
  /\ k > 9 + More(q) => q.moved = Target(q)

(* A request that is under way. *)
Underway(q, r) ==
  /\ q.rw \in {"read", "write"}
  /\ q.sector <= Dev(q).totalsectors
  /\ q.ret = 0
  /\ \E k \in 1 .. Len(Program(q)) :
       /\ q.todo = SubSeq(Program(q), k, Len(Program(q)))
       /\ Registers(q, r, k) /\ Progress(q, r, k)

(* One that is over. *)
Over(q) ==
  q.todo = <<>> /\ (q.ret = 512 => q.moved # Nowhere /\ q.sector < Dev(q).totalsectors)

IsRequest(q) ==
  /\ q = [rw |-> q.rw, drive |-> q.drive, sector |-> q.sector, todo |-> q.todo,
          moved |-> q.moved, ret |-> q.ret]
  /\ q.drive \in DriveSlots /\ q.sector \in Nat
  /\ q.moved \in {Nowhere, Target(q)}

IsChannel(r) ==
  /\ r = [slave |-> r.slave, head |-> r.head, lba |-> r.lba, previous |-> r.previous,
          command |-> r.command, busy |-> r.busy, drq |-> r.drq, err |-> r.err,
          at |-> r.at]
  /\ r.lba \in [1 .. 3 -> Nat] /\ r.previous \in [1 .. 3 -> Nat]

IDEInv ==
  /\ DOMAIN request = Clients /\ DOMAIN channel = Channels
  /\ request = [t \in Clients |-> request[t]] /\ channel = [c \in Channels |-> channel[c]]
  /\ \A c \in Channels : IsChannel(channel[c])
  /\ \A t \in Clients :
       /\ IsRequest(request[t])
       /\ Over(request[t]) \/ Underway(request[t], channel[ChannelOf(t)])
  /\ \A t, u \in Clients :
       t # u /\ Active(t) /\ Active(u) => ChannelOf(t) # ChannelOf(u)

-----------------------------------------------------------------------------
(* A number is its lowest byte and what the shift leaves. *)
LEMMA Byte ==
  ASSUME NEW n \in Nat
  PROVE  /\ n % ByteBase \in Nat /\ Shift(n) \in Nat
         /\ n = (n % ByteBase) + ByteBase * Shift(n)
<1>1. ByteBase \in Nat \ {0}
  BY IDEDrives
<1>2. n % ByteBase \in Nat
  BY <1>1, SMTT(30)
<1>3. n \div ByteBase \in Nat
  BY <1>1, SMTT(30)
<1>4. n = (n % ByteBase) + ByteBase * (n \div ByteBase)
  BY <1>1, SMTT(30)
<1> QED
  BY <1>2, <1>3, <1>4 DEF Shift

(* Three bytes and the rest put together are the number again. *)
LEMMA Rebuilt ==
  ASSUME NEW s \in Nat
  PROVE  /\ Upper(s) \in Nat
         /\ \A j \in 1 .. 3 : LowBytes(s)[j] \in Nat
         /\ ThreeBytes(LowBytes(s)) \in Nat
         /\ s = ThreeBytes(LowBytes(s)) + Cube * Upper(s)
<1> DEFINE b1 == s % ByteBase
           b2 == Shift(s) % ByteBase
           b3 == Shift(Shift(s)) % ByteBase
<1>0. ByteBase \in Nat /\ Cube \in Nat /\ Cube = ByteBase * ByteBase * ByteBase
  BY IDEDrives, SMTT(30) DEF Cube
<1>1. b1 \in Nat /\ Shift(s) \in Nat /\ s = b1 + ByteBase * Shift(s)
  BY Byte
<1>2. b2 \in Nat /\ Shift(Shift(s)) \in Nat /\ Shift(s) = b2 + ByteBase * Shift(Shift(s))
  BY <1>1, Byte
<1>3. b3 \in Nat /\ Upper(s) \in Nat /\ Shift(Shift(s)) = b3 + ByteBase * Upper(s)
  BY <1>2, Byte DEF Upper
<1>4. LowBytes(s)[1] = b1 /\ LowBytes(s)[2] = b2 /\ LowBytes(s)[3] = b3
  BY DEF LowBytes
<1> HIDE DEF b1, b2, b3
<1>5. ThreeBytes(LowBytes(s)) = b1 + ByteBase * (b2 + ByteBase * b3)
  BY <1>4 DEF ThreeBytes
<1>6. s = (b1 + ByteBase * (b2 + ByteBase * b3)) + Cube * Upper(s)
  <2> DEFINE B == ByteBase
             s1 == Shift(s)
             s2 == Shift(Shift(s))
             u == Upper(s)
  <2>1. /\ B \in Nat /\ s1 \in Nat /\ s2 \in Nat /\ u \in Nat
        /\ b1 \in Nat /\ b2 \in Nat /\ b3 \in Nat
        /\ s = b1 + B * s1 /\ s1 = b2 + B * s2 /\ s2 = b3 + B * u
    BY <1>0, <1>1, <1>2, <1>3
  <2> HIDE DEF B, s1, s2, u
  <2>2. s = (b1 + B * (b2 + B * b3)) + (B * B * B) * u
    BY ONLY <2>1, SMTT(30)
  <2> QED
    BY <2>2, <1>0 DEF B, u
<1>7. b1 + ByteBase * (b2 + ByteBase * b3) \in Nat
  BY <1>0, <1>1, <1>2, <1>3, SMTT(30)
<1>8. \A j \in 1 .. 3 : j = 1 \/ j = 2 \/ j = 3
  BY SMTT(30)
<1> QED
  BY <1>1, <1>2, <1>3, <1>4, <1>5, <1>6, <1>7, <1>8

(* The product of a number that is too large is too large. *)
LEMMA Fewer ==
  ASSUME NEW a \in Nat, NEW x \in Nat, NEW y \in Nat, NEW l \in Nat, NEW s \in Nat,
         s = l + a * x, s < a * y
  PROVE  x < y
<1> SUFFICES ASSUME y <= x PROVE FALSE
  BY SMTT(30)
<1>1. a * y <= a * x
  BY SMTT(30)
<1>2. a * y \in Nat /\ a * x \in Nat
  BY SMTT(30)
<1> QED
  BY <1>1, <1>2, SMTT(30)

(* A drive, as disk_init describes it. *)
LEMMA Devices ==
  ASSUME NEW d \in DriveSlots
  PROVE  /\ ide_devices[d].channel \in Channels
         /\ 2 * ide_devices[d].channel + ide_devices[d].drive = d
         /\ ide_devices[d].lba_mode \in {1, 2}
         /\ ide_devices[d].totalsectors \in Nat
         /\ ide_devices[d].totalsectors <
              Cube * (IF ide_devices[d].lba_mode = 2 THEN Cube ELSE NibbleBase)
<1> DEFINE a == Attached[d]
<1>1. /\ ide_devices[d].channel = d \div 2 /\ ide_devices[d].drive = d % 2
      /\ ide_devices[d].totalsectors = IF a.lba48 # 0 THEN a.lba48 ELSE a.lba28
      /\ ide_devices[d].lba_mode = IF a.lba48 # 0 THEN 2 ELSE 1
  BY DEF ide_devices, disk_init
<1>2. d = 0 \/ d = 1 \/ d = 2 \/ d = 3
  BY SMTT(30) DEF DriveSlots
<1>3. d \div 2 \in Channels /\ 2 * (d \div 2) + (d % 2) = d
  BY <1>2, SMTT(30) DEF Channels
<1>4. 1 # 2
  BY SMTT(30)
<1> QED
  BY <1>1, <1>3, <1>4, IDEDrives

(* The drive takes the command for the sector that was put in bytes into   *)
(* the registers.                                                          *)
LEMMA AddressRight ==
  ASSUME NEW q, q.drive \in DriveSlots, q.sector \in Nat,
         q.sector <= Dev(q).totalsectors, NEW r,
         r.slave = Dev(q).drive, r.head = HeadBits(q),
         \A j \in 1 .. 3 : r.lba[j] = LowBytes(q.sector)[j],
         Dev(q).lba_mode = 2 =>
           \A j \in 1 .. 3 : r.previous[j] = LowBytes(Upper(q.sector))[j]
  PROVE  Addressed(Dev(q).channel, r, Dev(q).lba_mode) = Target(q)
<1> DEFINE s == q.sector
           u == Upper(s)
           top == IF Dev(q).lba_mode = 2 THEN Cube ELSE NibbleBase
<1>0. Cube \in Nat /\ NibbleBase \in Nat \ {0} /\ Cube * top \in Nat
  BY IDEDrives, SMTT(30) DEF Cube
<1>1. /\ 2 * Dev(q).channel + Dev(q).drive = q.drive
      /\ Dev(q).lba_mode \in {1, 2} /\ Dev(q).totalsectors \in Nat
      /\ Dev(q).totalsectors < Cube * top
  BY Devices DEF Dev
<1>2. /\ u \in Nat /\ ThreeBytes(LowBytes(s)) \in Nat
      /\ s = ThreeBytes(LowBytes(s)) + Cube * u
  BY Rebuilt
<1>3. u < top
  <2>1. s < Cube * top
    BY <1>0, <1>1, SMTT(30)
  <2>2. top \in Nat
    BY <1>0
  <2> HIDE DEF top, s, u
  <2>3. s \in Nat
    BY DEF s
  <2> QED
    BY <1>0, <1>2, <2>1, <2>2, <2>3, Fewer
<1>4. \A w : (\A j \in 1 .. 3 : r.lba[j] = w[j]) => ThreeBytes(r.lba) = ThreeBytes(w)
  <2>1. 1 \in 1 .. 3 /\ 2 \in 1 .. 3 /\ 3 \in 1 .. 3
    BY SMTT(30)
  <2> QED
    BY <2>1 DEF ThreeBytes
<1>5. \A w : (\A j \in 1 .. 3 : r.previous[j] = w[j]) => ThreeBytes(r.previous) = ThreeBytes(w)
  <2>1. 1 \in 1 .. 3 /\ 2 \in 1 .. 3 /\ 3 \in 1 .. 3
    BY SMTT(30)
  <2> QED
    BY <2>1 DEF ThreeBytes
<1>6. ThreeBytes(r.lba) = ThreeBytes(LowBytes(s))
  BY <1>4
<1>7. (IF Dev(q).lba_mode = 2 THEN ThreeBytes(r.previous) ELSE r.head) = u
  <2>1. CASE Dev(q).lba_mode = 2
    <3>1. ThreeBytes(r.previous) = ThreeBytes(LowBytes(u))
      BY <2>1, <1>5
    <3>2. /\ Upper(u) \in Nat /\ ThreeBytes(LowBytes(u)) \in Nat
          /\ u = ThreeBytes(LowBytes(u)) + Cube * Upper(u)
      BY <1>2, Rebuilt
    <3>3. Upper(u) < 1
      <4>1. u < Cube * 1
        BY <1>0, <1>2, <1>3, <2>1, SMTT(30)
      <4>2. 1 \in Nat
        BY SMTT(30)
      <4> HIDE DEF u
      <4> QED
        BY <4>1, <4>2, <1>0, <1>2, <3>2, Fewer
    <3> HIDE DEF u
    <3>4. Upper(u) = 0
      BY <3>2, <3>3, SMTT(30)
    <3>5. u = ThreeBytes(LowBytes(u))
      BY <1>0, <3>2, <3>4, SMTT(30)
    <3> QED
      BY <2>1, <3>1, <3>5
  <2>2. CASE Dev(q).lba_mode # 2
    <3>1. r.head = u % NibbleBase
      BY <2>2 DEF HeadBits
    <3> HIDE DEF u
    <3>2. u % NibbleBase = u
      BY <1>0, <1>2, <1>3, <2>2, SMTT(30)
    <3> QED
      BY <2>2, <3>1, <3>2
  <2> QED
    BY <2>1, <2>2
<1> QED
  BY <1>1, <1>2, <1>6, <1>7 DEF Addressed, Target

-----------------------------------------------------------------------------
(* Two sequences put together: u is s, of length a, and behind it t, of    *)
(* length b.                                                               *)
Joined(S, s, t, a, b, u) ==
  /\ u \in Seq(S) /\ Len(u) = a + b
  /\ \A i \in 1 .. a : u[i] = s[i]
  /\ \A i \in 1 .. b : u[a + i] = t[i]

(* Concatenation does so. *)
LEMMA JoinElements ==
  ASSUME NEW S, NEW s \in Seq(S), NEW t \in Seq(S), NEW a, NEW b, a = Len(s), b = Len(t)
  PROVE  Joined(S, s, t, a, b, s \o t)
<1>1. s \o t \in Seq(S) /\ Len(s \o t) = Len(s) + Len(t)
  BY SMTT(30)
<1>2. \A i \in 1 .. Len(s) : (s \o t)[i] = s[i]
  BY SMTT(30)
<1>3. \A i \in 1 .. Len(t) : (s \o t)[Len(s) + i] = t[i]
  BY SMTT(30)
<1> QED
  BY <1>1, <1>2, <1>3 DEF Joined

(* The accesses that a request may make. *)
Command(q) == Out("COMMAND", [rw |-> q.rw, lba_mode |-> Dev(q).lba_mode])
Flush == Out("COMMAND", [rw |-> "flush", lba_mode |-> 1])
Accesses(q) ==
  {Step("wait"), Step("check"), Step("data"), SelectDrive(Dev(q), q.sector), Command(q), Flush}
  \cup {OutHigh(q.sector)[j] : j \in 1 .. 3} \cup {OutLba(q.sector)[j] : j \in 1 .. 3}

(* The accesses of a request by their number. *)
Accessed(q, P) ==
  /\ P \in Seq(Accesses(q))
  /\ Len(P) = 10 + More(q) + (IF q.rw = "write" THEN 1 ELSE 0)
  /\ P[1] = Step("wait") /\ P[2] = SelectDrive(Dev(q), q.sector) /\ P[3] = Step("wait")
  /\ Dev(q).lba_mode = 2 => \A j \in 1 .. 3 : P[3 + j] = OutHigh(q.sector)[j]
  /\ \A j \in 1 .. 3 : P[3 + More(q) + j] = OutLba(q.sector)[j]
  /\ P[7 + More(q)] = Command(q)
  /\ P[8 + More(q)] = Step("check") /\ P[9 + More(q)] = Step("data")
  /\ q.rw = "write" => P[10 + More(q)] = Flush
  /\ P[Len(P)] = Step("wait")

(* The accesses of the program of a request, one by one. *)
LEMMA ProgramAccesses ==
  ASSUME NEW q
  PROVE  Accessed(q, Program(q))
<1> DEFINE S == Accesses(q)
           m == More(q)
           sel == SelectDrive(Dev(q), q.sector)
           A == <<Step("wait"), sel, Step("wait")>>
           H == IF Dev(q).lba_mode = 2 THEN OutHigh(q.sector) ELSE <<>>
           L == OutLba(q.sector)
           C == <<Command(q), Step("check"), Step("data")>>
           F == IF q.rw = "write" THEN <<Flush>> ELSE <<>>
           W == <<Step("wait")>>
           P1 == A \o H
           P2 == P1 \o L
           P3 == P2 \o C
           P4 == P3 \o F
           P == P4 \o W
<1>1. Program(q) = P
  BY DEF Program, ide_pio_readwrite, Command, Flush
<1>2. /\ Step("wait") \in S /\ Step("check") \in S /\ Step("data") \in S /\ sel \in S
      /\ Command(q) \in S /\ Flush \in S
      /\ \A j \in 1 .. 3 : OutHigh(q.sector)[j] \in S /\ OutLba(q.sector)[j] \in S
  BY DEF Accesses
<1>3. m \in {0, 3} /\ m = IF Dev(q).lba_mode = 2 THEN 3 ELSE 0
  BY DEF More
<1> HIDE DEF S, sel, m
<1>4. A \in Seq(S) /\ Len(A) = 3 /\ A[1] = Step("wait") /\ A[2] = sel /\ A[3] = Step("wait")
  <2> DEFINE w == Step("wait")
  <2>1. w \in S
    BY <1>2
  <2> HIDE DEF w
  <2>2. <<w, sel, w>> \in Seq(S) /\ Len(<<w, sel, w>>) = 3
    BY <1>2, <2>1, SMTT(30)
  <2> QED
    BY <2>2 DEF w
<1>5. \A n : OutLba(n) = [i \in 1 .. 3 |-> OutLba(n)[i]]
  BY DEF OutLba
<1>6. L \in Seq(S) /\ Len(L) = 3
  <2> HIDE DEF L
  <2>1. L = [i \in 1 .. 3 |-> L[i]] /\ \A i \in 1 .. 3 : L[i] \in S
    BY <1>2, <1>5 DEF L
  <2> QED
    BY <2>1, SMTT(30)
<1>7. H \in Seq(S) /\ Len(H) = m
  <2> DEFINE h == OutHigh(q.sector)
  <2>1. h = [i \in 1 .. 3 |-> h[i]] /\ \A i \in 1 .. 3 : h[i] \in S
    BY <1>2, <1>5 DEF OutHigh
  <2> HIDE DEF h
  <2>2. h \in Seq(S) /\ Len(h) = 3
    BY <2>1, SMTT(30)
  <2>3. <<>> \in Seq(S) /\ Len(<<>>) = 0
    BY SMTT(30)
  <2> QED
    BY <2>2, <2>3, <1>3 DEF h
<1>8. C \in Seq(S) /\ Len(C) = 3 /\ C[1] = Command(q) /\ C[2] = Step("check") /\ C[3] = Step("data")
  <2> DEFINE x == Command(q)
             y == Step("check")
             z == Step("data")
  <2>1. x \in S /\ y \in S /\ z \in S
    BY <1>2
  <2> HIDE DEF x, y, z
  <2>2. <<x, y, z>> \in Seq(S) /\ Len(<<x, y, z>>) = 3
    BY <2>1, SMTT(30)
  <2> QED
    BY <2>2 DEF x, y, z
<1>9. F \in Seq(S) /\ Len(F) = (IF q.rw = "write" THEN 1 ELSE 0) /\ (q.rw = "write" => F[1] = Flush)
  <2> DEFINE x == Flush
  <2>1. x \in S
    BY <1>2
  <2> HIDE DEF x
  <2>2. <<x>> \in Seq(S) /\ Len(<<x>>) = 1 /\ <<x>>[1] = x /\ <<>> \in Seq(S) /\ Len(<<>>) = 0
    BY <2>1, SMTT(30)
  <2>3. CASE q.rw = "write"
    <3>1. F = <<x>>
      BY <2>3 DEF x
    <3> HIDE DEF F
    <3> QED
      BY ONLY <2>2, <2>3, <3>1, SMTT(30) DEF x
  <2>4. CASE q.rw # "write"
    <3>1. F = <<>>
      BY <2>4
    <3> HIDE DEF F
    <3> QED
      BY ONLY <2>2, <2>4, <3>1, SMTT(30)
  <2> QED
    BY <2>3, <2>4
<1>10. W \in Seq(S) /\ Len(W) = 1 /\ W[1] = Step("wait")
  <2> DEFINE x == Step("wait")
  <2>1. x \in S
    BY <1>2
  <2> HIDE DEF x
  <2>2. <<x>> \in Seq(S) /\ Len(<<x>>) = 1 /\ <<x>>[1] = x
    BY <2>1, SMTT(30)
  <2> QED
    BY <2>2 DEF x
<1>11. Dev(q).lba_mode = 2 => H = OutHigh(q.sector)
  OBVIOUS
<1> HIDE DEF A, H, L, C, F, W
<1>12. /\ P1 \in Seq(S) /\ Len(P1) = 3 + m
       /\ \A i \in 1 .. 3 : P1[i] = A[i]
       /\ \A i \in 1 .. m : P1[3 + i] = H[i]
  <2>1. A \in Seq(S) /\ H \in Seq(S)
    BY <1>4, <1>7
  <2>2. Len(A) = 3 /\ Len(H) = m
    BY <1>4, <1>7
  <2>3. Joined(S, A, H, 3, m, P1)
    BY ONLY ZenonT(30), <2>1, <2>2, JoinElements DEF P1
  <2> QED
    BY <2>3 DEF Joined
<1> HIDE DEF P1
<1>13. /\ P2 \in Seq(S) /\ Len(P2) = 6 + m
       /\ \A i \in 1 .. 3 + m : P2[i] = P1[i]
       /\ \A i \in 1 .. 3 : P2[3 + m + i] = L[i]
  <2>1. P1 \in Seq(S) /\ L \in Seq(S)
    BY <1>6, <1>12
  <2>4. Len(P1) = 3 + m /\ Len(L) = 3
    BY <1>6, <1>12
  <2>2. /\ P2 \in Seq(S) /\ Len(P2) = (3 + m) + 3
        /\ \A i \in 1 .. 3 + m : P2[i] = P1[i]
        /\ \A i \in 1 .. 3 : P2[(3 + m) + i] = L[i]
    <3>1. Joined(S, P1, L, 3 + m, 3, P2)
      BY ONLY ZenonT(30), <2>1, <2>4, JoinElements DEF P2
    <3> QED
      BY <3>1 DEF Joined
  <2>3. (3 + m) + 3 = 6 + m
    BY <1>3, SMTT(30)
  <2> QED
    BY <2>2, <2>3
<1> HIDE DEF P2
<1>14. /\ P3 \in Seq(S) /\ Len(P3) = 9 + m
       /\ \A i \in 1 .. 6 + m : P3[i] = P2[i]
       /\ P3[7 + m] = C[1] /\ P3[8 + m] = C[2] /\ P3[9 + m] = C[3]
  <2>1. P2 \in Seq(S) /\ C \in Seq(S)
    BY <1>8, <1>13
  <2>5. Len(P2) = 6 + m /\ Len(C) = 3
    BY <1>8, <1>13
  <2>2. /\ P3 \in Seq(S) /\ Len(P3) = (6 + m) + 3
        /\ \A i \in 1 .. 6 + m : P3[i] = P2[i]
        /\ \A i \in 1 .. 3 : P3[(6 + m) + i] = C[i]
    <3>1. Joined(S, P2, C, 6 + m, 3, P3)
      BY ONLY ZenonT(30), <2>1, <2>5, JoinElements DEF P3
    <3> QED
      BY <3>1 DEF Joined
  <2>3. /\ (6 + m) + 3 = 9 + m /\ (6 + m) + 1 = 7 + m /\ (6 + m) + 2 = 8 + m
        /\ 1 \in 1 .. 3 /\ 2 \in 1 .. 3 /\ 3 \in 1 .. 3
    BY <1>3, SMTT(30)
  <2> HIDE DEF P3
  <2>4. P3[(6 + m) + 1] = C[1] /\ P3[(6 + m) + 2] = C[2] /\ P3[(6 + m) + 3] = C[3]
    BY <2>2, <2>3
  <2> QED
    BY <2>2, <2>3, <2>4
<1> HIDE DEF P3
<1>15. /\ P4 \in Seq(S) /\ Len(P4) = 9 + m + (IF q.rw = "write" THEN 1 ELSE 0)
       /\ \A i \in 1 .. 9 + m : P4[i] = P3[i]
       /\ q.rw = "write" => P4[10 + m] = F[1]
  <2>1. P3 \in Seq(S) /\ F \in Seq(S)
    BY <1>9, <1>14
  <2>4. Len(P3) = 9 + m /\ Len(F) = (IF q.rw = "write" THEN 1 ELSE 0)
    BY <1>9, <1>14
  <2>2. /\ P4 \in Seq(S) /\ Len(P4) = 9 + m + (IF q.rw = "write" THEN 1 ELSE 0)
        /\ \A i \in 1 .. 9 + m : P4[i] = P3[i]
        /\ \A i \in 1 .. (IF q.rw = "write" THEN 1 ELSE 0) : P4[9 + m + i] = F[i]
    <3>1. Joined(S, P3, F, 9 + m, IF q.rw = "write" THEN 1 ELSE 0, P4)
      BY ONLY ZenonT(30), <2>1, <2>4, JoinElements DEF P4
    <3> QED
      BY <3>1 DEF Joined
  <2>3. 9 + m + 1 = 10 + m /\ 1 \in 1 .. 1
    BY <1>3, SMTT(30)
  <2> QED
    BY <2>2, <2>3
<1> HIDE DEF P4
<1>16. /\ P \in Seq(S) /\ Len(P) = Len(P4) + 1
       /\ \A i \in 1 .. Len(P4) : P[i] = P4[i]
       /\ P[Len(P4) + 1] = W[1]
  <2>1. P4 \in Seq(S) /\ W \in Seq(S)
    BY <1>10, <1>15
  <2>2. Len(W) = 1
    BY <1>10
  <2>3. Joined(S, P4, W, Len(P4), 1, P)
    BY ONLY ZenonT(30), <2>1, <2>2, JoinElements DEF P
  <2>4. 1 \in 1 .. 1
    BY SMTT(30)
  <2> HIDE DEF P
  <2> QED
    BY <2>3, <2>4 DEF Joined
<1> HIDE DEF P
<1>17. Len(P) = 10 + m + (IF q.rw = "write" THEN 1 ELSE 0)
  <2>1. Len(P4) = IF q.rw = "write" THEN 10 + m ELSE 9 + m
    <3>1. Len(P4) = 9 + m + (IF q.rw = "write" THEN 1 ELSE 0)
      BY <1>15
    <3> QED
      BY <3>1, <1>3, SMTT(30)
  <2>2. Len(P) = Len(P4) + 1
    BY <1>16
  <2> QED
    BY <2>1, <2>2, <1>3, SMTT(30)
<1>18. \A i \in 1 .. 9 + m : P[i] = P3[i]
  <2> SUFFICES ASSUME NEW i \in 1 .. 9 + m PROVE P[i] = P3[i]
    OBVIOUS
  <2>1. Len(P4) = 9 + m + (IF q.rw = "write" THEN 1 ELSE 0)
    BY <1>15
  <2>2. i \in 1 .. Len(P4)
    BY <2>1, <1>3, SMTT(30)
  <2> QED
    BY <2>2, <1>15, <1>16
<1>19. \A i \in 1 .. 6 + m : P[i] = P2[i]
  <2>1. \A i \in 1 .. 6 + m : i \in 1 .. 9 + m
    BY <1>3, SMTT(30)
  <2> QED
    BY <2>1, <1>14, <1>18
<1>20. \A i \in 1 .. 3 + m : P[i] = P1[i]
  <2>1. \A i \in 1 .. 3 + m : i \in 1 .. 6 + m
    BY <1>3, SMTT(30)
  <2> QED
    BY <2>1, <1>13, <1>19
<1>21. P[1] = A[1] /\ P[2] = A[2] /\ P[3] = A[3]
  <2>1. /\ 1 \in 1 .. 3 /\ 2 \in 1 .. 3 /\ 3 \in 1 .. 3
        /\ 1 \in 1 .. 3 + m /\ 2 \in 1 .. 3 + m /\ 3 \in 1 .. 3 + m
    BY <1>3, SMTT(30)
  <2>2. P1[1] = A[1] /\ P1[2] = A[2] /\ P1[3] = A[3]
    BY <2>1, <1>12
  <2>3. P[1] = P1[1] /\ P[2] = P1[2] /\ P[3] = P1[3]
    BY ONLY ZenonT(30), <2>1, <1>20
  <2> QED
    BY ONLY ZenonT(30), <2>2, <2>3
<1>22. Dev(q).lba_mode = 2 => \A j \in 1 .. 3 : P[3 + j] = OutHigh(q.sector)[j]
  <2> SUFFICES ASSUME Dev(q).lba_mode = 2, NEW j \in 1 .. 3
               PROVE  P[3 + j] = OutHigh(q.sector)[j]
    OBVIOUS
  <2>1. m = 3
    BY <1>3
  <2>2. j \in 1 .. m /\ 3 + j \in 1 .. 3 + m
    BY <2>1, SMTT(30)
  <2> QED
    BY <2>2, <1>11, <1>12, <1>20
<1>23. \A j \in 1 .. 3 : P[3 + m + j] = L[j]
  <2>1. \A j \in 1 .. 3 : 3 + m + j \in 1 .. 6 + m
    BY <1>3, SMTT(30)
  <2> QED
    BY <2>1, <1>13, <1>19
<1>24. P[7 + m] = C[1] /\ P[8 + m] = C[2] /\ P[9 + m] = C[3]
  <2>1. 7 + m \in 1 .. 9 + m /\ 8 + m \in 1 .. 9 + m /\ 9 + m \in 1 .. 9 + m
    BY <1>3, SMTT(30)
  <2> QED
    BY <2>1, <1>14, <1>18
<1>25. q.rw = "write" => P[10 + m] = F[1]
  <2> SUFFICES ASSUME q.rw = "write" PROVE P[10 + m] = F[1]
    OBVIOUS
  <2>1. Len(P4) = 9 + m + 1
    BY <1>15
  <2>2. 10 + m \in 1 .. Len(P4)
    BY <2>1, <1>3, SMTT(30)
  <2> QED
    BY <2>2, <1>15, <1>16
<1>26. P[Len(P)] = W[1]
  BY <1>16
<1> QED
  BY <1>1, <1>4, <1>8, <1>9, <1>10, <1>16, <1>17, <1>21, <1>22, <1>23, <1>24, <1>25, <1>26
  DEF Accessed, S, m, sel, L

-----------------------------------------------------------------------------
(* The accesses left before the k-th one, and when that one has been made. *)
Left(P, k) ==
  LET rest == SubSeq(P, k, Len(P))
  IN  /\ rest # <<>> /\ Head(rest) = P[k]
      /\ Tail(rest) = SubSeq(P, k + 1, Len(P))
      /\ k = Len(P) => rest = <<P[k]>> /\ Tail(rest) = <<>>
      /\ k < Len(P) => \A x : rest # <<x>>

(* What is left of a program after its k-th access. *)
LEMMA LeftOver ==
  ASSUME NEW S, NEW P \in Seq(S), NEW k \in 1 .. Len(P)
  PROVE  Left(P, k)
<1> DEFINE rest == SubSeq(P, k, Len(P))
<1>1. /\ rest \in Seq(S) /\ Len(rest) = (Len(P) - k) + 1
      /\ \A i \in 1 .. Len(rest) : rest[i] = P[(k + i) - 1]
  BY SMTT(30)
<1>3. Tail(rest) = SubSeq(P, k + 1, Len(P))
  BY SMTT(30)
<1> HIDE DEF rest
<1>6. /\ rest \in Seq(S) /\ Len(rest) \in Nat /\ Len(rest) >= 1 /\ rest[1] = P[k]
      /\ k = Len(P) => Len(rest) = 1
      /\ k < Len(P) => Len(rest) # 1
  <2>1. 1 \in 1 .. Len(rest) /\ (k + 1) - 1 = k
    BY <1>1, SMTT(30)
  <2>2. rest[1] = P[k]
    BY <1>1, <2>1
  <2> QED
    BY <2>2, <1>1, SMTT(30)
<1>7. \A x : Len(<<x>>) = 1 /\ Len(<<>>) = 0
  BY SMTT(30)
<1>2. rest # <<>> /\ Head(rest) = P[k]
  <2>1. rest # <<>>
    BY <1>6, SMTT(30)
  <2>2. Head(rest) = rest[1]
    BY <1>6, SMTT(30)
  <2> QED
    BY <2>1, <2>2, <1>6
<1>4. ASSUME k = Len(P) PROVE rest = <<P[k]>> /\ Tail(rest) = <<>>
  <2>1. Len(rest) = 1
    BY <1>4, <1>6
  <2>2. rest = [i \in 1 .. 1 |-> rest[i]]
    BY <1>6, <2>1, SMTT(30)
  <2>3. rest = <<rest[1]>>
    BY <2>2, SMTT(30)
  <2>4. Tail(rest) = <<>>
    <3> DEFINE x == rest[1]
    <3> HIDE DEF x
    <3>1. Tail(<<x>>) = <<>>
      BY SMTT(30)
    <3> QED
      BY <2>3, <3>1 DEF x
  <2> QED
    BY <2>3, <2>4, <1>6
<1>5. ASSUME k < Len(P), NEW x PROVE rest # <<x>>
  BY <1>5, <1>6, <1>7
<1> QED
  BY <1>2, <1>3, <1>4, <1>5 DEF Left, rest

(* Which accesses of a request are of a kind. *)
Placed(q, k) ==
  LET P == Program(q) m == More(q)
  IN  /\ P[k].op = "wait" => k = 1 \/ k = 3 \/ k = Len(P)
      /\ P[k].op = "check" => k = 8 + m
      /\ P[k].op = "data" => k = 9 + m
      /\ P[k].op = "out" =>
           \/ k = 2
           \/ Dev(q).lba_mode = 2 /\ \E j \in 1 .. 3 : k = 3 + j
           \/ \E j \in 1 .. 3 : k = 3 + m + j
           \/ k = 7 + m
           \/ q.rw = "write" /\ k = 10 + m

(* Which accesses of a program are of which kind. *)
LEMMA KindPlaces ==
  ASSUME NEW q, NEW k \in 1 .. Len(Program(q))
  PROVE  Placed(q, k)
<1> DEFINE P == Program(q)
           m == More(q)
<1>1. Accessed(q, P)
  BY ProgramAccesses
<1>2. m \in {0, 3} /\ (m = 3 => Dev(q).lba_mode = 2)
  <2>1. 0 # 3
    BY SMTT(30)
  <2> QED
    BY <2>1 DEF More
<1>3. Len(P) = 10 + m + (IF q.rw = "write" THEN 1 ELSE 0)
  BY <1>1 DEF Accessed
<1> HIDE DEF P, m
<1>4. k \in 1 .. Len(P)
  BY DEF P
<1>5. \/ k = 1 \/ k = 2 \/ k = 3 \/ (m = 3 /\ \E j \in 1 .. 3 : k = 3 + j)
      \/ (\E j \in 1 .. 3 : k = 3 + m + j) \/ k = 7 + m \/ k = 8 + m \/ k = 9 + m
      \/ (q.rw = "write" /\ k = 10 + m) \/ k = Len(P)
  <2> SUFFICES ASSUME ~ (k = 1 \/ k = 2 \/ k = 3),
                      ~ (k = 7 + m \/ k = 8 + m \/ k = 9 + m),
                      ~ (q.rw = "write" /\ k = 10 + m), k # Len(P)
               PROVE  \/ (m = 3 /\ \E j \in 1 .. 3 : k = 3 + j)
                      \/ (\E j \in 1 .. 3 : k = 3 + m + j)
    OBVIOUS
  <2>1. k \in 4 .. 6 + m
    BY <1>2, <1>3, <1>4, SMTT(30)
  <2>2. CASE m = 3 /\ k < 7
    <3>1. k - 3 \in 1 .. 3 /\ k = 3 + (k - 3)
      BY <2>1, <2>2, SMTT(30)
    <3> QED
      BY <2>2, <3>1
  <2>3. CASE ~ (m = 3 /\ k < 7)
    <3> DEFINE j == (k - 3) - m
    <3>1. j \in 1 .. 3 /\ k = 3 + m + j
      BY <1>2, <2>1, <2>3, SMTT(30)
    <3> QED
      BY <3>1
  <2> QED
    BY <2>2, <2>3
<1>6. /\ \A n, j : j \in 1 .. 3 => OutLba(n)[j].op = "out"
      /\ SelectDrive(Dev(q), q.sector).op = "out" /\ Command(q).op = "out" /\ Flush.op = "out"
      /\ \A op : Step(op).op = op
  BY DEF OutLba, SelectDrive, Command, Flush, Out, Step
<1>7. CASE k = 1 \/ k = 3 \/ k = Len(P)
  <2>1. P[k].op = "wait"
    BY <1>1, <1>6, <1>7 DEF Accessed
  <2> QED
    BY <2>1, <1>7 DEF Placed, P
<1>8. CASE k = 8 + m
  <2>1. P[k].op = "check"
    BY <1>1, <1>6, <1>8 DEF Accessed, m
  <2> QED
    BY <2>1, <1>8 DEF Placed, P, m
<1>9. CASE k = 9 + m
  <2>1. P[k].op = "data"
    BY <1>1, <1>6, <1>9 DEF Accessed, m
  <2> QED
    BY <2>1, <1>9 DEF Placed, P, m
<1>10. CASE k = 2
  <2>1. P[k].op = "out"
    BY <1>1, <1>6, <1>10 DEF Accessed
  <2> QED
    BY <2>1, <1>10 DEF Placed, P
<1>11. CASE m = 3 /\ \E j \in 1 .. 3 : k = 3 + j
  <2>2. PICK j \in 1 .. 3 : k = 3 + j
    BY <1>11
  <2>1. P[k].op = "out"
    <3>1. P[3 + j] = OutHigh(q.sector)[j]
      BY <1>1, <1>2, <1>11 DEF Accessed
    <3>2. OutLba(Upper(q.sector))[j].op = "out"
      BY <1>6
    <3> QED
      BY <3>1, <3>2, <2>2 DEF OutHigh
  <2> QED
    BY <2>1, <1>2, <1>11 DEF Placed, P
<1>12. CASE \E j \in 1 .. 3 : k = 3 + m + j
  <2>2. PICK j \in 1 .. 3 : k = 3 + m + j
    BY <1>12
  <2>1. P[k].op = "out"
    <3>1. P[3 + m + j] = OutLba(q.sector)[j]
      BY <1>1 DEF Accessed, m
    <3>2. OutLba(q.sector)[j].op = "out"
      BY <1>6
    <3> QED
      BY <3>1, <3>2, <2>2
  <2> QED
    BY <2>1, <1>12 DEF Placed, P, m
<1>13. CASE k = 7 + m
  <2>1. P[k].op = "out"
    BY <1>1, <1>6, <1>13 DEF Accessed, m
  <2> QED
    BY <2>1, <1>13 DEF Placed, P, m
<1>14. CASE q.rw = "write" /\ k = 10 + m
  <2>1. P[k].op = "out"
    BY <1>1, <1>6, <1>14 DEF Accessed, m
  <2> QED
    BY <2>1, <1>14 DEF Placed, P, m
<1> QED
  BY <1>5, <1>7, <1>8, <1>9, <1>10, <1>11, <1>12, <1>13, <1>14

-----------------------------------------------------------------------------
(* A request before its k-th access, and one that is over or under way. *)
At(q, r, k) ==
  /\ q.rw \in {"read", "write"} /\ q.sector <= Dev(q).totalsectors /\ q.ret = 0
  /\ k \in 1 .. Len(Program(q))
  /\ q.todo = SubSeq(Program(q), k, Len(Program(q)))
  /\ Registers(q, r, k) /\ Progress(q, r, k)

(* The request q with other accesses to make, sector moved and answer. *)
With(q, todo, moved, ret) ==
  [rw |-> q.rw, drive |-> q.drive, sector |-> q.sector, todo |-> todo,
   moved |-> moved, ret |-> ret]

(* A request under way is at some access of its program. *)
LEMMA UnderwayAt ==
  ASSUME NEW q, NEW r, Underway(q, r)
  PROVE  \E k : At(q, r, k)
BY DEF Underway, At

(* A 48-bit number takes three accesses more, any other none. *)
LEMMA MoreIs ==
  ASSUME NEW q
  PROVE  /\ More(q) \in {0, 3}
         /\ Dev(q).lba_mode = 2 => More(q) = 3
         /\ Dev(q).lba_mode # 2 => More(q) = 0
BY DEF More

(* How many accesses a program has. *)
LEMMA ProgramLength ==
  ASSUME NEW q
  PROVE  /\ Program(q) \in Seq(Accesses(q)) /\ Len(Program(q)) \in Nat
         /\ q.rw = "write" => Len(Program(q)) = 11 + More(q)
         /\ q.rw # "write" => Len(Program(q)) = 10 + More(q)
<1>1. /\ Program(q) \in Seq(Accesses(q))
      /\ Len(Program(q)) = 10 + More(q) + (IF q.rw = "write" THEN 1 ELSE 0)
  BY ProgramAccesses DEF Accessed
<1>2. More(q) \in {0, 3}
  BY MoreIs
<1> DEFINE P == Program(q)
           m == More(q)
<1> HIDE DEF P, m
<1>3. Len(P) = 10 + m + (IF q.rw = "write" THEN 1 ELSE 0) /\ m \in {0, 3}
  BY <1>1, <1>2 DEF P, m
<1>4. /\ Len(P) \in Nat
      /\ q.rw = "write" => Len(P) = 11 + m
      /\ q.rw # "write" => Len(P) = 10 + m
  BY <1>3, SMTT(30)
<1> QED
  BY <1>1, <1>4 DEF P, m

(* What a request is about does not change while it is carried out. *)
Same(q, w, todo, moved, ret) ==
  /\ w.rw = q.rw /\ w.drive = q.drive /\ w.sector = q.sector
  /\ w.todo = todo /\ w.moved = moved /\ w.ret = ret
  /\ Dev(w) = Dev(q) /\ Program(w) = Program(q) /\ More(w) = More(q)
  /\ Target(w) = Target(q) /\ HeadBits(w) = HeadBits(q)

(* The progress of a request changes neither its drive nor its program. *)
LEMMA SameProgram ==
  ASSUME NEW q, NEW todo, NEW moved, NEW ret
  PROVE  Same(q, With(q, todo, moved, ret), todo, moved, ret)
<1> DEFINE w == With(q, todo, moved, ret)
<1>1. /\ w.rw = q.rw /\ w.drive = q.drive /\ w.sector = q.sector
      /\ w.todo = todo /\ w.moved = moved /\ w.ret = ret
  BY DEF With
<1> HIDE DEF w
<1>2. Dev(w) = Dev(q)
  BY <1>1 DEF Dev
<1>3. Program(w) = Program(q) /\ More(w) = More(q) /\ Target(w) = Target(q) /\ HeadBits(w) = HeadBits(q)
  BY <1>1, <1>2 DEF Program, More, Target, HeadBits
<1> QED
  BY <1>1, <1>2, <1>3 DEF w, Same

(* Where the data of a request may be. *)
MovedTo(q, moved) == moved \in {Nowhere, Target(q)}

(* A request that has gone on is still one. *)
LEMMA WithRequest ==
  ASSUME NEW q, IsRequest(q), NEW todo, NEW moved, NEW ret, MovedTo(q, moved)
  PROVE  IsRequest(With(q, todo, moved, ret))
<1> DEFINE w == With(q, todo, moved, ret)
<1>0. Same(q, w, todo, moved, ret)
  BY SameProgram
<1>1. /\ w.rw = q.rw /\ w.drive = q.drive /\ w.sector = q.sector
      /\ w.todo = todo /\ w.moved = moved /\ w.ret = ret /\ Target(w) = Target(q)
  <2> HIDE DEF w
  <2> QED
    BY <1>0 DEF Same
<1>2. w = [rw |-> w.rw, drive |-> w.drive, sector |-> w.sector, todo |-> w.todo,
           moved |-> w.moved, ret |-> w.ret]
  BY <1>1 DEF With
<1> HIDE DEF w
<1>3. IsRequest(w)
  BY <1>1, <1>2 DEF IsRequest, MovedTo
<1> QED
  BY <1>3 DEF w

(* The request goes on to its next access. *)
LEMMA Advance ==
  ASSUME NEW q, NEW r, NEW k, At(q, r, k), k < Len(Program(q)), NEW moved, NEW r2,
         Registers(q, r2, k + 1), Progress(With(q, Tail(q.todo), moved, 0), r2, k + 1)
  PROVE  Underway(With(q, Tail(q.todo), moved, 0), r2)
<1> DEFINE w == With(q, Tail(q.todo), moved, 0)
           P == Program(q)
<1>0. Same(q, w, Tail(q.todo), moved, 0)
  BY SameProgram
<1>1. /\ w.rw = q.rw /\ w.drive = q.drive /\ w.sector = q.sector
      /\ w.todo = Tail(q.todo) /\ w.ret = 0
      /\ Dev(w) = Dev(q) /\ Program(w) = P /\ More(w) = More(q) /\ HeadBits(w) = HeadBits(q)
  <2> HIDE DEF w
  <2> QED
    BY <1>0 DEF Same
<1>2. k \in 1 .. Len(P) /\ P \in Seq(Accesses(q)) /\ Len(P) \in Nat /\ k < Len(P)
  BY ProgramLength DEF At
<1> HIDE DEF w, P
<1>3. k + 1 \in 1 .. Len(P)
  BY <1>2, SMTT(30)
<1>4. Left(P, k)
  BY <1>2, LeftOver
<1>5. q.todo = SubSeq(P, k, Len(P))
  BY DEF At, P
<1>6. w.todo = SubSeq(P, k + 1, Len(P))
  BY <1>1, <1>4, <1>5 DEF Left
<1>7. Registers(w, r2, k + 1)
  BY <1>1 DEF Registers
<1>8. Progress(w, r2, k + 1)
  BY DEF w
<1>9. w.rw \in {"read", "write"} /\ w.sector <= Dev(w).totalsectors
  BY <1>1 DEF At
<1>10. Underway(w, r2)
  BY <1>1, <1>3, <1>6, <1>7, <1>8, <1>9 DEF Underway
<1> QED
  BY <1>10 DEF w

(* The registers outside the bytes of the number are set once. *)
LEMMA RegistersKept ==
  ASSUME NEW q, NEW r, NEW r2, NEW k \in Nat, Registers(q, r, k),
         k = 1 \/ k = 3 \/ k > 6 + More(q),
         r2.slave = r.slave, r2.head = r.head, r2.lba = r.lba, r2.previous = r.previous
  PROVE  Registers(q, r2, k + 1)
<1> DEFINE m == More(q)
<1>1. /\ m \in {0, 3} /\ (Dev(q).lba_mode = 2 => m = 3)
  BY MoreIs
<1>2. k = 1 \/ k = 3 \/ k > 6 + m
  OBVIOUS
<1> HIDE DEF m
<1>3. k + 1 > 2 => k > 2
  BY <1>1, <1>2, SMTT(30)
<1>4. ASSUME NEW j \in 1 .. 3
      PROVE  /\ m = 3 => ~ (k + 1 > 3 + j /\ k + 1 <= 6 + j)
             /\ k + 1 > 3 + m + j => k > 3 + m + j
  BY <1>1, <1>2, SMTT(30)
<1> QED
  BY <1>1, <1>3, <1>4 DEF Registers, m

-----------------------------------------------------------------------------
(* The next access of a request. *)
NextAccess(q, k) ==
  /\ q.todo # <<>> /\ Head(q.todo) = Program(q)[k]
  /\ k = Len(Program(q)) => q.todo = <<Program(q)[k]>> /\ Tail(q.todo) = <<>>
  /\ k < Len(Program(q)) => \A x : q.todo # <<x>>

(* The next access of a request under way is that of its program. *)
LEMMA AtNext ==
  ASSUME NEW q, NEW r, NEW k, At(q, r, k)
  PROVE  NextAccess(q, k) /\ Placed(q, k)
<1>1. Program(q) \in Seq(Accesses(q))
  BY ProgramLength
<1>2. k \in 1 .. Len(Program(q)) /\ q.todo = SubSeq(Program(q), k, Len(Program(q)))
  BY DEF At
<1>3. Left(Program(q), k)
  BY <1>1, <1>2, LeftOver
<1>4. NextAccess(q, k)
  BY <1>2, <1>3 DEF Left, NextAccess
<1> QED
  BY <1>2, <1>4, KindPlaces

(* A sector is somewhere. *)
LEMMA TargetSomewhere ==
  ASSUME NEW q, IsRequest(q)
  PROVE  Target(q) # Nowhere
<1>1. q.drive \in 0 .. 3 /\ q.sector \in Nat
  BY DEF IsRequest, DriveSlots
<1> QED
  BY <1>1, SMTT(30) DEF Target, Nowhere

(* A wait that ends takes the request on, the last one to its end. *)
LEMMA WaitStep ==
  ASSUME NEW q, NEW r, NEW k, IsRequest(q), At(q, r, k), Head(q.todo).op = "wait"
  PROVE  /\ q.todo = <<Step("wait")>> => Over(With(q, Tail(q.todo), q.moved, 512))
         /\ q.todo # <<Step("wait")>> => Underway(With(q, Tail(q.todo), q.moved, 0), r)
<1> DEFINE P == Program(q)
           m == More(q)
           n == Len(P)
<1>1. NextAccess(q, k) /\ Placed(q, k)
  BY AtNext
<1>2. /\ k \in 1 .. n /\ n \in Nat /\ m \in {0, 3}
      /\ q.rw = "write" => n = 11 + m
      /\ q.rw # "write" => n = 10 + m
      /\ q.rw \in {"read", "write"}
  BY ProgramLength, MoreIs DEF At
<1>3. k = 1 \/ k = 3 \/ k = n
  BY <1>1 DEF NextAccess, Placed
<1>4. ASSUME q.todo = <<Step("wait")>> PROVE Over(With(q, Tail(q.todo), q.moved, 512))
  <2> DEFINE w == With(q, Tail(q.todo), q.moved, 512)
  <2>1. Same(q, w, Tail(q.todo), q.moved, 512)
    BY SameProgram
  <2> HIDE DEF w, n
  <2>2. k = n
    <3>1. ~ (k < n)
      BY <1>1, <1>4 DEF NextAccess, n
    <3> QED
      BY <3>1, <1>2, SMTT(30)
  <2>3. Tail(q.todo) = <<>>
    BY <1>1, <2>2 DEF NextAccess, n
  <2>4. k > 8 + m /\ k > 9 + m
    BY <1>2, <2>2, SMTT(30)
  <2>5. q.moved = Target(q) /\ q.sector < Dev(q).totalsectors
    BY <2>4 DEF At, Progress
  <2>6. Target(q) # Nowhere
    BY TargetSomewhere
  <2>7. Over(w)
    BY <2>1, <2>3, <2>5, <2>6 DEF Over, Same
  <2> QED
    BY <2>7 DEF w
<1>5. ASSUME q.todo # <<Step("wait")>> PROVE Underway(With(q, Tail(q.todo), q.moved, 0), r)
  <2> DEFINE w == With(q, Tail(q.todo), q.moved, 0)
  <2>1. Same(q, w, Tail(q.todo), q.moved, 0)
    BY SameProgram
  <2> HIDE DEF w
  <2>2. k # n
    <3> SUFFICES ASSUME k = n PROVE FALSE
      OBVIOUS
    <3>1. P[n] = Step("wait")
      BY ProgramAccesses DEF Accessed
    <3> QED
      BY <3>1, <1>1, <1>5 DEF NextAccess
  <2>3. (k = 1 \/ k = 3) /\ k < n /\ k \in Nat
    <3> HIDE DEF n
    <3> QED
      BY <1>2, <1>3, <2>2, SMTT(30)
  <2>4. Registers(q, r, k)
    BY DEF At
  <2>5. Registers(q, r, k + 1)
    BY <2>3, <2>4, RegistersKept
  <2>6. ~ (k + 1 > 7 + m) /\ k + 1 # 8 + m /\ ~ (k + 1 > 8 + m) /\ ~ (k + 1 > 9 + m)
    <3> HIDE DEF m
    <3> QED
      BY <1>2, <2>3, SMTT(30)
  <2>7. More(w) = m
    BY <2>1 DEF Same
  <2> HIDE DEF m
  <2>8. Progress(w, r, k + 1)
    BY <2>6, <2>7 DEF Progress
  <2> QED
    BY <2>3, <2>5, <2>8, Advance DEF w
<1> QED
  BY <1>4, <1>5

(* The command has been taken: without an error the sector is there, and   *)
(* with one the request ends with 0.                                       *)
LEMMA CheckStep ==
  ASSUME NEW q, NEW r, NEW k, IsRequest(q), At(q, r, k), Head(q.todo).op = "check", ~ r.busy
  PROVE  /\ Over(With(q, <<>>, q.moved, 0))
         /\ r.drq => Underway(With(q, Tail(q.todo), q.moved, 0), r)
<1> DEFINE m == More(q)
<1>1. NextAccess(q, k) /\ Placed(q, k)
  BY AtNext
<1>2. k = 8 + m
  BY <1>1 DEF NextAccess, Placed
<1>3. Over(With(q, <<>>, q.moved, 0))
  <2> DEFINE w == With(q, <<>>, q.moved, 0)
  <2>1. Same(q, w, <<>>, q.moved, 0)
    BY SameProgram
  <2> HIDE DEF w
  <2>2. 0 # 512
    BY SMTT(30)
  <2>3. Over(w)
    BY <2>1, <2>2 DEF Over, Same
  <2> QED
    BY <2>3 DEF w
<1>4. ASSUME r.drq PROVE Underway(With(q, Tail(q.todo), q.moved, 0), r)
  <2> DEFINE w == With(q, Tail(q.todo), q.moved, 0)
             n == Len(Program(q))
  <2>1. Same(q, w, Tail(q.todo), q.moved, 0)
    BY SameProgram
  <2>2. /\ k \in 1 .. n /\ n \in Nat /\ m \in {0, 3}
        /\ q.rw = "write" => n = 11 + m
        /\ q.rw # "write" => n = 10 + m
    BY ProgramLength, MoreIs DEF At
  <2> HIDE DEF w, n, m
  <2>3. /\ k < n /\ k \in Nat /\ k > 6 + m /\ k > 7 + m /\ k <= 9 + m
        /\ ~ (k + 1 > 9 + m) /\ k + 1 # 8 + m
    BY <1>2, <2>2, SMTT(30)
  <2>4. Registers(q, r, k) /\ Progress(q, r, k)
    BY DEF At
  <2>5. Registers(q, r, k + 1)
    BY <2>3, <2>4, RegistersKept DEF m
  <2>6. r.at = Target(q) /\ q.sector < Dev(q).totalsectors
    BY <1>2, <1>4, <2>3, <2>4 DEF Progress, m
  <2>7. More(w) = m /\ Target(w) = Target(q) /\ Dev(w) = Dev(q) /\ w.sector = q.sector
    BY <2>1 DEF Same, m
  <2>8. Progress(w, r, k + 1)
    BY <2>3, <2>6, <2>7 DEF Progress
  <2> QED
    BY <2>3, <2>5, <2>8, Advance DEF w, n
<1> QED
  BY <1>3, <1>4

(* The data go to or come from the sector asked for. *)
LEMMA DataStep ==
  ASSUME NEW q, NEW r, NEW k, IsRequest(q), At(q, r, k), Head(q.todo).op = "data", NEW r2,
         r2.slave = r.slave, r2.head = r.head, r2.lba = r.lba, r2.previous = r.previous
  PROVE  r.at = Target(q) /\ Underway(With(q, Tail(q.todo), r.at, 0), r2)
<1> DEFINE m == More(q)
           w == With(q, Tail(q.todo), r.at, 0)
           n == Len(Program(q))
<1>1. NextAccess(q, k) /\ Placed(q, k)
  BY AtNext
<1>2. k = 9 + m
  BY <1>1 DEF NextAccess, Placed
<1>3. Same(q, w, Tail(q.todo), r.at, 0)
  BY SameProgram
<1>4. /\ k \in 1 .. n /\ n \in Nat /\ m \in {0, 3}
      /\ q.rw = "write" => n = 11 + m
      /\ q.rw # "write" => n = 10 + m
  BY ProgramLength, MoreIs DEF At
<1> HIDE DEF w, n, m
<1>5. /\ k < n /\ k \in Nat /\ k > 6 + m /\ k > 7 + m /\ k <= 9 + m /\ k > 8 + m
      /\ ~ (k + 1 <= 9 + m) /\ k + 1 # 8 + m
  BY <1>2, <1>4, SMTT(30)
<1>6. Registers(q, r, k) /\ Progress(q, r, k)
  BY DEF At
<1>7. Registers(q, r2, k + 1)
  BY <1>5, <1>6, RegistersKept DEF m
<1>8. r.at = Target(q) /\ q.sector < Dev(q).totalsectors
  BY <1>5, <1>6 DEF Progress, m
<1>9. /\ More(w) = m /\ Target(w) = Target(q) /\ Dev(w) = Dev(q) /\ w.sector = q.sector
      /\ w.moved = r.at
  BY <1>3 DEF Same, m
<1>10. Progress(w, r2, k + 1)
  BY <1>5, <1>8, <1>9 DEF Progress
<1> QED
  BY <1>5, <1>7, <1>8, <1>10, Advance DEF w, n

-----------------------------------------------------------------------------
(* The registers by name. *)
Regs(slave, head, lba, previous, command, busy, drq, err, at) ==
  [slave |-> slave, head |-> head, lba |-> lba, previous |-> previous, command |-> command,
   busy |-> busy, drq |-> drq, err |-> err, at |-> at]

(* One register is replaced. *)
Puts(s, h, l, p, cm, bu, dr, er, at, x) ==
  /\ [Regs(s, h, l, p, cm, bu, dr, er, at) EXCEPT !.slave = x] = Regs(x, h, l, p, cm, bu, dr, er, at)
  /\ [Regs(s, h, l, p, cm, bu, dr, er, at) EXCEPT !.head = x] = Regs(s, x, l, p, cm, bu, dr, er, at)
  /\ [Regs(s, h, l, p, cm, bu, dr, er, at) EXCEPT !.lba = x] = Regs(s, h, x, p, cm, bu, dr, er, at)
  /\ [Regs(s, h, l, p, cm, bu, dr, er, at) EXCEPT !.previous = x] = Regs(s, h, l, x, cm, bu, dr, er, at)
  /\ [Regs(s, h, l, p, cm, bu, dr, er, at) EXCEPT !.command = x] = Regs(s, h, l, p, x, bu, dr, er, at)
  /\ [Regs(s, h, l, p, cm, bu, dr, er, at) EXCEPT !.busy = x] = Regs(s, h, l, p, cm, x, dr, er, at)
  /\ [Regs(s, h, l, p, cm, bu, dr, er, at) EXCEPT !.drq = x] = Regs(s, h, l, p, cm, bu, x, er, at)
  /\ [Regs(s, h, l, p, cm, bu, dr, er, at) EXCEPT !.err = x] = Regs(s, h, l, p, cm, bu, dr, x, at)
  /\ [Regs(s, h, l, p, cm, bu, dr, er, at) EXCEPT !.at = x] = Regs(s, h, l, p, cm, bu, dr, er, x)

(* The fields of a channel that was given them all. *)
LEMMA PutRegs ==
  ASSUME NEW s, NEW h, NEW l, NEW p, NEW cm, NEW bu, NEW dr, NEW er, NEW at, NEW x
  PROVE  Puts(s, h, l, p, cm, bu, dr, er, at, x)
BY SMTT(30) DEF Puts, Regs

(* A channel is its fields. *)
LEMMA ChannelRegs ==
  ASSUME NEW r, IsChannel(r)
  PROVE  r = Regs(r.slave, r.head, r.lba, r.previous, r.command, r.busy, r.drq, r.err, r.at)
BY DEF IsChannel, Regs

(* What a write to each register does. *)
LEMMA WrittenSelect ==
  ASSUME NEW r, IsChannel(r), NEW c, NEW x, NEW y
  PROVE  Written(c, r, "HDDSEL", [slave |-> x, head |-> y])
           = Regs(x, y, r.lba, r.previous, r.command, r.busy, r.drq, r.err, r.at)
<1>1. Written(c, r, "HDDSEL", [slave |-> x, head |-> y])
        = [[r EXCEPT !.slave = x] EXCEPT !.head = y]
  BY DEF Written
<1>2. r = Regs(r.slave, r.head, r.lba, r.previous, r.command, r.busy, r.drq, r.err, r.at)
  BY ChannelRegs
<1>3. [r EXCEPT !.slave = x]
        = Regs(x, r.head, r.lba, r.previous, r.command, r.busy, r.drq, r.err, r.at)
  <2>1. Puts(r.slave, r.head, r.lba, r.previous, r.command, r.busy, r.drq, r.err, r.at, x)
    BY PutRegs
  <2> QED
    BY <1>2, <2>1 DEF Puts
<1>4. Puts(x, r.head, r.lba, r.previous, r.command, r.busy, r.drq, r.err, r.at, y)
  BY PutRegs
<1> QED
  BY <1>1, <1>3, <1>4 DEF Puts

(* A command makes the drive busy with the sector addressed. *)
LEMMA WrittenCommand ==
  ASSUME NEW r, IsChannel(r), NEW c, NEW rw, NEW mode
  PROVE  Written(c, r, "COMMAND", [rw |-> rw, lba_mode |-> mode])
           = Regs(r.slave, r.head, r.lba, r.previous, rw, TRUE, FALSE, FALSE,
                  IF rw = "flush" THEN Nowhere ELSE Addressed(c, r, mode))
<1> DEFINE a == IF rw = "flush" THEN Nowhere ELSE Addressed(c, r, mode)
           v1 == [r EXCEPT !.command = rw]
           v2 == [v1 EXCEPT !.busy = TRUE]
           v3 == [v2 EXCEPT !.drq = FALSE]
           v4 == [v3 EXCEPT !.err = FALSE]
           v5 == [v4 EXCEPT !.at = a]
<1>1. Written(c, r, "COMMAND", [rw |-> rw, lba_mode |-> mode]) = v5
  BY DEF Written
<1>2. r = Regs(r.slave, r.head, r.lba, r.previous, r.command, r.busy, r.drq, r.err, r.at)
  BY ChannelRegs
<1> HIDE DEF a
<1>3. v1 = Regs(r.slave, r.head, r.lba, r.previous, rw, r.busy, r.drq, r.err, r.at)
  <2>1. Puts(r.slave, r.head, r.lba, r.previous, r.command, r.busy, r.drq, r.err, r.at, rw)
    BY PutRegs
  <2> QED
    BY <1>2, <2>1 DEF Puts
<1> HIDE DEF v1
<1>4. v2 = Regs(r.slave, r.head, r.lba, r.previous, rw, TRUE, r.drq, r.err, r.at)
  <2>1. Puts(r.slave, r.head, r.lba, r.previous, rw, r.busy, r.drq, r.err, r.at, TRUE)
    BY PutRegs
  <2> QED
    BY <1>3, <2>1 DEF Puts
<1> HIDE DEF v2
<1>5. v3 = Regs(r.slave, r.head, r.lba, r.previous, rw, TRUE, FALSE, r.err, r.at)
  <2>1. Puts(r.slave, r.head, r.lba, r.previous, rw, TRUE, r.drq, r.err, r.at, FALSE)
    BY PutRegs
  <2> QED
    BY <1>4, <2>1 DEF Puts
<1> HIDE DEF v3
<1>6. v4 = Regs(r.slave, r.head, r.lba, r.previous, rw, TRUE, FALSE, FALSE, r.at)
  <2>1. Puts(r.slave, r.head, r.lba, r.previous, rw, TRUE, FALSE, r.err, r.at, FALSE)
    BY PutRegs
  <2> QED
    BY <1>5, <2>1 DEF Puts
<1> HIDE DEF v4
<1>7. v5 = Regs(r.slave, r.head, r.lba, r.previous, rw, TRUE, FALSE, FALSE, a)
  <2>1. Puts(r.slave, r.head, r.lba, r.previous, rw, TRUE, FALSE, FALSE, r.at, a)
    BY PutRegs
  <2> QED
    BY <1>6, <2>1 DEF Puts
<1> QED
  BY <1>1, <1>7 DEF a

(* These are registers of a channel. *)
LEMMA RegsChannel ==
  ASSUME NEW slave, NEW head, NEW lba \in [1 .. 3 -> Nat], NEW previous \in [1 .. 3 -> Nat],
         NEW command, NEW busy, NEW drq, NEW err, NEW at
  PROVE  IsChannel(Regs(slave, head, lba, previous, command, busy, drq, err, at))
BY DEF IsChannel, Regs

-----------------------------------------------------------------------------
(* The registers are ready for the access behind the k-th one. *)
Ready(q, r2, k) ==
  /\ IsChannel(r2) /\ k < Len(Program(q))
  /\ Registers(q, r2, k + 1)
  /\ Progress(With(q, Tail(q.todo), q.moved, 0), r2, k + 1)

(* Nothing has come of a request before its command. *)
LEMMA EarlyProgress ==
  ASSUME NEW q, NEW r2, NEW k \in Nat, k < 7 + More(q)
  PROVE  Progress(With(q, Tail(q.todo), q.moved, 0), r2, k + 1)
<1> DEFINE w == With(q, Tail(q.todo), q.moved, 0)
           m == More(q)
<1>1. Same(q, w, Tail(q.todo), q.moved, 0)
  BY SameProgram
<1>2. m \in {0, 3} /\ k < 7 + m
  BY MoreIs
<1> HIDE DEF w, m
<1>3. ~ (k + 1 > 7 + m) /\ k + 1 # 8 + m /\ ~ (k + 1 > 8 + m) /\ ~ (k + 1 > 9 + m)
  BY <1>2, SMTT(30)
<1>4. More(w) = m
  BY <1>1 DEF Same, m
<1>5. Progress(w, r2, k + 1)
  BY <1>3, <1>4 DEF Progress
<1> QED
  BY <1>5 DEF w

(* The selection of the drive leaves the registers as the program needs    *)
(* them next.                                                              *)
LEMMA SelectReady ==
  ASSUME NEW q, NEW r, NEW k, IsChannel(r), At(q, r, k), k = 2, NEW c
  PROVE  Ready(q, Written(c, r, Program(q)[k].reg, Program(q)[k].value), k)
<1> DEFINE P == Program(q)
           r2 == Regs(Dev(q).drive, HeadBits(q), r.lba, r.previous, r.command, r.busy,
                      r.drq, r.err, r.at)
<1>1. P[2] = SelectDrive(Dev(q), q.sector)
  BY ProgramAccesses DEF Accessed
<1>2. /\ P[k].reg = "HDDSEL"
      /\ P[k].value = [slave |-> Dev(q).drive, head |-> HeadBits(q)]
  <2> DEFINE v == SelectDrive(Dev(q), q.sector)
  <2>1. v.reg = "HDDSEL" /\ v.value = [slave |-> Dev(q).drive, head |-> HeadBits(q)]
    BY DEF SelectDrive, Out, HeadBits
  <2>2. P[k] = v
    BY <1>1
  <2> HIDE DEF v, P
  <2> QED
    BY <2>1, <2>2
<1>3. Written(c, r, "HDDSEL", [slave |-> Dev(q).drive, head |-> HeadBits(q)]) = r2
  BY WrittenSelect
<1>4. r.lba \in [1 .. 3 -> Nat] /\ r.previous \in [1 .. 3 -> Nat]
  BY DEF IsChannel
<1>5. IsChannel(r2)
  BY <1>4, RegsChannel
<1>6. r2.slave = Dev(q).drive /\ r2.head = HeadBits(q)
  BY DEF Regs
<1> HIDE DEF r2
<1>7. \A j \in 1 .. 3 : ~ (k + 1 > 3 + j)
  BY SMTT(30)
<1>8. ASSUME NEW j \in 1 .. 3 PROVE ~ (k + 1 > 3 + More(q) + j)
  <2>1. More(q) \in {0, 3}
    BY MoreIs
  <2> QED
    BY <2>1, SMTT(30)
<1>9. Registers(q, r2, k + 1)
  BY <1>6, <1>7, <1>8 DEF Registers
<1>10. k \in Nat /\ k < 7 + More(q) /\ k < Len(Program(q))
  <2>1. /\ More(q) \in {0, 3} /\ Len(P) \in Nat
        /\ q.rw = "write" => Len(P) = 11 + More(q)
        /\ q.rw # "write" => Len(P) = 10 + More(q)
    BY MoreIs, ProgramLength
  <2> HIDE DEF P
  <2>2. k < Len(P) /\ k < 7 + More(q) /\ k \in Nat
    BY <2>1, SMTT(30)
  <2> QED
    BY <2>2 DEF P
<1>11. Ready(q, r2, k)
  BY <1>5, <1>9, <1>10, EarlyProgress DEF Ready
<1> QED
  BY <1>2, <1>3, <1>11

(* The bytes of a number are numbers. *)
LEMMA BytesAre ==
  ASSUME NEW n \in Nat, NEW j \in 1 .. 3
  PROVE  LowBytes(n)[j] \in Nat
BY Rebuilt

(* One byte of the number goes out: the register keeps the one before. *)
ByteIn(r, r2, i, b) ==
  /\ IsChannel(r2) /\ r2.slave = r.slave /\ r2.head = r.head
  /\ r2.lba[i] = b /\ r2.previous[i] = r.lba[i]
  /\ \A j \in 1 .. 3 : j # i => r2.lba[j] = r.lba[j] /\ r2.previous[j] = r.previous[j]

(* A byte written to an address register moves the previous one on. *)
LEMMA ByteRegs ==
  ASSUME NEW r, IsChannel(r), NEW c, NEW x, NEW i \in 1 .. 3, NEW b \in Nat,
         x = Out("LBA", [reg |-> i, byte |-> b])
  PROVE  ByteIn(r, Written(c, r, x.reg, x.value), i, b)
<1> DEFINE l == [r.lba EXCEPT ![i] = b]
           p == [r.previous EXCEPT ![i] = r.lba[i]]
           r2 == Regs(r.slave, r.head, l, p, r.command, r.busy, r.drq, r.err, r.at)
<1>1. x.reg = "LBA" /\ x.value = [reg |-> i, byte |-> b]
  BY DEF Out
<1>3. r.lba \in [1 .. 3 -> Nat] /\ r.previous \in [1 .. 3 -> Nat]
  BY DEF IsChannel
<1>4. /\ l \in [1 .. 3 -> Nat] /\ p \in [1 .. 3 -> Nat] /\ l[i] = b /\ p[i] = r.lba[i]
      /\ \A j \in 1 .. 3 : j # i => l[j] = r.lba[j] /\ p[j] = r.previous[j]
  BY <1>3
<1>0. l = [r.lba EXCEPT ![i] = b] /\ p = [r.previous EXCEPT ![i] = r.lba[i]]
  OBVIOUS
<1> HIDE DEF l, p
<1>2. Written(c, r, x.reg, x.value) = r2
  <2> DEFINE v == [r EXCEPT !.previous = p]
  <2>1. Written(c, r, x.reg, x.value) = [v EXCEPT !.lba = [v.lba EXCEPT ![i] = b]]
    <3>1. Written(c, r, "LBA", [reg |-> i, byte |-> b])
            = [r EXCEPT !.previous[i] = r.lba[i], !.lba[i] = b]
      BY DEF Written
    <3>2. [r EXCEPT !.previous[i] = r.lba[i], !.lba[i] = b]
            = [v EXCEPT !.lba = [v.lba EXCEPT ![i] = b]]
      BY DEF p
    <3> QED
      BY <1>1, <3>1, <3>2
  <2>2. r = Regs(r.slave, r.head, r.lba, r.previous, r.command, r.busy, r.drq, r.err, r.at)
    BY ChannelRegs
  <2>3. v = Regs(r.slave, r.head, r.lba, p, r.command, r.busy, r.drq, r.err, r.at)
    <3>1. Puts(r.slave, r.head, r.lba, r.previous, r.command, r.busy, r.drq, r.err, r.at, p)
      BY PutRegs
    <3> QED
      BY <2>2, <3>1 DEF Puts
  <2> HIDE DEF v
  <2>4. v.lba = r.lba
    BY <2>3 DEF Regs
  <2>5. [v EXCEPT !.lba = l] = r2
    <3>1. Puts(r.slave, r.head, r.lba, p, r.command, r.busy, r.drq, r.err, r.at, l)
      BY PutRegs
    <3> QED
      BY <2>3, <3>1 DEF Puts
  <2> QED
    BY <2>1, <2>4, <2>5, <1>0
<1>5. IsChannel(r2)
  BY <1>4, RegsChannel
<1>6. r2.slave = r.slave /\ r2.head = r.head /\ r2.lba = l /\ r2.previous = p
  BY DEF Regs
<1> HIDE DEF r2
<1> QED
  BY <1>2, <1>4, <1>5, <1>6 DEF ByteIn

(* So do the high bytes of a 48-bit number, ... *)
LEMMA HighReady ==
  ASSUME NEW q, NEW r, NEW k, IsRequest(q), IsChannel(r), At(q, r, k), NEW c,
         Dev(q).lba_mode = 2, NEW i \in 1 .. 3, k = 3 + i
  PROVE  Ready(q, Written(c, r, Program(q)[k].reg, Program(q)[k].value), k)
<1> DEFINE x == Program(q)[k]
           r2 == Written(c, r, x.reg, x.value)
           u == Upper(q.sector)
           b == LowBytes(u)[i]
<1>0. q.sector \in Nat
  BY DEF IsRequest
<1>1. u \in Nat
  BY <1>0, Rebuilt
<1>2. b \in Nat
  BY <1>1, BytesAre
<1>3. x = Out("LBA", [reg |-> i, byte |-> b])
  <2>1. Program(q)[3 + i] = OutHigh(q.sector)[i]
    BY ProgramAccesses DEF Accessed
  <2> QED
    BY <2>1 DEF OutHigh, OutLba
<1> HIDE DEF x, b
<1>4. ByteIn(r, r2, i, b)
  BY <1>2, <1>3, ByteRegs
<1> HIDE DEF r2
<1>5. Registers(q, r, k)
  BY DEF At
<1>6. More(q) = 3
  BY MoreIs
<1>7. k \in Nat /\ k > 2 /\ k < 7 + More(q)
  BY <1>6, SMTT(30)
<1>8. r2.slave = Dev(q).drive /\ r2.head = HeadBits(q)
  BY <1>4, <1>5, <1>7 DEF Registers, ByteIn
<1>9. ASSUME NEW j \in 1 .. 3, k + 1 > 3 + j, k + 1 <= 6 + j
      PROVE  r2.lba[j] = LowBytes(u)[j]
  <2>1. CASE j = i
    BY <2>1, <1>4 DEF ByteIn, b
  <2>2. CASE j # i
    <3>1. k > 3 + j /\ k <= 6 + j
      BY <1>9, <2>2, SMTT(30)
    <3>2. r.lba[j] = LowBytes(u)[j]
      BY <3>1, <1>5 DEF Registers
    <3> QED
      BY <3>2, <2>2, <1>4 DEF ByteIn
  <2> QED
    BY <2>1, <2>2
<1>10. ASSUME NEW j \in 1 .. 3 PROVE ~ (k + 1 > 3 + More(q) + j)
  BY <1>6, SMTT(30)
<1>11. Registers(q, r2, k + 1)
  BY <1>8, <1>9, <1>10 DEF Registers
<1>12. k < Len(Program(q))
  <2> DEFINE n == Len(Program(q))
  <2>1. /\ n \in Nat
        /\ q.rw = "write" => n = 11 + More(q)
        /\ q.rw # "write" => n = 10 + More(q)
    BY ProgramLength
  <2> HIDE DEF n
  <2>2. k < n
    BY <2>1, <1>6, SMTT(30)
  <2> QED
    BY <2>2 DEF n
<1>13. IsChannel(r2)
  BY <1>4 DEF ByteIn
<1>14. Ready(q, r2, k)
  BY <1>7, <1>11, <1>12, <1>13, EarlyProgress DEF Ready
<1> QED
  BY <1>14 DEF r2, x

(* ... and the low bytes of any, ... *)
LEMMA LowReady ==
  ASSUME NEW q, NEW r, NEW k, IsRequest(q), IsChannel(r), At(q, r, k), NEW c,
         NEW i \in 1 .. 3, k = 3 + More(q) + i
  PROVE  Ready(q, Written(c, r, Program(q)[k].reg, Program(q)[k].value), k)
<1> DEFINE x == Program(q)[k]
           r2 == Written(c, r, x.reg, x.value)
           u == Upper(q.sector)
           b == LowBytes(q.sector)[i]
           m == More(q)
<1>0. q.sector \in Nat
  BY DEF IsRequest
<1>2. b \in Nat
  BY <1>0, BytesAre
<1>3. x = Out("LBA", [reg |-> i, byte |-> b])
  <2>1. Program(q)[3 + More(q) + i] = OutLba(q.sector)[i]
    BY ProgramAccesses DEF Accessed
  <2> QED
    BY <2>1 DEF OutLba
<1> HIDE DEF x, b
<1>4. ByteIn(r, r2, i, b)
  BY <1>2, <1>3, ByteRegs
<1>5. Registers(q, r, k)
  BY DEF At
<1>6. m \in {0, 3} /\ (Dev(q).lba_mode = 2 => m = 3)
  BY MoreIs
<1>1. k = 3 + m + i
  OBVIOUS
<1> HIDE DEF r2, m
<1>7. k \in Nat /\ k > 2 /\ k < 7 + m
  BY <1>1, <1>6, SMTT(30)
<1>8. r2.slave = Dev(q).drive /\ r2.head = HeadBits(q)
  BY <1>4, <1>5, <1>7 DEF Registers, ByteIn
<1>9. ASSUME NEW j \in 1 .. 3, Dev(q).lba_mode = 2, k + 1 > 3 + j, k + 1 <= 6 + j
      PROVE  r2.lba[j] = LowBytes(u)[j]
  <2>1. m = 3
    BY <1>6, <1>9
  <2>2. j # i /\ k > 3 + j /\ k <= 6 + j
    BY <1>1, <1>9, <2>1, SMTT(30)
  <2>3. r.lba[j] = LowBytes(u)[j]
    BY <2>2, <1>5, <1>9 DEF Registers
  <2> QED
    BY <2>2, <2>3, <1>4 DEF ByteIn
<1>10. ASSUME NEW j \in 1 .. 3, k + 1 > 3 + m + j
       PROVE  /\ r2.lba[j] = LowBytes(q.sector)[j]
              /\ Dev(q).lba_mode = 2 => r2.previous[j] = LowBytes(u)[j]
  <2>1. CASE j = i
    <3>1. r2.lba[j] = LowBytes(q.sector)[j]
      BY <2>1, <1>4 DEF ByteIn, b
    <3>2. ASSUME Dev(q).lba_mode = 2 PROVE r2.previous[j] = LowBytes(u)[j]
      <4>1. m = 3
        BY <1>6, <3>2
      <4>2. k > 3 + i /\ k <= 6 + i
        BY <1>1, <4>1, SMTT(30)
      <4>3. r.lba[i] = LowBytes(u)[i]
        BY <4>2, <1>5, <3>2 DEF Registers
      <4> QED
        BY <4>3, <2>1, <1>4 DEF ByteIn
    <3> QED
      BY <3>1, <3>2
  <2>2. CASE j # i
    <3>1. k > 3 + m + j
      BY <1>1, <1>6, <1>10, <2>2, SMTT(30)
    <3>2. /\ r.lba[j] = LowBytes(q.sector)[j]
          /\ Dev(q).lba_mode = 2 => r.previous[j] = LowBytes(u)[j]
      BY <3>1, <1>5 DEF Registers, m
    <3> QED
      BY <3>2, <2>2, <1>4 DEF ByteIn
  <2> QED
    BY <2>1, <2>2
<1>11. Registers(q, r2, k + 1)
  BY <1>8, <1>9, <1>10 DEF Registers, m
<1>12. k < Len(Program(q))
  <2> DEFINE n == Len(Program(q))
  <2>1. /\ n \in Nat
        /\ q.rw = "write" => n = 11 + m
        /\ q.rw # "write" => n = 10 + m
    BY ProgramLength DEF m
  <2> HIDE DEF n
  <2>2. k < n
    BY <2>1, <1>1, <1>6, SMTT(30)
  <2> QED
    BY <2>2 DEF n
<1>13. IsChannel(r2)
  BY <1>4 DEF ByteIn
<1>14. Ready(q, r2, k)
  BY <1>7, <1>11, <1>12, <1>13, EarlyProgress DEF Ready, m
<1> QED
  BY <1>14 DEF r2, x

(* The command finds the number in the registers. *)
LEMMA CommandReady ==
  ASSUME NEW q, NEW r, NEW k, IsRequest(q), IsChannel(r), At(q, r, k), k = 7 + More(q)
  PROVE  Ready(q, Written(Dev(q).channel, r, Program(q)[k].reg, Program(q)[k].value), k)
<1> DEFINE x == Program(q)[k]
           c == Dev(q).channel
           mode == Dev(q).lba_mode
           r2 == Written(c, r, x.reg, x.value)
           w == With(q, Tail(q.todo), q.moved, 0)
           m == More(q)
           n == Len(Program(q))
<1>1. x.reg = "COMMAND" /\ x.value = [rw |-> q.rw, lba_mode |-> mode]
  <2>1. x = Command(q)
    BY ProgramAccesses DEF Accessed
  <2> HIDE DEF x
  <2> QED
    BY <2>1 DEF Command, Out
<1>2. /\ q.rw \in {"read", "write"} /\ q.sector <= Dev(q).totalsectors
      /\ Registers(q, r, k) /\ Progress(q, r, k)
  BY DEF At
<1>3. r2 = Regs(r.slave, r.head, r.lba, r.previous, q.rw, TRUE, FALSE, FALSE,
                Addressed(c, r, mode))
  <2>1. q.rw # "flush"
    BY <1>2
  <2>2. Written(c, r, "COMMAND", [rw |-> q.rw, lba_mode |-> mode])
          = Regs(r.slave, r.head, r.lba, r.previous, q.rw, TRUE, FALSE, FALSE,
                 IF q.rw = "flush" THEN Nowhere ELSE Addressed(c, r, mode))
    BY WrittenCommand
  <2> HIDE DEF x, c, mode
  <2> QED
    BY <2>1, <2>2, <1>1
<1>4. /\ m \in {0, 3} /\ n \in Nat
      /\ q.rw = "write" => n = 11 + m
      /\ q.rw # "write" => n = 10 + m
      /\ k = 7 + m
  BY MoreIs, ProgramLength
<1>5. Same(q, w, Tail(q.todo), q.moved, 0)
  BY SameProgram
<1>6. r.lba \in [1 .. 3 -> Nat] /\ r.previous \in [1 .. 3 -> Nat]
  BY DEF IsChannel
<1> HIDE DEF x, r2, w, m, n
<1>7. /\ k \in Nat /\ k < n /\ k > 2 /\ k > 6 + m
      /\ k + 1 = 8 + m /\ ~ (k + 1 > 8 + m) /\ ~ (k + 1 > 9 + m)
      /\ \A j \in 1 .. 3 : k > 3 + m + j
  BY <1>4, SMTT(30)
<1>8. Addressed(c, r, mode) = Target(q)
  <2>1. r.slave = Dev(q).drive /\ r.head = HeadBits(q)
    BY <1>2, <1>7 DEF Registers
  <2>2. \A j \in 1 .. 3 : r.lba[j] = LowBytes(q.sector)[j]
    BY <1>2, <1>7 DEF Registers, m
  <2>4. Dev(q).lba_mode = 2 =>
          \A j \in 1 .. 3 : r.previous[j] = LowBytes(Upper(q.sector))[j]
    BY <1>2, <1>7 DEF Registers, m
  <2>3. q.drive \in DriveSlots /\ q.sector \in Nat
    BY DEF IsRequest
  <2> QED
    BY <1>2, <2>1, <2>2, <2>3, <2>4, AddressRight
<1>9. IsChannel(r2)
  BY <1>3, <1>6, RegsChannel
<1>10. /\ r2.slave = r.slave /\ r2.head = r.head /\ r2.lba = r.lba /\ r2.previous = r.previous
       /\ r2.busy = TRUE /\ r2.at = Target(q)
  BY <1>3, <1>8 DEF Regs
<1>11. Registers(q, r2, k + 1)
  BY <1>2, <1>7, <1>10, RegistersKept DEF m
<1>12. More(w) = m /\ Target(w) = Target(q)
  BY <1>5 DEF Same, m
<1>13. Progress(w, r2, k + 1)
  BY <1>7, <1>10, <1>12 DEF Progress
<1>14. Ready(q, r2, k)
  BY <1>7, <1>9, <1>11, <1>13 DEF Ready, w, n
<1> QED
  BY <1>14 DEF r2, x

(* ... and the flush at the end of a write. *)
LEMMA FlushReady ==
  ASSUME NEW q, NEW r, NEW k, IsRequest(q), IsChannel(r), At(q, r, k), q.rw = "write",
         k = 10 + More(q), NEW c
  PROVE  Ready(q, Written(c, r, Program(q)[k].reg, Program(q)[k].value), k)
<1> DEFINE x == Program(q)[k]
           r2 == Written(c, r, x.reg, x.value)
           w == With(q, Tail(q.todo), q.moved, 0)
           m == More(q)
           n == Len(Program(q))
           a == IF "flush" = "flush" THEN Nowhere ELSE Addressed(c, r, 1)
<1>1. x.reg = "COMMAND" /\ x.value = [rw |-> "flush", lba_mode |-> 1]
  <2>1. x = Flush
    BY ProgramAccesses DEF Accessed
  <2> HIDE DEF x
  <2> QED
    BY <2>1 DEF Flush, Out
<1>2. Registers(q, r, k) /\ Progress(q, r, k)
  BY DEF At
<1>3. r2 = Regs(r.slave, r.head, r.lba, r.previous, "flush", TRUE, FALSE, FALSE, a)
  <2>1. Written(c, r, "COMMAND", [rw |-> "flush", lba_mode |-> 1])
          = Regs(r.slave, r.head, r.lba, r.previous, "flush", TRUE, FALSE, FALSE, a)
    BY WrittenCommand
  <2> HIDE DEF x, a
  <2> QED
    BY <2>1, <1>1
<1>4. m \in {0, 3} /\ n = 11 + m /\ k = 10 + m
  BY MoreIs, ProgramLength
<1>5. Same(q, w, Tail(q.todo), q.moved, 0)
  BY SameProgram
<1>6. r.lba \in [1 .. 3 -> Nat] /\ r.previous \in [1 .. 3 -> Nat]
  BY DEF IsChannel
<1> HIDE DEF x, r2, w, m, n, a
<1>7. /\ k \in Nat /\ k < n /\ k > 6 + m /\ k > 8 + m /\ k > 9 + m
      /\ ~ (k + 1 <= 9 + m) /\ k + 1 # 8 + m
  BY <1>4, SMTT(30)
<1>9. IsChannel(r2)
  BY <1>3, <1>6, RegsChannel
<1>10. r2.slave = r.slave /\ r2.head = r.head /\ r2.lba = r.lba /\ r2.previous = r.previous
  BY <1>3 DEF Regs
<1>11. Registers(q, r2, k + 1)
  BY <1>2, <1>7, <1>10, RegistersKept DEF m
<1>12. /\ More(w) = m /\ Target(w) = Target(q) /\ Dev(w) = Dev(q) /\ w.sector = q.sector
       /\ w.moved = q.moved
  BY <1>5 DEF Same, m
<1>13. q.sector < Dev(q).totalsectors /\ q.moved = Target(q)
  BY <1>2, <1>7 DEF Progress, m
<1>14. Progress(w, r2, k + 1)
  BY <1>7, <1>12, <1>13 DEF Progress
<1>15. Ready(q, r2, k)
  BY <1>7, <1>9, <1>11, <1>14 DEF Ready, w, n
<1> QED
  BY <1>15 DEF r2, x

(* A write to a port takes the request on. *)
LEMMA WriteStep ==
  ASSUME NEW q, NEW r, NEW k, IsRequest(q), IsChannel(r), At(q, r, k), Head(q.todo).op = "out"
  PROVE  LET r2 == Written(Dev(q).channel, r, Head(q.todo).reg, Head(q.todo).value)
         IN  IsChannel(r2) /\ Underway(With(q, Tail(q.todo), q.moved, 0), r2)
<1> DEFINE c == Dev(q).channel
           r2 == Written(c, r, Program(q)[k].reg, Program(q)[k].value)
<1>1. NextAccess(q, k) /\ Placed(q, k)
  BY AtNext
<1>2. Head(q.todo) = Program(q)[k]
  BY <1>1 DEF NextAccess
<1>3. \/ k = 2
      \/ Dev(q).lba_mode = 2 /\ \E j \in 1 .. 3 : k = 3 + j
      \/ \E j \in 1 .. 3 : k = 3 + More(q) + j
      \/ k = 7 + More(q)
      \/ q.rw = "write" /\ k = 10 + More(q)
  BY <1>1, <1>2 DEF Placed
<1>4. Ready(q, r2, k)
  BY <1>3, SelectReady, HighReady, LowReady, CommandReady, FlushReady
<1> HIDE DEF r2
<1>5. Underway(With(q, Tail(q.todo), q.moved, 0), r2)
  BY <1>4, Advance DEF Ready
<1> QED
  BY <1>2, <1>4, <1>5 DEF Ready, r2

-----------------------------------------------------------------------------
(* A request with accesses left is under way. *)
LEMMA ActiveUnderway ==
  ASSUME IDEInv, NEW t \in Clients, Active(t)
  PROVE  /\ IsRequest(request[t]) /\ ChannelOf(t) \in Channels
         /\ ChannelOf(t) = Dev(request[t]).channel
         /\ IsChannel(channel[ChannelOf(t)])
         /\ \E k : At(request[t], channel[ChannelOf(t)], k)
<1>1. IsRequest(request[t])
  BY DEF IDEInv
<1>2. ChannelOf(t) \in Channels /\ ChannelOf(t) = Dev(request[t]).channel
  <2>1. request[t].drive \in DriveSlots
    BY <1>1 DEF IsRequest
  <2> QED
    BY <2>1, Devices DEF ChannelOf, Dev
<1>3. IsChannel(channel[ChannelOf(t)])
  BY <1>2 DEF IDEInv
<1>4. ~ Over(request[t])
  BY DEF Over, Active
<1>5. Underway(request[t], channel[ChannelOf(t)])
  BY <1>4 DEF IDEInv
<1> QED
  BY <1>1, <1>2, <1>3, <1>5, UnderwayAt

(* A step of one request and of its channel: the others are on the other   *)
(* channel.                                                                *)
LEMMA OneStep ==
  ASSUME IDEInv, NEW t \in Clients, Active(t), NEW q2, NEW r2,
         q2.drive = request[t].drive, IsRequest(q2), IsChannel(r2),
         Over(q2) \/ Underway(q2, r2),
         request' = [request EXCEPT ![t] = q2],
         channel' = [channel EXCEPT ![ChannelOf(t)] = r2]
  PROVE  IDEInv'
<1> DEFINE c == ChannelOf(t)
<1>0. c \in Channels
  BY ActiveUnderway
<1>1. /\ request = [u \in Clients |-> request[u]] /\ channel = [d \in Channels |-> channel[d]]
  BY DEF IDEInv
<1> HIDE DEF c
<1>2. /\ DOMAIN request' = Clients /\ request' = [u \in Clients |-> request'[u]]
      /\ request'[t] = q2
      /\ \A u \in Clients : u # t => request'[u] = request[u]
  BY <1>1
<1>3. /\ DOMAIN channel' = Channels /\ channel' = [d \in Channels |-> channel'[d]]
      /\ channel'[c] = r2
      /\ \A d \in Channels : d # c => channel'[d] = channel[d]
  BY <1>0, <1>1 DEF c
<1>4. ChannelOf(t)' = c
  BY <1>2 DEF ChannelOf, c
<1>5. ASSUME NEW u \in Clients, u # t
      PROVE  ChannelOf(u)' = ChannelOf(u) /\ Active(u)' = Active(u)
  BY <1>2, <1>5 DEF ChannelOf, Active
<1>6. \A d \in Channels : IsChannel(channel'[d])
  BY <1>3 DEF IDEInv
<1>7. ASSUME NEW u \in Clients
      PROVE  /\ IsRequest(request'[u])
             /\ Over(request'[u]) \/ Underway(request'[u], channel'[ChannelOf(u)'])
  <2>1. CASE u = t
    BY <2>1, <1>2, <1>3, <1>4
  <2>2. CASE u # t
    <3>1. request'[u] = request[u] /\ ChannelOf(u)' = ChannelOf(u) /\ IsRequest(request[u])
      BY <2>2, <1>2, <1>5 DEF IDEInv
    <3>2. CASE Over(request[u])
      BY <3>1, <3>2
    <3>3. CASE ~ Over(request[u])
      <4>1. Underway(request[u], channel[ChannelOf(u)])
        BY <3>3 DEF IDEInv
      <4>2. Active(u)
        <5>1. PICK k : At(request[u], channel[ChannelOf(u)], k)
          BY <4>1, UnderwayAt
        <5>2. NextAccess(request[u], k)
          BY <5>1, AtNext
        <5> QED
          BY <5>2 DEF NextAccess, Active
      <4>3. ChannelOf(u) # c
        BY <4>2, <2>2 DEF IDEInv, c
      <4>4. ChannelOf(u) \in Channels
        BY <4>2, ActiveUnderway
      <4> QED
        BY <4>1, <4>3, <4>4, <3>1, <1>3
    <3> QED
      BY <3>2, <3>3
  <2> QED
    BY <2>1, <2>2
<1>8. ASSUME NEW u \in Clients, NEW v \in Clients, u # v, Active(u)', Active(v)'
      PROVE  ChannelOf(u)' # ChannelOf(v)'
  <2>1. \A x \in Clients : Active(x)' => Active(x)
    BY <1>5
  <2>2. ChannelOf(u)' = ChannelOf(u) /\ ChannelOf(v)' = ChannelOf(v)
    BY <1>4, <1>5 DEF c
  <2> QED
    BY <2>1, <2>2, <1>8 DEF IDEInv
<1> QED
  BY <1>2, <1>3, <1>6, <1>7, <1>8 DEF IDEInv

(* The fields of a request that its steps replace. *)
Sets(q, todo, moved, ret, x) ==
  /\ [With(q, todo, moved, ret) EXCEPT !.todo = x] = With(q, x, moved, ret)
  /\ [With(q, todo, moved, ret) EXCEPT !.moved = x] = With(q, todo, x, ret)
  /\ [With(q, todo, moved, ret) EXCEPT !.ret = x] = With(q, todo, moved, x)

(* The fields of a request that has gone on. *)
LEMMA RequestFields ==
  ASSUME NEW q, NEW todo, NEW moved, NEW ret, NEW x
  PROVE  Sets(q, todo, moved, ret, x)
BY SMTT(30) DEF Sets, With

(* A request is its fields. *)
LEMMA RequestIs ==
  ASSUME NEW q, IsRequest(q)
  PROVE  q = With(q, q.todo, q.moved, q.ret)
BY DEF IsRequest, With

(* A port is written. *)
LEMMA WriteInv ==
  ASSUME IDEInv, NEW t \in Clients, ide_write(t)
  PROVE  IDEInv'
<1> DEFINE q == request[t]
           c == ChannelOf(t)
           r == channel[c]
           r2 == Written(Dev(q).channel, r, Head(q.todo).reg, Head(q.todo).value)
           w == With(q, Tail(q.todo), q.moved, 0)
<1>1. Active(t) /\ Head(q.todo).op = "out"
  BY DEF ide_write, Now
<1>2. IsRequest(q) /\ c = Dev(q).channel /\ IsChannel(r)
  BY <1>1, ActiveUnderway
<1>3. PICK k : At(q, r, k)
  BY <1>1, ActiveUnderway
<1>4. channel' = [channel EXCEPT ![c] = r2]
  BY <1>2 DEF ide_write
<1>5. request' = [request EXCEPT ![t] = [q EXCEPT !.todo = Tail(q.todo)]]
  BY DEF ide_write
<1>6. [q EXCEPT !.todo = Tail(q.todo)] = w
  <2>1. q.ret = 0
    BY <1>3 DEF At
  <2> HIDE DEF q
  <2>2. q = With(q, q.todo, q.moved, 0)
    BY <1>2, <2>1, RequestIs
  <2>3. Sets(q, q.todo, q.moved, 0, Tail(q.todo))
    BY RequestFields
  <2> QED
    BY <2>2, <2>3 DEF Sets
<1>7. IsChannel(r2) /\ Underway(w, r2)
  BY <1>1, <1>2, <1>3, WriteStep
<1>8. MovedTo(q, q.moved)
  BY <1>2 DEF IsRequest, MovedTo
<1>9. IsRequest(w)
  <2> HIDE DEF q
  <2> QED
    BY <1>2, <1>8, WithRequest
<1>10. w.drive = q.drive
  BY DEF With
<1> HIDE DEF q, w, r2, c, r
<1>11. request' = [request EXCEPT ![t] = w]
  BY <1>5, <1>6 DEF q
<1>12. w.drive = request[t].drive /\ channel' = [channel EXCEPT ![ChannelOf(t)] = r2]
  BY <1>4, <1>10 DEF q, c
<1> QED
  BY <1>1, <1>7, <1>9, <1>11, <1>12, OneStep

(* A wait ends. *)
LEMMA WaitInv ==
  ASSUME IDEInv, NEW t \in Clients, ide_wait(t)
  PROVE  IDEInv'
<1> DEFINE q == request[t]
           c == ChannelOf(t)
           r == channel[c]
           ret == IF Done(t) THEN 512 ELSE q.ret
           w == With(q, Tail(q.todo), q.moved, ret)
<1>1. Active(t) /\ Head(q.todo).op = "wait"
  BY DEF ide_wait, Now
<1>2. IsRequest(q) /\ c \in Channels /\ IsChannel(r)
  BY <1>1, ActiveUnderway
<1>3. PICK k : At(q, r, k)
  BY <1>1, ActiveUnderway
<1>4. channel' = [channel EXCEPT ![c] = r]
  <2>1. channel = [d \in Channels |-> channel[d]] /\ channel' = channel
    BY DEF IDEInv, ide_wait
  <2> QED
    BY <1>2, <2>1
<1>5. request' = [request EXCEPT ![t] = [[q EXCEPT !.todo = Tail(q.todo)] EXCEPT !.ret = ret]]
  BY DEF ide_wait
<1>6. [[q EXCEPT !.todo = Tail(q.todo)] EXCEPT !.ret = ret] = w
  <2> HIDE DEF q, ret
  <2>1. q = With(q, q.todo, q.moved, q.ret)
    BY <1>2, RequestIs
  <2>2. Sets(q, q.todo, q.moved, q.ret, Tail(q.todo))
    BY RequestFields
  <2>3. [q EXCEPT !.todo = Tail(q.todo)] = With(q, Tail(q.todo), q.moved, q.ret)
    BY <2>1, <2>2 DEF Sets
  <2>4. Sets(q, Tail(q.todo), q.moved, q.ret, ret)
    BY RequestFields
  <2> QED
    BY <2>3, <2>4 DEF Sets
<1>7. Over(w) \/ Underway(w, r)
  <2>1. /\ q.todo = <<Step("wait")>> => Over(With(q, Tail(q.todo), q.moved, 512))
        /\ q.todo # <<Step("wait")>> => Underway(With(q, Tail(q.todo), q.moved, 0), r)
    BY <1>1, <1>2, <1>3, WaitStep
  <2>2. q.ret = 0
    BY <1>3 DEF At
  <2>3. Done(t) <=> q.todo = <<Step("wait")>>
    BY DEF Done
  <2> HIDE DEF q, r
  <2> QED
    BY <2>1, <2>2, <2>3
<1>8. MovedTo(q, q.moved)
  BY <1>2 DEF IsRequest, MovedTo
<1>9. IsRequest(w)
  <2> HIDE DEF q, ret
  <2> QED
    BY <1>2, <1>8, WithRequest
<1>10. w.drive = q.drive
  BY DEF With
<1> HIDE DEF q, w, c, r
<1>11. request' = [request EXCEPT ![t] = w]
  BY <1>5, <1>6 DEF q
<1>12. w.drive = request[t].drive /\ channel' = [channel EXCEPT ![ChannelOf(t)] = r]
  BY <1>4, <1>10 DEF q, c
<1> QED
  BY <1>1, <1>2, <1>7, <1>9, <1>11, <1>12, OneStep

(* The wait that looks for errors ends. *)
LEMMA CheckInv ==
  ASSUME IDEInv, NEW t \in Clients, WaitAdvanced(t)
  PROVE  IDEInv'
<1> DEFINE q == request[t]
           c == ChannelOf(t)
           r == channel[c]
           todo == IF r.err \/ ~ r.drq THEN <<>> ELSE Tail(q.todo)
           w == With(q, todo, q.moved, 0)
<1>1. Active(t) /\ Head(q.todo).op = "check" /\ ~ r.busy
  BY DEF WaitAdvanced, Now
<1>2. IsRequest(q) /\ c \in Channels /\ IsChannel(r)
  BY <1>1, ActiveUnderway
<1>3. PICK k : At(q, r, k)
  BY <1>1, ActiveUnderway
<1>4. channel' = [channel EXCEPT ![c] = r]
  <2>1. channel = [d \in Channels |-> channel[d]] /\ channel' = channel
    BY DEF IDEInv, WaitAdvanced
  <2> QED
    BY <1>2, <2>1
<1>5. request' = [request EXCEPT ![t] = [q EXCEPT !.todo = todo]]
  BY DEF WaitAdvanced
<1>6. [q EXCEPT !.todo = todo] = w
  <2>1. q.ret = 0
    BY <1>3 DEF At
  <2> HIDE DEF q, todo
  <2>2. q = With(q, q.todo, q.moved, 0)
    BY <1>2, <2>1, RequestIs
  <2>3. Sets(q, q.todo, q.moved, 0, todo)
    BY RequestFields
  <2> QED
    BY <2>2, <2>3 DEF Sets
<1>7. Over(w) \/ Underway(w, r)
  <2>1. /\ Over(With(q, <<>>, q.moved, 0))
        /\ r.drq => Underway(With(q, Tail(q.todo), q.moved, 0), r)
    BY <1>1, <1>2, <1>3, CheckStep
  <2> HIDE DEF q, r
  <2> QED
    BY <2>1
<1>8. MovedTo(q, q.moved)
  BY <1>2 DEF IsRequest, MovedTo
<1>9. IsRequest(w)
  <2> HIDE DEF q, todo
  <2> QED
    BY <1>2, <1>8, WithRequest
<1>10. w.drive = q.drive
  BY DEF With
<1> HIDE DEF q, w, c, r
<1>11. request' = [request EXCEPT ![t] = w]
  BY <1>5, <1>6 DEF q
<1>12. w.drive = request[t].drive /\ channel' = [channel EXCEPT ![ChannelOf(t)] = r]
  BY <1>4, <1>10 DEF q, c
<1> QED
  BY <1>1, <1>2, <1>7, <1>9, <1>11, <1>12, OneStep

(* The data are transferred. *)
LEMMA TransferInv ==
  ASSUME IDEInv, NEW t \in Clients, Transfer(t)
  PROVE  IDEInv'
<1> DEFINE q == request[t]
           c == ChannelOf(t)
           r == channel[c]
           r2 == Regs(r.slave, r.head, r.lba, r.previous, r.command, r.busy, FALSE, r.err, r.at)
           w == With(q, Tail(q.todo), r.at, 0)
<1>1. Active(t) /\ Head(q.todo).op = "data"
  BY DEF Transfer, Now
<1>2. IsRequest(q) /\ c \in Channels /\ IsChannel(r)
  BY <1>1, ActiveUnderway
<1>3. PICK k : At(q, r, k)
  BY <1>1, ActiveUnderway
<1>4. channel' = [channel EXCEPT ![c] = [r EXCEPT !.drq = FALSE]]
  BY DEF Transfer
<1>5. request' = [request EXCEPT ![t] = [[q EXCEPT !.todo = Tail(q.todo)] EXCEPT !.moved = r.at]]
  BY DEF Transfer
<1>6. [[q EXCEPT !.todo = Tail(q.todo)] EXCEPT !.moved = r.at] = w
  <2>1. q.ret = 0
    BY <1>3 DEF At
  <2> HIDE DEF q, r
  <2>2. q = With(q, q.todo, q.moved, 0)
    BY <1>2, <2>1, RequestIs
  <2>3. Sets(q, q.todo, q.moved, 0, Tail(q.todo))
    BY RequestFields
  <2>4. [q EXCEPT !.todo = Tail(q.todo)] = With(q, Tail(q.todo), q.moved, 0)
    BY <2>2, <2>3 DEF Sets
  <2>5. Sets(q, Tail(q.todo), q.moved, 0, r.at)
    BY RequestFields
  <2> QED
    BY <2>4, <2>5 DEF Sets
<1> HIDE DEF c, r
<1>7. [r EXCEPT !.drq = FALSE] = r2
  <2>1. r = Regs(r.slave, r.head, r.lba, r.previous, r.command, r.busy, r.drq, r.err, r.at)
    BY <1>2, ChannelRegs
  <2>2. Puts(r.slave, r.head, r.lba, r.previous, r.command, r.busy, r.drq, r.err, r.at, FALSE)
    BY PutRegs
  <2> QED
    BY <2>1, <2>2 DEF Puts
<1>8. r.lba \in [1 .. 3 -> Nat] /\ r.previous \in [1 .. 3 -> Nat]
  BY <1>2 DEF IsChannel
<1>9. IsChannel(r2)
  BY <1>8, RegsChannel
<1>10. r2.slave = r.slave /\ r2.head = r.head /\ r2.lba = r.lba /\ r2.previous = r.previous
  BY DEF Regs
<1> HIDE DEF r2, q
<1>11. r.at = Target(q) /\ Underway(w, r2)
  <2>1. Head(q.todo).op = "data"
    BY <1>1
  <2> QED
    BY <1>2, <1>3, <1>10, <2>1, DataStep
<1>12. MovedTo(q, r.at)
  BY <1>11 DEF MovedTo
<1>13. IsRequest(w)
  BY <1>2, <1>12, WithRequest
<1>14. w.drive = q.drive
  BY DEF With
<1> HIDE DEF w
<1>15. request' = [request EXCEPT ![t] = w]
  BY <1>5, <1>6 DEF q
<1>16. w.drive = request[t].drive /\ channel' = [channel EXCEPT ![ChannelOf(t)] = r2]
  BY <1>4, <1>7, <1>14 DEF q, c
<1> QED
  BY <1>1, <1>9, <1>11, <1>13, <1>15, <1>16, OneStep

(* The drive ends a command: the data of a read or a write are ready only  *)
(* when the sector is on the disk.                                         *)
LEMMA ReadyProgress ==
  ASSUME NEW q, NEW r, NEW k, IsRequest(q), At(q, r, k), NEW r2, NEW ok \in BOOLEAN,
         ok => r.at # Nowhere /\ r.at[2] < ide_devices[r.at[1]].totalsectors,
         r2.slave = r.slave, r2.head = r.head, r2.lba = r.lba, r2.previous = r.previous,
         r2.at = r.at, r2.drq = ok
  PROVE  Underway(q, r2)
<1> DEFINE m == More(q)
<1>1. /\ q.rw \in {"read", "write"} /\ q.sector <= Dev(q).totalsectors /\ q.ret = 0
      /\ k \in 1 .. Len(Program(q))
      /\ q.todo = SubSeq(Program(q), k, Len(Program(q)))
      /\ Registers(q, r, k) /\ Progress(q, r, k)
  BY DEF At
<1>2. Registers(q, r2, k)
  BY <1>1 DEF Registers
<1>3. ASSUME k = 8 + m, r2.drq PROVE q.sector < Dev(q).totalsectors
  <2>1. m \in {0, 3}
    BY MoreIs
  <2> HIDE DEF m
  <2>2. k > 7 + m /\ k <= 9 + m
    BY <1>3, <2>1, SMTT(30)
  <2>3. r.at = Target(q)
    BY <1>1, <2>2 DEF Progress, m
  <2>4. r.at[1] = q.drive /\ r.at[2] = q.sector
    <3>1. Target(q)[1] = q.drive /\ Target(q)[2] = q.sector
      BY SMTT(30) DEF Target
    <3> QED
      BY <2>3, <3>1
  <2> QED
    BY <1>3, <2>4 DEF Dev
<1>4. Progress(q, r2, k)
  BY <1>1, <1>3 DEF Progress
<1> QED
  BY <1>1, <1>2, <1>4 DEF Underway

(* The answer of a drive keeps the invariant. *)
LEMMA DriveInv ==
  ASSUME IDEInv, NEW c \in Channels, DriveReady(c)
  PROVE  IDEInv'
<1> DEFINE r == channel[c]
           onDisk == r.at # Nowhere /\ r.at[2] < ide_devices[r.at[1]].totalsectors
<1>1. PICK ok \in BOOLEAN :
        /\ ok => onDisk
        /\ channel' = [channel EXCEPT ![c].busy = FALSE, ![c].drq = ok,
                                      ![c].err = r.command # "flush" /\ ~ ok]
  BY DEF DriveReady
<1>2. request' = request
  BY DEF DriveReady
<1> DEFINE e == r.command # "flush" /\ ~ ok
           v1 == [r EXCEPT !.busy = FALSE]
           v2 == [v1 EXCEPT !.drq = ok]
           r2 == [v2 EXCEPT !.err = e]
<1>3. channel = [d \in Channels |-> channel[d]] /\ IsChannel(r)
  BY DEF IDEInv
<1>4. channel' = [channel EXCEPT ![c] = r2]
  BY <1>1, <1>3
<1>5. onDisk <=> r.at # Nowhere /\ r.at[2] < ide_devices[r.at[1]].totalsectors
  OBVIOUS
<1> HIDE DEF r, e, onDisk
<1>6. r2 = Regs(r.slave, r.head, r.lba, r.previous, r.command, FALSE, ok, e, r.at)
  <2>1. r = Regs(r.slave, r.head, r.lba, r.previous, r.command, r.busy, r.drq, r.err, r.at)
    BY <1>3, ChannelRegs
  <2>2. v1 = Regs(r.slave, r.head, r.lba, r.previous, r.command, FALSE, r.drq, r.err, r.at)
    <3>1. Puts(r.slave, r.head, r.lba, r.previous, r.command, r.busy, r.drq, r.err, r.at, FALSE)
      BY PutRegs
    <3> QED
      BY <2>1, <3>1 DEF Puts
  <2> HIDE DEF v1
  <2>3. v2 = Regs(r.slave, r.head, r.lba, r.previous, r.command, FALSE, ok, r.err, r.at)
    <3>1. Puts(r.slave, r.head, r.lba, r.previous, r.command, FALSE, r.drq, r.err, r.at, ok)
      BY PutRegs
    <3> QED
      BY <2>2, <3>1 DEF Puts
  <2> HIDE DEF v2
  <2>4. Puts(r.slave, r.head, r.lba, r.previous, r.command, FALSE, ok, r.err, r.at, e)
    BY PutRegs
  <2> QED
    BY <2>3, <2>4 DEF Puts
<1> HIDE DEF r2
<1>7. IsChannel(r2)
  <2>1. r.lba \in [1 .. 3 -> Nat] /\ r.previous \in [1 .. 3 -> Nat]
    BY <1>3 DEF IsChannel
  <2> QED
    BY <2>1, <1>6, RegsChannel
<1>8. /\ r2.slave = r.slave /\ r2.head = r.head /\ r2.lba = r.lba /\ r2.previous = r.previous
      /\ r2.at = r.at /\ r2.drq = ok
  BY <1>6 DEF Regs
<1>9. /\ DOMAIN channel' = Channels /\ channel' = [d \in Channels |-> channel'[d]]
      /\ channel'[c] = r2
      /\ \A d \in Channels : d # c => channel'[d] = channel[d]
  BY <1>3, <1>4
<1>10. \A d \in Channels : IsChannel(channel'[d])
  BY <1>7, <1>9 DEF IDEInv
<1>11. \A t \in Clients : ChannelOf(t)' = ChannelOf(t) /\ (Active(t)' <=> Active(t))
  BY <1>2 DEF ChannelOf, Active
<1>12. ASSUME NEW t \in Clients
       PROVE  Over(request[t]) \/ Underway(request[t], channel'[ChannelOf(t)])
  <2> SUFFICES ASSUME ~ Over(request[t])
               PROVE  Underway(request[t], channel'[ChannelOf(t)])
    OBVIOUS
  <2>1. Underway(request[t], channel[ChannelOf(t)]) /\ IsRequest(request[t])
    BY DEF IDEInv
  <2>2. PICK k : At(request[t], channel[ChannelOf(t)], k)
    BY <2>1, UnderwayAt
  <2>3. CASE ChannelOf(t) = c
    <3>1. At(request[t], r, k)
      BY <2>2, <2>3 DEF r
    <3>2. ok => r.at # Nowhere /\ r.at[2] < ide_devices[r.at[1]].totalsectors
      BY <1>1, <1>5
    <3>3. Underway(request[t], r2)
      BY <2>1, <3>1, <3>2, <1>8, ReadyProgress
    <3> QED
      BY <2>3, <3>3, <1>9
  <2>4. CASE ChannelOf(t) # c
    <3>1. ChannelOf(t) \in Channels
      <4>1. request[t].drive \in DriveSlots
        BY <2>1 DEF IsRequest
      <4> QED
        BY <4>1, Devices DEF ChannelOf
    <3> QED
      BY <2>1, <2>4, <3>1, <1>9
  <2> QED
    BY <2>3, <2>4
<1>13. \A t \in Clients : request'[t] = request[t] /\ IsRequest(request[t])
  BY <1>2 DEF IDEInv
<1>14. DOMAIN request' = Clients /\ request' = [t \in Clients |-> request'[t]]
  BY <1>2 DEF IDEInv
<1>15. \A t, u \in Clients :
         t # u /\ Active(t)' /\ Active(u)' => ChannelOf(t)' # ChannelOf(u)'
  <2>1. \A t, u \in Clients : t # u /\ Active(t) /\ Active(u) => ChannelOf(t) # ChannelOf(u)
    BY DEF IDEInv
  <2> QED
    BY <2>1, <1>11
<1> QED
  BY <1>9, <1>10, <1>11, <1>12, <1>13, <1>14, <1>15 DEF IDEInv

(* A request begins: with its first access, or with an error. *)
BlockError(rw, drive, sector) ==
  IF sector > ide_devices[drive].totalsectors \/ ide_devices[drive].type # 0
  THEN IF rw = "read" THEN -5 ELSE -2
  ELSE 0
NewRequest(rw, drive, sector) ==
  [rw |-> rw, drive |-> drive, sector |-> sector, moved |-> Nowhere,
   todo |-> IF BlockError(rw, drive, sector) < 0 THEN <<>>
            ELSE ide_pio_readwrite(rw, ide_devices[drive], sector),
   ret |-> BlockError(rw, drive, sector)]
Begun(q2, drive, r) ==
  IsRequest(q2) /\ (Over(q2) \/ Underway(q2, r)) /\ q2.drive = drive

(* A request that has passed the checks of ide_read_block or               *)
(* ide_write_block is at the first access of its program; any other is     *)
(* over.                                                                   *)
LEMMA BlockGood ==
  ASSUME NEW rw \in {"read", "write"}, NEW drive \in DriveSlots, NEW sector \in Nat, NEW r
  PROVE  Begun(NewRequest(rw, drive, sector), drive, r)
<1> DEFINE error == BlockError(rw, drive, sector)
           q2 == NewRequest(rw, drive, sector)
           P == ide_pio_readwrite(rw, ide_devices[drive], sector)
           todo == IF error < 0 THEN <<>> ELSE P
           dev == ide_devices[drive]
<1>1. /\ q2.rw = rw /\ q2.drive = drive /\ q2.sector = sector /\ q2.todo = todo
      /\ q2.moved = Nowhere /\ q2.ret = error
  BY DEF NewRequest
<1>2. q2 = [rw |-> q2.rw, drive |-> q2.drive, sector |-> q2.sector, todo |-> q2.todo,
            moved |-> q2.moved, ret |-> q2.ret]
  BY DEF NewRequest
<1> HIDE DEF q2
<1>3. IsRequest(q2)
  BY <1>1, <1>2 DEF IsRequest
<1>4. Dev(q2) = dev /\ Program(q2) = P
  BY <1>1 DEF Dev, Program
<1>5. dev.totalsectors \in Nat
  BY Devices
<1> DEFINE total == dev.totalsectors
           bad == sector > total \/ dev.type # 0
<1>6. (bad => error = IF rw = "read" THEN -5 ELSE -2) /\ (~ bad => error = 0)
  BY DEF BlockError
<1> HIDE DEF error
<1>7. ASSUME bad PROVE Over(q2)
  <2>1. error = -5 \/ error = -2
    BY <1>6, <1>7
  <2>2. error < 0 /\ error # 512
    BY ONLY <2>1, SMTT(30)
  <2>3. q2.todo = <<>> /\ q2.ret # 512
    BY <1>1, <2>2
  <2> QED
    BY <2>3 DEF Over
<1>8. ASSUME ~ bad PROVE Underway(q2, r)
  <2>1. error = 0
    BY <1>6, <1>8
  <2>2. ~ (error < 0)
    BY ONLY <2>1, SMTT(30)
  <2>3. q2.todo = P /\ q2.ret = 0
    BY <1>1, <2>1, <2>2
  <2>4. sector <= total
    <3>1. ~ (sector > total)
      BY <1>8
    <3> HIDE DEF total
    <3>2. total \in Nat
      BY <1>5 DEF total
    <3> QED
      BY <3>1, <3>2, SMTT(30)
  <2>5. q2.rw \in {"read", "write"} /\ q2.sector <= Dev(q2).totalsectors
    BY <1>1, <1>4, <2>4
  <2>6. P \in Seq(Accesses(q2)) /\ Len(P) \in Nat
    BY <1>4, ProgramLength
  <2>7. /\ q2.rw = "write" => Len(P) = 11 + More(q2)
        /\ q2.rw # "write" => Len(P) = 10 + More(q2)
        /\ More(q2) \in {0, 3}
    BY <1>4, ProgramLength, MoreIs
  <2> HIDE DEF P
  <2>8. P = SubSeq(P, 1, Len(P)) /\ 1 \in 1 .. Len(P)
    <3>1. Len(P) >= 1
      BY <2>6, <2>7, SMTT(30)
    <3> QED
      BY <2>6, <3>1, SMTT(30)
  <2>9. Registers(q2, r, 1)
    <3>1. ~ (1 > 2)
      BY SMTT(30)
    <3>2. ASSUME NEW j \in 1 .. 3 PROVE ~ (1 > 3 + j) /\ ~ (1 > 3 + More(q2) + j)
      BY <2>7, SMTT(30)
    <3> QED
      BY <3>1, <3>2 DEF Registers
  <2>10. Progress(q2, r, 1)
    <3>1. /\ ~ (1 > 7 + More(q2)) /\ 1 # 8 + More(q2)
          /\ ~ (1 > 8 + More(q2)) /\ ~ (1 > 9 + More(q2))
      BY <2>7, SMTT(30)
    <3> QED
      BY <3>1 DEF Progress
  <2> QED
    BY <1>4, <2>3, <2>5, <2>8, <2>9, <2>10 DEF Underway
<1>9. Begun(q2, drive, r)
  BY <1>1, <1>3, <1>7, <1>8 DEF Begun
<1> QED
  BY <1>9 DEF q2

(* The call of ide_read_block or ide_write_block keeps the invariant. *)
LEMMA BlockInv ==
  ASSUME IDEInv, OneVolume, NEW t \in Clients, NEW rw \in {"read", "write"},
         NEW drive \in Registered, NEW sector \in Sectors, ide_block(t, rw, drive, sector)
  PROVE  IDEInv'
<1> DEFINE dev == ide_devices[drive]
           q2 == NewRequest(rw, drive, sector)
<1>1. drive \in DriveSlots /\ sector \in Nat
  BY IDEDrives DEF Registered
<1>2. /\ request' = [request EXCEPT ![t] = q2] /\ channel' = channel
      /\ \A u \in Clients : Active(u) => ChannelOf(u) # dev.channel
  BY DEF ide_block, NewRequest, BlockError
<1>3. \A r : IsRequest(q2) /\ (Over(q2) \/ Underway(q2, r)) /\ q2.drive = drive
  <2> SUFFICES ASSUME NEW r PROVE Begun(q2, drive, r)
    BY DEF Begun
  <2> QED
    BY <1>1, BlockGood
<1> HIDE DEF q2
<1>4. request = [u \in Clients |-> request[u]]
  BY DEF IDEInv
<1>5. /\ DOMAIN request' = Clients /\ request' = [u \in Clients |-> request'[u]]
      /\ request'[t] = q2
      /\ \A u \in Clients : u # t => request'[u] = request[u]
  BY <1>2, <1>4
<1>6. ChannelOf(t)' = dev.channel
  BY <1>3, <1>5 DEF ChannelOf
<1>7. ASSUME NEW u \in Clients, u # t
      PROVE  ChannelOf(u)' = ChannelOf(u) /\ (Active(u)' <=> Active(u))
  BY <1>5, <1>7 DEF ChannelOf, Active
<1>8. ASSUME NEW u \in Clients
      PROVE  /\ IsRequest(request'[u])
             /\ Over(request'[u]) \/ Underway(request'[u], channel'[ChannelOf(u)'])
  <2>1. CASE u = t
    BY <2>1, <1>3, <1>5
  <2>2. CASE u # t
    BY <2>2, <1>2, <1>5, <1>7 DEF IDEInv
  <2> QED
    BY <2>1, <2>2
<1>9. ASSUME NEW u \in Clients, NEW v \in Clients, u # v, Active(u)', Active(v)'
      PROVE  ChannelOf(u)' # ChannelOf(v)'
  <2>1. CASE u = t
    BY <2>1, <1>2, <1>6, <1>7, <1>9
  <2>2. CASE v = t
    BY <2>2, <1>2, <1>6, <1>7, <1>9
  <2>3. CASE u # t /\ v # t
    <3>1. ChannelOf(u) # ChannelOf(v)
      BY <2>3, <1>7, <1>9 DEF IDEInv
    <3> QED
      BY <3>1, <2>3, <1>7
  <2> QED
    BY <2>1, <2>2, <2>3
<1>10. /\ DOMAIN channel' = Channels /\ channel' = [c \in Channels |-> channel'[c]]
       /\ \A c \in Channels : IsChannel(channel'[c])
  BY <1>2 DEF IDEInv
<1> QED
  BY <1>5, <1>8, <1>9, <1>10 DEF IDEInv

-----------------------------------------------------------------------------
(* The invariant holds when the drives have been found. *)
LEMMA IDEInitInv ==
  ASSUME IDEInit
  PROVE  IDEInv
<1> DEFINE r0 == [slave |-> 0, head |-> 0, lba |-> <<0, 0, 0>>,
                  previous |-> <<0, 0, 0>>, command |-> "none", busy |-> FALSE,
                  drq |-> FALSE, err |-> FALSE, at |-> Nowhere]
<1>1. <<0, 0, 0>> \in [1 .. 3 -> Nat]
  BY SMTT(30)
<1>2. r0 = Regs(0, 0, <<0, 0, 0>>, <<0, 0, 0>>, "none", FALSE, FALSE, FALSE, Nowhere)
  BY DEF Regs
<1>3. IsChannel(r0)
  <2> HIDE DEF r0
  <2> QED
    BY <1>1, <1>2, RegsChannel
<1>4. IsRequest(NoRequest)
  <2>1. /\ NoRequest.drive = 0 /\ NoRequest.sector = 0 /\ NoRequest.moved = Nowhere
        /\ NoRequest = [rw |-> NoRequest.rw, drive |-> NoRequest.drive,
                        sector |-> NoRequest.sector, todo |-> NoRequest.todo,
                        moved |-> NoRequest.moved, ret |-> NoRequest.ret]
    BY DEF NoRequest
  <2>2. 0 \in DriveSlots /\ 0 \in Nat
    BY SMTT(30) DEF DriveSlots
  <2> QED
    BY <2>1, <2>2 DEF IsRequest
<1>5. NoRequest.todo = <<>> /\ NoRequest.ret = 0
  BY DEF NoRequest
<1>6. Over(NoRequest)
  <2>1. 0 # 512
    BY SMTT(30)
  <2> QED
    BY <2>1, <1>5 DEF Over
<1>7. request = [t \in Clients |-> NoRequest] /\ channel = [c \in Channels |-> r0]
  BY DEF IDEInit
<1> HIDE DEF r0
<1>8. \A t \in Clients : request[t] = NoRequest
  BY <1>7
<1>9. \A t \in Clients : ~ Active(t)
  BY <1>5, <1>8 DEF Active
<1> QED
  BY <1>3, <1>4, <1>6, <1>7, <1>8, <1>9 DEF IDEInv

(* Every step keeps the invariant. *)
LEMMA IDENextInv ==
  ASSUME IDEInv, OneVolume, [IDENext]_idevars
  PROVE  IDEInv'
<1>1. CASE UNCHANGED idevars
  <2>1. request' = request /\ channel' = channel
    BY <1>1 DEF idevars
  <2>2. \A t : ChannelOf(t)' = ChannelOf(t) /\ (Active(t)' <=> Active(t))
    BY <2>1 DEF ChannelOf, Active
  <2>3. \A t, u \in Clients :
          t # u /\ Active(t)' /\ Active(u)' => ChannelOf(t)' # ChannelOf(u)'
    <3>1. \A t, u \in Clients : t # u /\ Active(t) /\ Active(u) => ChannelOf(t) # ChannelOf(u)
      BY DEF IDEInv
    <3> QED
      BY <3>1, <2>2
  <2> QED
    BY <2>1, <2>2, <2>3 DEF IDEInv
<1>2. ASSUME NEW t \in Clients, NEW rw \in {"read", "write"}, NEW drive \in Registered,
             NEW sector \in Sectors, ide_block(t, rw, drive, sector)
      PROVE  IDEInv'
  BY <1>2, BlockInv
<1>3. ASSUME NEW t \in Clients, ide_write(t) PROVE IDEInv'
  BY <1>3, WriteInv
<1>4. ASSUME NEW t \in Clients, ide_wait(t) PROVE IDEInv'
  BY <1>4, WaitInv
<1>5. ASSUME NEW t \in Clients, WaitAdvanced(t) PROVE IDEInv'
  BY <1>5, CheckInv
<1>6. ASSUME NEW t \in Clients, Transfer(t) PROVE IDEInv'
  BY <1>6, TransferInv
<1>7. ASSUME NEW c \in Channels, DriveReady(c) PROVE IDEInv'
  BY <1>7, DriveInv
<1> QED
  BY <1>1, <1>2, <1>3, <1>4, <1>5, <1>6, <1>7 DEF IDENext

(* The invariant gives SectorsRight. *)
LEMMA IDEInvRight ==
  ASSUME IDEInv
  PROVE  SectorsRight
<1> SUFFICES ASSUME NEW t \in Clients
             PROVE  /\ request[t].moved \in {Nowhere, <<request[t].drive, request[t].sector>>}
                    /\ request[t].ret = 512 =>
                         /\ request[t].moved # Nowhere
                         /\ request[t].sector < ide_devices[request[t].drive].totalsectors
  BY DEF SectorsRight
<1>1. IsRequest(request[t])
  BY DEF IDEInv
<1>2. 0 # 512
  BY SMTT(30)
<1>3. Over(request[t]) \/ request[t].ret = 0
  BY DEF IDEInv, Underway
<1> QED
  BY <1>1, <1>2, <1>3 DEF IsRequest, Target, Over, Dev

(* Whatever the number of clients, the widths of the registers and the     *)
(* sizes of the drives: while the users of a channel exclude each other, a *)
(* request touches the sector and the drive that it was for, and answers   *)
(* the size of a block only when it has (ide_read_block, ide_write_block). *)
THEOREM SectorsStayRight ==
  ASSUME OneVolume
  PROVE  IDESpec => []SectorsRight
<1>1. IDEInit => IDEInv
  BY IDEInitInv
<1>2. IDEInv /\ [IDENext]_idevars => IDEInv'
  BY IDENextInv
<1>3. IDEInv => SectorsRight
  BY IDEInvRight
<1> QED
  BY <1>1, <1>2, <1>3, PTL DEF IDESpec

=============================================================================
