-------------------------------- MODULE IDE --------------------------------
(***************************************************************************)
(* The disk driver of the x86_64 port (drivers/x86_64/disk.c): two         *)
(* channels of two drives, driven by polling.  The driver has no lock and  *)
(* no queue.  A request is a program of port accesses, and the processor   *)
(* may be taken away after each of them.                                   *)
(*                                                                         *)
(* The data are left out: a transfer is known by the sector it touches.    *)
(* Sector counts are always 1 and are left out as well.                    *)
(***************************************************************************)
EXTENDS Integers, Sequences

CONSTANTS
  Attached,        \* by slot: [answers, error, atapi, lba28, lba48]
  ByteBase,        \* values of a byte of a sector number, 256
  NibbleBase,      \* values of the four bits in the drive register, 16
  Clients,         \* threads that read and write blocks
  Sectors,         \* block numbers in requests
  OneVolume        \* a channel has one mounted volume, whose lock its users hold

Channels == {0, 1}
DriveSlots == 0 .. 3

(* The values of three bytes. *)
Cube == ByteBase * ByteBase * ByteBase

(* A drive has fewer sectors than it has numbers: 28 bits, or 48. *)
ASSUME IDEDrives ==
  /\ ByteBase \in Nat \ {0} /\ NibbleBase \in Nat \ {0}
  /\ Sectors \subseteq Nat
  /\ \A slot \in DriveSlots :
       /\ Attached[slot].lba28 \in Nat /\ Attached[slot].lba48 \in Nat
       /\ Attached[slot].lba28 < Cube * NibbleBase
       /\ Attached[slot].lba48 < Cube * Cube

VARIABLES
  request,   \* [rw, drive, sector, todo, moved, ret] of each client
  channel    \* the registers of each channel: [slave, head, lba, previous,
             \* command, busy, drq, err, at]

idevars == <<request, channel>>

-----------------------------------------------------------------------------
(* What IDENTIFY finds in a slot; disk_init leaves the others out. *)
disk_init(slot) ==
  LET a == Attached[slot]
  IN  [present |-> a.answers /\ (a.error => a.atapi),
       type |-> IF a.error THEN 1 ELSE 0,
       channel |-> slot \div 2,
       drive |-> slot % 2,
       totalsectors |-> IF a.lba48 # 0 THEN a.lba48 ELSE a.lba28,
       lba_mode |-> IF a.lba48 # 0 THEN 2 ELSE 1]

ide_devices == [slot \in DriveSlots |-> disk_init(slot)]
Registered == {slot \in DriveSlots : ide_devices[slot].present}

-----------------------------------------------------------------------------
Out(reg, value) == [op |-> "out", reg |-> reg, value |-> value]
Step(op) == [op |-> op, reg |-> "none", value |-> 0]

(* A number shifted by one byte, and by three. *)
Shift(n) == n \div ByteBase
Upper(n) == Shift(Shift(Shift(n)))

LowBytes(n) == <<n % ByteBase, Shift(n) % ByteBase, Shift(Shift(n)) % ByteBase>>
OutLba(n) == [i \in 1 .. 3 |-> Out("LBA", [reg |-> i, byte |-> LowBytes(n)[i]])]

(* Mutant: the upper bytes are those of a 28-bit number shifted once. *)
OutHighLate(sector) == OutLba(Shift(Upper(sector)))

(* The upper bytes of a 48-bit sector number. *)
OutHigh(sector) == OutLba(Upper(sector))

SelectDrive(dev, sector) ==
  Out("HDDSEL",
      [slave |-> dev.drive,
       head |-> IF dev.lba_mode = 2 THEN 0 ELSE Upper(sector) % NibbleBase])

(* The port accesses of a request. *)
ide_pio_readwrite(rw, dev, sector) ==
  <<Step("wait"), SelectDrive(dev, sector), Step("wait")>>
  \o (IF dev.lba_mode = 2 THEN OutHigh(sector) ELSE <<>>)
  \o OutLba(sector)
  \o <<Out("COMMAND", [rw |-> rw, lba_mode |-> dev.lba_mode]), Step("check"),
       Step("data")>>
  \o (IF rw = "write" THEN <<Out("COMMAND", [rw |-> "flush", lba_mode |-> 1])>>
      ELSE <<>>)
  \o <<Step("wait")>>

-----------------------------------------------------------------------------
(* The drives.  Both on a channel see its registers, the one selected acts. *)
(* A register for the sector number keeps the value it had before.         *)
Nowhere == <<-1, -1>>

ThreeBytes(bytes) == bytes[1] + ByteBase * (bytes[2] + ByteBase * bytes[3])
Addressed(c, r, mode) ==
  <<2 * c + r.slave,
    ThreeBytes(r.lba) + Cube * (IF mode = 2 THEN ThreeBytes(r.previous) ELSE r.head)>>

Written(c, r, reg, value) ==
  CASE reg = "HDDSEL" -> [r EXCEPT !.slave = value.slave, !.head = value.head]
    [] reg = "LBA" -> [r EXCEPT !.previous[value.reg] = r.lba[value.reg],
                                !.lba[value.reg] = value.byte]
    [] reg = "COMMAND" ->
         [r EXCEPT !.command = value.rw, !.busy = TRUE, !.drq = FALSE, !.err = FALSE,
                   !.at = IF value.rw = "flush" THEN Nowhere
                          ELSE Addressed(c, r, value.lba_mode)]

(* A command ends: with the data ready, or with an error, as it does       *)
(* outside the disk.                                                       *)
DriveReady(c) ==
  LET r == channel[c]
      onDisk == r.at # Nowhere /\ r.at[2] < ide_devices[r.at[1]].totalsectors
  IN  /\ r.busy
      /\ \E ok \in BOOLEAN :
           /\ ok => onDisk
           /\ channel' = [channel EXCEPT ![c].busy = FALSE, ![c].drq = ok,
                                         ![c].err = r.command # "flush" /\ ~ ok]
      /\ UNCHANGED request

-----------------------------------------------------------------------------
NoRequest == [rw |-> "none", drive |-> 0, sector |-> 0, todo |-> <<>>,
              moved |-> Nowhere, ret |-> 0]

IDEInit ==
  /\ request = [t \in Clients |-> NoRequest]
  /\ channel = [c \in Channels |->
                  [slave |-> 0, head |-> 0, lba |-> <<0, 0, 0>>,
                   previous |-> <<0, 0, 0>>, command |-> "none", busy |-> FALSE,
                   drq |-> FALSE, err |-> FALSE, at |-> Nowhere]]

Active(t) == request[t].todo # <<>>
ChannelOf(t) == ide_devices[request[t].drive].channel

(* ide_read_block and ide_write_block.  A number just behind the last      *)
(* sector passes the test.                                                 *)
ide_block(t, rw, drive, sector) ==
  LET dev == ide_devices[drive]
      error == IF sector > dev.totalsectors \/ dev.type # 0
               THEN IF rw = "read" THEN -5 ELSE -2
               ELSE 0
  IN  /\ ~ Active(t)
      /\ OneVolume => \A u \in Clients : Active(u) => ChannelOf(u) # dev.channel
      /\ request' = [request EXCEPT ![t] =
            [rw |-> rw, drive |-> drive, sector |-> sector, moved |-> Nowhere,
             todo |-> IF error < 0 THEN <<>> ELSE ide_pio_readwrite(rw, dev, sector),
             ret |-> error]]
      /\ UNCHANGED channel

Now(t, op) == Active(t) /\ Head(request[t].todo).op = op
Done(t) == request[t].todo = <<Step("wait")>>

ide_write(t) ==
  LET c == ChannelOf(t) out == Head(request[t].todo)
  IN  /\ Now(t, "out")
      /\ channel' = [channel EXCEPT ![c] = Written(c, @, out.reg, out.value)]
      /\ request' = [request EXCEPT ![t].todo = Tail(@)]

(* Until the drive is no longer busy.  The last wait is followed by the    *)
(* return of the block's size.                                             *)
ide_wait(t) ==
  /\ Now(t, "wait") /\ ~ channel[ChannelOf(t)].busy
  /\ request' = [request EXCEPT ![t].todo = Tail(@),
                                ![t].ret = IF Done(t) THEN 512 ELSE @]
  /\ UNCHANGED channel

(* The wait that looks for errors as well: the answer is 0 then. *)
WaitAdvanced(t) ==
  LET r == channel[ChannelOf(t)]
  IN  /\ Now(t, "check") /\ ~ r.busy
      /\ request' = [request EXCEPT ![t].todo =
                       IF r.err \/ ~ r.drq THEN <<>> ELSE Tail(@)]
      /\ UNCHANGED channel

(* _insw and _outsw; the drive has no more to give or take. *)
Transfer(t) ==
  LET c == ChannelOf(t)
  IN  /\ Now(t, "data")
      /\ request' = [request EXCEPT ![t].todo = Tail(@), ![t].moved = channel[c].at]
      /\ channel' = [channel EXCEPT ![c].drq = FALSE]

IDENext ==
  \/ \E t \in Clients :
       \/ \E rw \in {"read", "write"}, drive \in Registered, sector \in Sectors :
            ide_block(t, rw, drive, sector)
       \/ ide_write(t) \/ ide_wait(t) \/ WaitAdvanced(t) \/ Transfer(t)
  \/ \E c \in Channels : DriveReady(c)

IDESpec == IDEInit /\ [][IDENext]_idevars

-----------------------------------------------------------------------------
(* A request touches the sector asked for on the drive asked for, and no   *)
(* other, whatever the other channel does meanwhile and however the number *)
(* is split over the registers; and it answers the size of a block only    *)
(* when it has touched it.  Number and drive go through eight registers    *)
(* that all requests of a channel share.                                   *)
SectorsRight ==
  \A t \in Clients :
    LET r == request[t]
    IN  /\ r.moved \in {Nowhere, <<r.drive, r.sector>>}
        /\ r.ret = 512 => r.moved # Nowhere /\ r.sector < ide_devices[r.drive].totalsectors
=============================================================================
