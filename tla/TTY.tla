-------------------------------- MODULE TTY --------------------------------
(***************************************************************************)
(* The interrupt driven terminal driver of the KUDOS kernel                *)
(* (drivers/mips32/tty.c), and kprintf (lib/xprintf.c), which writes to    *)
(* the same device with the polling driver (drivers/mips32/polltty.c) and  *)
(* shares the spinlock of the first terminal.                              *)
(*                                                                         *)
(* The sleep queue is taken at its interface: a thread that has called     *)
(* sleepq_add goes on only after sleepq_wake_all.  What a thread does      *)
(* between taking and giving back the spinlock is one step as far as       *)
(* neither the device nor a wake outside the lock can come between.        *)
(*                                                                         *)
(* owed and unread are what the driver has accepted and still has to       *)
(* deliver, to the device and to readers.                                  *)
(***************************************************************************)
EXTENDS Integers, Sequences

CONSTANTS
  Callers,       \* threads that use the terminal
  Handlers,      \* processors that may take the interrupt
  BufSize,       \* TTY_BUF_SIZE
  WriteLens, ReadLens,   \* lengths that callers pass
  TypeAhead      \* bound: characters typed and not yet read

None == "none"
Message == 0     \* a character of kprintf; those of callers are above it

ASSUME BufSizeAssumption == BufSize \in Nat \ {0}
ASSUME LensAssumption == WriteLens \cup ReadLens \subseteq Nat \ {0}
ASSUME TypeAheadAssumption == TypeAhead \in Nat
ASSUME ActorsAssumption ==
  Callers \cap Handlers = {} /\ None \notin Callers \cup Handlers

VARIABLES
  slock,                                \* tty_real_device_t
  read_buf, read_head, read_count,
  write_buf, write_head, write_count,
  readq, writeq,                        \* who sleeps on read_buf, write_buf
  wbusy, wirq, wirqe, data,             \* the device: its transmitter,
  rirq, avail,                          \* ... and its receiver
  doing, left,                             \* each thread in the driver
  serving,                                  \* each interrupt handler
  owed, unread                          \* history

reading == <<read_buf, read_head, read_count, readq>>
writing == <<write_buf, write_head, write_count, writeq>>
transmitter == <<wbusy, wirq, wirqe, data>>
receiver == <<rirq, avail>>
history == <<owed, unread>>
ttyvars == <<slock, reading, writing, transmitter, receiver, doing, left, serving, history>>

Indices == 0 .. BufSize - 1

TTYInit ==
  /\ slock = None
  /\ read_buf = [i \in Indices |-> 0] /\ read_head = 0 /\ read_count = 0
  /\ write_buf = [i \in Indices |-> 0] /\ write_head = 0 /\ write_count = 0
  /\ readq = {} /\ writeq = {}
  /\ wbusy = FALSE /\ wirq = FALSE /\ wirqe = TRUE /\ data = <<>>
  /\ rirq = FALSE /\ avail = <<>>
  /\ doing = [t \in Callers |-> "idle"]
  /\ left = [t \in Callers |-> 0]
  /\ serving = [h \in Handlers |-> "none"]
  /\ owed = <<>> /\ unread = <<>>

Goto(t, l) == doing' = [doing EXCEPT ![t] = l]
HandlerGoto(h, l) == serving' = [serving EXCEPT ![h] = l]

(* The first character of the write buffer goes to the data port. *)
PutFirst ==
  /\ data' = <<write_buf[write_head]>>
  /\ wbusy' = TRUE
  /\ write_head' = (write_head + 1) % BufSize
  /\ write_count' = write_count - 1
  /\ UNCHANGED <<write_buf, wirqe>>

-----------------------------------------------------------------------------
(* The device (external).  It interrupts when a character has gone out, and *)
(* when one has been typed.                                                 *)
Transmitted ==
  /\ wbusy
  /\ wbusy' = FALSE /\ wirq' = TRUE /\ data' = <<>>
  /\ owed' = IF data = <<Message>> THEN owed ELSE Tail(owed)
  /\ UNCHANGED <<slock, reading, writing, wirqe, receiver, doing, left, serving, unread>>

(* Neighbours among the characters typed differ. *)
Typed ==
  LET before == unread \o avail IN
  /\ Len(before) < TypeAhead
  /\ avail' = Append(avail,
                IF before = <<>> THEN 1 ELSE 3 - before[Len(before)])
  /\ rirq' = TRUE
  /\ UNCHANGED <<slock, reading, writing, transmitter, doing, left, serving, history>>

-----------------------------------------------------------------------------
(* tty_write *)

StartWrite(t, len) ==
  /\ doing[t] = "idle"
  /\ left' = [left EXCEPT ![t] = len]
  /\ Goto(t, "write")
  /\ UNCHANGED <<slock, reading, writing, transmitter, receiver, serving, history>>

(* The buffer holds data: sleep until it is empty. *)
WriteWait(t) ==
  /\ doing[t] = "write" /\ t \notin writeq /\ slock \in {None, t}
  /\ write_count > 0
  /\ writeq' = writeq \cup {t}
  /\ slock' = None
  /\ UNCHANGED <<reading, write_buf, write_head, write_count, transmitter,
                 receiver, doing, left, serving, history>>

(* The next k characters of the caller's text are put into the ring; a     *)
(* character is told by how many are left when it is taken.                *)
Fill(t, k) ==
  /\ write_buf' = [i \in Indices |->
       LET n == (i + BufSize - write_head) % BufSize
       IN  IF n < k THEN left[t] - n ELSE write_buf[i]]
  /\ write_count' = k
  /\ owed' = owed \o [n \in 1 .. k |-> left[t] - n + 1]

(* The buffer is empty: fill it. *)
WriteFill(t) ==
  LET k == IF left[t] < BufSize THEN left[t] ELSE BufSize IN
  /\ doing[t] = "write" /\ t \notin writeq /\ slock \in {None, t}
  /\ write_count = 0
  /\ Fill(t, k)
  /\ left' = [left EXCEPT ![t] = @ - k]
  /\ slock' = t
  /\ Goto(t, "send")
  /\ UNCHANGED <<reading, write_head, writeq, transmitter, receiver, serving, unread>>

(* If the device is idle the first character is written, to cause the      *)
(* interrupt.  Then the next round, or the return.                         *)
WriteSend(t) ==
  /\ doing[t] = "send"
  /\ IF wbusy
       THEN UNCHANGED <<write_buf, write_head, write_count, wbusy, wirqe, data>>
       ELSE PutFirst
  /\ IF left[t] = 0
       THEN Goto(t, "idle") /\ slock' = None
       ELSE Goto(t, "write") /\ UNCHANGED slock
  /\ UNCHANGED <<reading, writeq, wirq, receiver, left, serving, history>>

-----------------------------------------------------------------------------
(* tty_read *)

StartRead(t) ==
  /\ doing[t] = "idle"
  /\ Goto(t, "read")
  /\ UNCHANGED <<slock, reading, writing, transmitter, receiver, left, serving, history>>

ReadWait(t) ==
  /\ doing[t] = "read" /\ t \notin readq /\ slock = None
  /\ read_count = 0
  /\ readq' = readq \cup {t}
  /\ UNCHANGED <<slock, read_buf, read_head, read_count, writing, transmitter,
                 receiver, doing, left, serving, history>>

(* Mutant: the head is not moved. *)
ReadTakeKeepsHead(t, len) ==
  LET k == IF len < read_count THEN len ELSE read_count IN
  /\ doing[t] = "read" /\ t \notin readq /\ slock = None
  /\ read_count > 0
  /\ read_count' = read_count - k
  /\ unread' = SubSeq(unread, k + 1, Len(unread))
  /\ Goto(t, "idle")
  /\ UNCHANGED <<slock, read_buf, read_head, readq, writing, transmitter,
                 receiver, left, serving, owed>>

(* Copy what there is, up to the length asked for, and return.  The length *)
(* is not looked at before.                                                *)
ReadTake(t, len) ==
  LET k == IF len < read_count THEN len ELSE read_count IN
  /\ doing[t] = "read" /\ t \notin readq /\ slock = None
  /\ read_count > 0
  /\ read_head' = (read_head + k) % BufSize
  /\ read_count' = read_count - k
  /\ unread' = SubSeq(unread, k + 1, Len(unread))
  /\ Goto(t, "idle")
  /\ UNCHANGED <<slock, read_buf, readq, writing, transmitter, receiver, left, serving, owed>>

-----------------------------------------------------------------------------
(* kprintf: under the same spinlock, wait until the device is idle, write, *)
(* and wait again.  The interrupt is left to the driver.                   *)

kprintf(t) ==
  /\ doing[t] = "idle" /\ slock = None
  /\ slock' = t
  /\ Goto(t, "print")
  /\ UNCHANGED <<reading, writing, transmitter, receiver, left, serving, history>>

polltty_putchar(t) ==
  /\ doing[t] = "print" /\ ~ wbusy
  /\ data' = <<Message>> /\ wbusy' = TRUE
  /\ Goto(t, "printed")
  /\ UNCHANGED <<slock, reading, writing, wirq, wirqe, receiver, left, serving, history>>

(* Mutant: the polling driver clears the interrupt it has caused. *)
PrintDoneClears(t) ==
  /\ doing[t] = "printed" /\ ~ wbusy
  /\ wirq' = FALSE
  /\ slock' = None
  /\ Goto(t, "idle")
  /\ UNCHANGED <<reading, writing, wbusy, wirqe, data, receiver, left, serving, history>>

PrintDone(t) ==
  /\ doing[t] = "printed" /\ ~ wbusy
  /\ \/ slock' = None /\ Goto(t, "idle")
     \/ UNCHANGED slock /\ Goto(t, "print")
  /\ UNCHANGED <<reading, writing, transmitter, receiver, left, serving, history>>

-----------------------------------------------------------------------------
(* tty_interrupt_handle *)

(* An interrupt is taken; WIRQ is looked at before the lock is taken, ...  *)
Interrupt(h) ==
  /\ serving[h] = "none"
  /\ (wirq /\ wirqe) \/ rirq
  /\ HandlerGoto(h, IF wirq THEN "write lock" ELSE "read test")
  /\ UNCHANGED <<slock, reading, writing, transmitter, receiver, doing, left, history>>

(* ... write interrupts are disabled and WIRQ is reset, ...                *)
HandlerWriteLock(h) ==
  /\ serving[h] = "write lock" /\ slock = None
  /\ slock' = h
  /\ wirqe' = FALSE /\ wirq' = FALSE
  /\ HandlerGoto(h, "put")
  /\ UNCHANGED <<reading, writing, wbusy, data, receiver, doing, left, history>>

(* ... characters are put out while the device takes them, ...             *)
HandlerPut(h) ==
  /\ serving[h] = "put"
  /\ ~ wbusy /\ write_count > 0
  /\ wirq' = FALSE
  /\ PutFirst
  /\ UNCHANGED <<slock, reading, writeq, receiver, doing, left, serving, history>>

(* Mutant: the writers are woken when the device has become busy. *)
HandlerPutDoneBusy(h) ==
  /\ serving[h] = "put"
  /\ wbusy \/ write_count = 0
  /\ wirqe' = TRUE
  /\ writeq' = IF wbusy THEN {} ELSE writeq
  /\ slock' = None
  /\ HandlerGoto(h, "read test")
  /\ UNCHANGED <<reading, write_buf, write_head, write_count, wbusy, wirq,
                 data, receiver, doing, left, history>>

(* ... and if the buffer is empty its writers are woken.                   *)
HandlerPutDone(h) ==
  /\ serving[h] = "put"
  /\ wbusy \/ write_count = 0
  /\ wirqe' = TRUE
  /\ writeq' = IF write_count = 0 THEN {} ELSE writeq
  /\ slock' = None
  /\ HandlerGoto(h, "read test")
  /\ UNCHANGED <<reading, write_buf, write_head, write_count, wbusy, wirq,
                 data, receiver, doing, left, history>>

HandlerReadTest(h) ==
  /\ serving[h] = "read test"
  /\ HandlerGoto(h, IF rirq THEN "read lock" ELSE "none")
  /\ UNCHANGED <<slock, reading, writing, transmitter, receiver, doing, left, history>>

HandlerReadLock(h) ==
  /\ serving[h] = "read lock" /\ slock = None
  /\ slock' = h
  /\ rirq' = FALSE
  /\ HandlerGoto(h, "get")
  /\ UNCHANGED <<reading, writing, transmitter, avail, doing, left, history>>

(* Everything the device has is read; a character for which there is no    *)
(* room, according to the test in the code, is dropped.                    *)
HandlerGet(h) ==
  /\ serving[h] = "get" /\ avail # <<>>
  /\ avail' = Tail(avail)
  /\ IF read_count > BufSize
       THEN UNCHANGED <<read_buf, read_count, unread>>
       ELSE /\ read_buf' = [read_buf EXCEPT
                 ![(read_head + read_count) % BufSize] = Head(avail)]
            /\ read_count' = read_count + 1
            /\ unread' = Append(unread, Head(avail))
  /\ UNCHANGED <<slock, read_head, readq, writing, transmitter, rirq, doing, left,
                 serving, owed>>

(* Mutant: the readers are woken only when the buffer has been empty.      *)
HandlerGetDoneQuiet(h) ==
  /\ serving[h] = "get" /\ avail = <<>>
  /\ slock' = None
  /\ HandlerGoto(h, IF read_count = 1 THEN "wake" ELSE "none")
  /\ UNCHANGED <<reading, writing, transmitter, receiver, doing, left, history>>

(* The readers are woken after the lock has been given back.               *)
HandlerGetDone(h) ==
  /\ serving[h] = "get" /\ avail = <<>>
  /\ slock' = None
  /\ HandlerGoto(h, "wake")
  /\ UNCHANGED <<reading, writing, transmitter, receiver, doing, left, history>>

HandlerWake(h) ==
  /\ serving[h] = "wake"
  /\ readq' = {}
  /\ HandlerGoto(h, "none")
  /\ UNCHANGED <<slock, read_buf, read_head, read_count, writing, transmitter,
                 receiver, doing, left, history>>

-----------------------------------------------------------------------------
TTYStep(t) ==
  \/ WriteWait(t) \/ WriteFill(t) \/ WriteSend(t)
  \/ ReadWait(t) \/ (\E len \in ReadLens : ReadTake(t, len))
  \/ polltty_putchar(t) \/ PrintDone(t)

tty_interrupt_handle(h) ==
  \/ HandlerWriteLock(h) \/ HandlerPut(h) \/ HandlerPutDone(h)
  \/ HandlerReadTest(h) \/ HandlerReadLock(h) \/ HandlerGet(h)
  \/ HandlerGetDone(h) \/ HandlerWake(h)

TTYNext ==
  \/ \E t \in Callers :
       \/ TTYStep(t) \/ kprintf(t)
       \/ \E len \in WriteLens : StartWrite(t, len)
       \/ StartRead(t)
  \/ \E h \in Handlers : Interrupt(h) \/ tty_interrupt_handle(h)
  \/ Transmitted \/ Typed

TTYSpec == TTYInit /\ [][TTYNext]_ttyvars

-----------------------------------------------------------------------------
(* The characters of a ring, from its head on, round the end of the array. *)
Ring(buf, head, count) == [i \in 1 .. count |-> buf[(head + i - 1) % BufSize]]

(* What tty_write has accepted appears on the terminal in that order, none *)
(* of it lost and none twice, whoever else writes or prints: it is in the  *)
(* data port and then in write_buf.  read_buf holds what has been taken    *)
(* from the device and not yet read, and tty_read returns it in the order  *)
(* in which it was typed.  The test of the handler admits one character    *)
(* more than there is room for: then the oldest, and only that one, has    *)
(* been overwritten by the newest.                                         *)
RingsInOrder ==
  LET typed == Ring(read_buf, read_head, read_count)
  IN  /\ write_count <= BufSize
      /\ owed = (IF data = <<Message>> THEN <<>> ELSE data)
                  \o Ring(write_buf, write_head, write_count)
      /\ \/ typed = unread
         \/ /\ read_count = BufSize + 1
            /\ typed = [unread EXCEPT ![1] = unread[read_count]]

(* While the buffer holds data the device is busy or has interrupted: "the *)
(* interrupt will appear by itself and the whole buffer will be written by *)
(* interrupt handler" (tty_write), also with kprintf using the device.     *)
InterruptComes ==
  slock = None /\ write_count > 0 => wirqe /\ (wbusy \/ wirq)

(* Nobody sleeps on a buffer whose wake has been given: a writer sleeps    *)
(* only while there is data, a reader only while there is none or a        *)
(* handler has still to call sleepq_wake_all.                              *)
SleepersRemembered ==
  /\ slock = None /\ writeq # {} => write_count > 0
  /\ readq # {} /\ read_count > 0 =>
       \E h \in Handlers : serving[h] \in {"get", "wake"}
=============================================================================
