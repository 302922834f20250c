---------------------------- MODULE ConsoleProofs ---------------------------
(***************************************************************************)
(* Proofs about the terminals.                                             *)
(*                                                                         *)
(* TTY, the mips32 driver, for every size of the buffers and any number of *)
(* threads and processors.  The properties are not inductive: RingsInOrder *)
(* needs to know that the device is idle exactly when its data port is     *)
(* empty, and the others that the ones who may disturb them hold the       *)
(* spinlock.                                                               *)
(*                                                                         *)
(* Keyboard, for any number of readers: the key that kb_code holds is the  *)
(* last one typed for every reader that has not just read it.              *)
(*                                                                         *)
(* Screen, for every size of the screen and every text: one character      *)
(* keeps the screen what the lines say; then so does a text, since there   *)
(* is no first character after which it is not.                            *)
(***************************************************************************)
EXTENDS TTY, Screen, Keyboard, TLAPS, SequenceTheorems, WellFoundedInduction

(* Zenon proves the leaves, but those with arithmetic or sequences.        *)
USE ZenonT(30)

(* The variables of the driver hold values of their types. *)
RingTypes ==
  /\ read_buf \in [Indices -> Int] /\ write_buf \in [Indices -> Int]
  /\ read_head \in Indices /\ write_head \in Indices
  /\ read_count \in 0 .. BufSize + 1 /\ write_count \in 0 .. BufSize
  /\ data \in Seq(Int) /\ avail \in Seq(Int)
  /\ owed \in Seq(Int) /\ unread \in Seq(Int)
  /\ left \in [Callers -> Nat]
ControlTypes ==
  /\ slock \in {None} \cup Callers \cup Handlers
  /\ readq \subseteq Callers /\ writeq \subseteq Callers
  /\ wbusy \in BOOLEAN /\ wirq \in BOOLEAN /\ wirqe \in BOOLEAN /\ rirq \in BOOLEAN
  /\ doing \in [Callers -> {"idle", "write", "send", "read", "print", "printed"}]
  /\ serving \in [Handlers -> {"none", "write lock", "put", "read test",
                               "read lock", "get", "wake"}]

(* Who is at a place under the spinlock holds it. *)
LockFacts ==
  /\ \A t \in Callers : doing[t] \in {"send", "print", "printed"} => slock = t
  /\ \A h \in Handlers : serving[h] \in {"put", "get"} => slock = h

Putting == \E h \in Handlers : serving[h] = "put"
Sending == \E t \in Callers : doing[t] = "send"

(* A thread that sends has put something into an empty buffer, on which    *)
(* nobody sleeps.  Data in the buffer are waited for by the device or by   *)
(* the holder of the lock, and so are the threads that sleep on it.        *)
WriteFacts ==
  /\ \A t \in Callers : doing[t] = "write" => left[t] > 0
  /\ Sending => write_count > 0 /\ writeq = {}
  /\ writeq # {} => write_count > 0 \/ Putting
  /\ write_count > 0 => wbusy \/ wirq \/ Sending \/ Putting
  /\ wirqe \/ Putting

(* Readers that sleep beside data will be woken. *)
ReadFacts ==
  readq # {} /\ read_count > 0 =>
    \E h \in Handlers : serving[h] \in {"get", "wake"}

(* The characters owed are the one in the data port and those in the ring. *)
OnWire == IF data = <<>> \/ data = <<Message>> THEN 0 ELSE 1
OwedFacts ==
  /\ ~ wbusy => data = <<>>
  /\ wbusy => data = <<Message>> \/ (owed # <<>> /\ data = <<owed[1]>>)
  /\ Len(owed) = OnWire + write_count
  /\ \A i \in 1 .. Len(owed) : owed[i] # Message
  /\ \A i \in 1 .. write_count :
       write_buf[(write_head + i - 1) % BufSize] = owed[OnWire + i]

(* The characters unread are those in the ring, except that one too many   *)
(* has taken the place of the first.                                       *)
UnreadFacts ==
  /\ Len(unread) = read_count
  /\ \A i \in 1 .. read_count :
       i > 1 \/ read_count <= BufSize =>
         read_buf[(read_head + i - 1) % BufSize] = unread[i]

TTYInv ==
  RingTypes /\ ControlTypes /\ LockFacts /\ WriteFacts /\ ReadFacts /\ OwedFacts /\ UnreadFacts

-----------------------------------------------------------------------------
(* An index of a ring wraps round at most once. *)
LEMMA WrapOnce ==
  /\ \A a \in 0 .. BufSize - 1 : a % BufSize = a
  /\ \A a \in BufSize .. 2 * BufSize - 1 : a % BufSize = a - BufSize
  /\ \A a \in Nat : a % BufSize \in Indices
BY BufSizeAssumption, SMTT(30) DEF Indices

(* "none" is nobody, and no thread is a processor. *)
LEMMA Actors ==
  /\ \A t \in Callers : t # None /\ t \notin Handlers
  /\ \A h \in Handlers : h # None /\ h \notin Callers
BY ActorsAssumption

(* The first state of the driver satisfies the invariant. *)
LEMMA InitInv == TTYInit => TTYInv
<1> SUFFICES ASSUME TTYInit PROVE TTYInv
  OBVIOUS
<1>1. RingTypes
  BY BufSizeAssumption, SMTT(30) DEF TTYInit, RingTypes, Indices
<1>2. ControlTypes
  BY DEF TTYInit, ControlTypes
<1>3. LockFacts /\ ReadFacts
  BY DEF TTYInit, LockFacts, ReadFacts
<1>4. WriteFacts
  <2>1. write_count = 0 /\ writeq = {} /\ wirqe
    BY DEF TTYInit
  <2>2. ~(write_count > 0)
    BY <2>1, SMTT(30)
  <2> QED
    BY <2>1, <2>2 DEF TTYInit, WriteFacts, Sending
<1>5. OwedFacts /\ UnreadFacts
  BY SMTT(30) DEF TTYInit, OwedFacts, UnreadFacts, OnWire
<1> QED
  BY <1>1, <1>2, <1>3, <1>4, <1>5 DEF TTYInv

-----------------------------------------------------------------------------
(* A step of the driver keeps the types of what is not counted. *)
LEMMA ControlInv ==
  ASSUME TTYInv, TTYNext
  PROVE  ControlTypes'
<1> USE DEF TTYInv, ControlTypes, Goto, HandlerGoto, PutFirst, reading, writing, transmitter, receiver
<1>1. ASSUME NEW t \in Callers,
             StartRead(t) \/ kprintf(t) \/ \E len \in WriteLens : StartWrite(t, len)
      PROVE  ControlTypes'
  BY <1>1 DEF StartRead, kprintf, StartWrite
<1>2. ASSUME NEW t \in Callers, WriteWait(t) \/ WriteFill(t) \/ WriteSend(t)
      PROVE  ControlTypes'
  BY <1>2 DEF WriteWait, WriteFill, WriteSend, Fill
<1>3. ASSUME NEW t \in Callers, ReadWait(t) \/ \E len \in ReadLens : ReadTake(t, len)
      PROVE  ControlTypes'
  BY <1>3 DEF ReadWait, ReadTake
<1>4. ASSUME NEW t \in Callers, polltty_putchar(t) \/ PrintDone(t)
      PROVE  ControlTypes'
  BY <1>4 DEF polltty_putchar, PrintDone
<1>5. ASSUME NEW h \in Handlers,
             Interrupt(h) \/ HandlerWriteLock(h) \/ HandlerPut(h) \/ HandlerPutDone(h)
      PROVE  ControlTypes'
  BY <1>5 DEF Interrupt, HandlerWriteLock, HandlerPut, HandlerPutDone
<1>6. ASSUME NEW h \in Handlers, HandlerReadTest(h) \/ HandlerReadLock(h) \/ HandlerGet(h)
      PROVE  ControlTypes'
  BY <1>6 DEF HandlerReadTest, HandlerReadLock, HandlerGet
<1>7. ASSUME NEW h \in Handlers, HandlerGetDone(h) \/ HandlerWake(h)
      PROVE  ControlTypes'
  BY <1>7 DEF HandlerGetDone, HandlerWake
<1>8. CASE Transmitted \/ Typed
  BY <1>8 DEF Transmitted, Typed
<1> QED
  BY <1>1, <1>2, <1>3, <1>4, <1>5, <1>6, <1>7, <1>8 DEF TTYNext, TTYStep, tty_interrupt_handle

(* A thread or a handler that goes on moves nobody else. *)
LEMMA Moved ==
  ASSUME ControlTypes
  PROVE  /\ \A t \in Callers : \A l : Goto(t, l) =>
              doing'[t] = l /\ \A u \in Callers \ {t} : doing'[u] = doing[u]
         /\ \A h \in Handlers : \A l : HandlerGoto(h, l) =>
              serving'[h] = l /\ \A g \in Handlers \ {h} : serving'[g] = serving[g]
BY DEF ControlTypes, Goto, HandlerGoto

(* Only the holder of the spinlock is at a place that needs it. *)
LEMMA Alone ==
  ASSUME LockFacts, NEW a, slock \in {None, a}
  PROVE  /\ \A u \in Callers \ {a} : doing[u] \notin {"send", "print", "printed"}
         /\ \A h \in Handlers \ {a} : serving[h] \notin {"put", "get"}
BY Actors DEF LockFacts

(* The spinlock is taken when it is free and given back by its holder. *)
LEMMA LockInv ==
  ASSUME TTYInv, TTYNext
  PROVE  LockFacts'
<1>0. ControlTypes /\ LockFacts
  BY DEF TTYInv
<1> USE <1>0, Actors DEF LockFacts
<1>1. ASSUME NEW t \in Callers, StartRead(t) \/ \E len \in WriteLens : StartWrite(t, len)
      PROVE  LockFacts'
  BY <1>1, Moved DEF StartRead, StartWrite
<1>2. ASSUME NEW t \in Callers, kprintf(t)
      PROVE  LockFacts'
  BY <1>2, Moved, Alone DEF kprintf
<1>3. ASSUME NEW t \in Callers, WriteWait(t)
      PROVE  LockFacts'
  BY <1>3, Moved, Alone DEF WriteWait
<1>4. ASSUME NEW t \in Callers, WriteFill(t)
      PROVE  LockFacts'
  BY <1>4, Moved, Alone DEF WriteFill
<1>5. ASSUME NEW t \in Callers, WriteSend(t)
      PROVE  LockFacts'
  BY <1>5 DEF Goto, HandlerGoto, ControlTypes, WriteSend
<1>6. ASSUME NEW t \in Callers, ReadWait(t) \/ \E len \in ReadLens : ReadTake(t, len)
      PROVE  LockFacts'
  BY <1>6, Moved DEF ReadWait, ReadTake
<1>7. ASSUME NEW t \in Callers, polltty_putchar(t) \/ PrintDone(t)
      PROVE  LockFacts'
  BY <1>7 DEF Goto, HandlerGoto, ControlTypes, polltty_putchar, PrintDone
<1>8. ASSUME NEW h \in Handlers, HandlerWriteLock(h)
      PROVE  LockFacts'
  BY <1>8, Moved, Alone DEF HandlerWriteLock
<1>9. ASSUME NEW h \in Handlers, HandlerPut(h) \/ HandlerPutDone(h)
      PROVE  LockFacts'
  BY <1>9 DEF Goto, HandlerGoto, ControlTypes, HandlerPut, HandlerPutDone
<1>10. ASSUME NEW h \in Handlers, Interrupt(h) \/ HandlerReadTest(h)
       PROVE  LockFacts'
  BY <1>10, Moved DEF Interrupt, HandlerReadTest
<1>11. ASSUME NEW h \in Handlers, HandlerReadLock(h)
       PROVE  LockFacts'
  BY <1>11, Moved, Alone DEF HandlerReadLock
<1>12. ASSUME NEW h \in Handlers, HandlerGet(h) \/ HandlerGetDone(h) \/ HandlerWake(h)
       PROVE  LockFacts'
  BY <1>12 DEF Goto, HandlerGoto, ControlTypes, HandlerGet, HandlerGetDone, HandlerWake
<1>13. CASE Transmitted \/ Typed
  BY <1>13, Moved DEF Transmitted, Typed
<1> QED
  BY <1>1, <1>2, <1>3, <1>4, <1>5, <1>6, <1>7, <1>8, <1>9, <1>10, <1>11, <1>12, <1>13
     DEF TTYNext, TTYStep, tty_interrupt_handle

-----------------------------------------------------------------------------
(* Steps that leave writing, and the one at work in it, alone; and reading. *)
WriteSame ==
  /\ UNCHANGED <<write_buf, write_head, write_count, writeq, wbusy, wirq, wirqe,
                 data, left, owed>>
  /\ \A t \in Callers : {doing[t], doing'[t]} \cap {"write", "send"} # {} => doing'[t] = doing[t]
  /\ \A h \in Handlers : "put" \in {serving[h], serving'[h]} => serving'[h] = serving[h]
ReadSame ==
  /\ UNCHANGED <<read_buf, read_head, read_count, readq, avail, unread>>
  /\ \A h \in Handlers : serving[h] \in {"get", "wake"} => serving'[h] \in {"get", "wake"}

(* What belongs to the reading side is no concern of the writing side. *)
LEMMA WriteFrame ==
  ASSUME ControlTypes, TTYNext
  PROVE  \/ WriteSame \/ Transmitted
         \/ \E t \in Callers : \/ \E len \in WriteLens : StartWrite(t, len)
                               \/ WriteWait(t) \/ WriteFill(t) \/ WriteSend(t)
                               \/ polltty_putchar(t)
         \/ \E h \in Handlers : HandlerWriteLock(h) \/ HandlerPut(h) \/ HandlerPutDone(h)
<1> USE DEF ControlTypes, Goto, HandlerGoto, WriteSame, writing, transmitter, history
<1>1. ASSUME NEW t \in Callers, StartRead(t) \/ kprintf(t) \/ ReadWait(t)
      PROVE  WriteSame
  BY <1>1 DEF StartRead, kprintf, ReadWait
<1>2. ASSUME NEW t \in Callers, PrintDone(t) \/ \E len \in ReadLens : ReadTake(t, len)
      PROVE  WriteSame
  BY <1>2 DEF PrintDone, ReadTake
<1>3. ASSUME NEW h \in Handlers, Interrupt(h) \/ HandlerReadTest(h) \/ HandlerReadLock(h)
      PROVE  WriteSame
  BY <1>3 DEF Interrupt, HandlerReadTest, HandlerReadLock
<1>4. ASSUME NEW h \in Handlers, HandlerGet(h) \/ HandlerGetDone(h) \/ HandlerWake(h)
      PROVE  WriteSame
  BY <1>4 DEF HandlerGet, HandlerGetDone, HandlerWake
<1>5. CASE Typed
  BY <1>5 DEF Typed
<1> QED
  BY <1>1, <1>2, <1>3, <1>4, <1>5 DEF TTYNext, TTYStep, tty_interrupt_handle

(* And the other way round. *)
LEMMA ReadFrame ==
  ASSUME ControlTypes, TTYNext
  PROVE  \/ ReadSame \/ Typed
         \/ \E t \in Callers : ReadWait(t) \/ \E len \in ReadLens : ReadTake(t, len)
         \/ \E h \in Handlers : HandlerGet(h) \/ HandlerWake(h)
<1> USE DEF ControlTypes, HandlerGoto, ReadSame, reading, receiver, history
<1>1. ASSUME NEW t \in Callers,
             StartRead(t) \/ kprintf(t) \/ \E len \in WriteLens : StartWrite(t, len)
      PROVE  ReadSame
  BY <1>1 DEF StartRead, kprintf, StartWrite
<1>2. ASSUME NEW t \in Callers, WriteWait(t) \/ WriteFill(t) \/ WriteSend(t)
      PROVE  ReadSame
  BY <1>2 DEF WriteWait, WriteFill, WriteSend
<1>3. ASSUME NEW t \in Callers, polltty_putchar(t) \/ PrintDone(t)
      PROVE  ReadSame
  BY <1>3 DEF polltty_putchar, PrintDone
<1>4. ASSUME NEW h \in Handlers, Interrupt(h) \/ HandlerWriteLock(h) \/ HandlerPut(h)
      PROVE  ReadSame
  BY <1>4 DEF Interrupt, HandlerWriteLock, HandlerPut
<1>5. ASSUME NEW h \in Handlers, HandlerPutDone(h) \/ HandlerReadTest(h)
      PROVE  ReadSame
  BY <1>5 DEF HandlerPutDone, HandlerReadTest
<1>6. ASSUME NEW h \in Handlers, HandlerReadLock(h) \/ HandlerGetDone(h)
      PROVE  ReadSame
  BY <1>6 DEF HandlerReadLock, HandlerGetDone
<1>7. CASE Transmitted
  BY <1>7 DEF Transmitted
<1> QED
  BY <1>1, <1>2, <1>3, <1>4, <1>5, <1>6, <1>7 DEF TTYNext, TTYStep, tty_interrupt_handle

(* A reader goes to sleep only beside an empty buffer, and a handler that  *)
(* has read something wakes the readers before it returns.                 *)
LEMMA ReadInv ==
  ASSUME TTYInv, TTYNext
  PROVE  ReadFacts'
<1>0. ControlTypes /\ ReadFacts /\ RingTypes
  BY DEF TTYInv
<1>1. CASE ReadSame
  BY <1>0, <1>1 DEF ReadFacts, ReadSame
<1>2. ASSUME NEW t \in Callers, ReadWait(t)
      PROVE  ReadFacts'
  <2>1. read_count' = 0
    BY <1>2 DEF ReadWait
  <2>2. ~(read_count' > 0)
    BY <2>1, SMTT(30)
  <2> QED
    BY <2>2 DEF ReadFacts
<1>3. ASSUME NEW t \in Callers, NEW len \in ReadLens, ReadTake(t, len)
      PROVE  ReadFacts'
  BY <1>0, <1>3 DEF ReadTake, ReadFacts
<1>4. ASSUME NEW h \in Handlers, HandlerGet(h)
      PROVE  ReadFacts'
  BY <1>4 DEF HandlerGet, ReadFacts
<1>5. ASSUME NEW h \in Handlers, HandlerWake(h)
      PROVE  ReadFacts'
  BY <1>5 DEF HandlerWake, ReadFacts
<1>6. CASE Typed
  BY <1>0, <1>6 DEF Typed, ReadFacts, reading
<1> QED
  BY <1>0, <1>1, <1>2, <1>3, <1>4, <1>5, <1>6, ReadFrame

(* The buffer is never left to itself: who fills it starts the device or   *)
(* finds it busy, and the handler stops putting characters out only when   *)
(* the device is busy or nothing is left and nobody sleeps.                *)
LEMMA WriteInv ==
  ASSUME TTYInv, TTYNext
  PROVE  WriteFacts'
<1>0. ControlTypes /\ RingTypes /\ LockFacts /\ WriteFacts
  BY DEF TTYInv
<1>1. CASE WriteSame
  <2>1. Sending' = Sending /\ Putting' = Putting
    BY <1>1 DEF WriteSame, Sending, Putting
  <2> QED
    BY <1>0, <1>1, <2>1 DEF WriteFacts, WriteSame
<1>2. CASE Transmitted
  <2>1. Sending' = Sending /\ Putting' = Putting
    BY <1>2 DEF Transmitted, Sending, Putting
  <2> QED
    BY <1>0, <1>2, <2>1 DEF WriteFacts, Transmitted, writing
<1>3. ASSUME NEW t \in Callers, NEW len \in WriteLens, StartWrite(t, len)
      PROVE  WriteFacts'
  <2>1. Sending' = Sending /\ Putting' = Putting
    BY <1>0, <1>3, Moved DEF StartWrite, Sending, Putting
  <2>2. len > 0
    BY LensAssumption, SMTT(30)
  <2>3. \A u \in Callers : doing'[u] = "write" => left'[u] > 0
    BY <1>0, <1>3, <2>2 DEF StartWrite, Goto, WriteFacts, ControlTypes, RingTypes
  <2> QED
    BY <1>0, <1>3, <2>1, <2>3 DEF WriteFacts, StartWrite, writing, transmitter
<1>4. ASSUME NEW t \in Callers, WriteWait(t)
      PROVE  WriteFacts'
  <2>1. ~ Sending /\ ~ Sending' /\ Putting' = Putting
    BY <1>0, <1>4, Actors DEF WriteWait, LockFacts, Sending, Putting
  <2> QED
    BY <1>0, <1>4, <2>1 DEF WriteFacts, WriteWait, transmitter
<1>5. ASSUME NEW t \in Callers, WriteFill(t)
      PROVE  WriteFacts'
  <2>1. ~ Putting /\ Sending'
    <3>1. \A h \in Handlers : h # t
      BY Actors
    <3>2. ~ Putting
      BY <1>0, <1>5, <3>1, Actors DEF WriteFill, LockFacts, Putting
    <3> QED
      BY <1>0, <1>5, <3>2, Moved DEF WriteFill, Sending
  <2>2. write_count' > 0 /\ ~(write_count > 0)
    <3>1. left[t] > 0 /\ left[t] \in Nat
      BY <1>0, <1>5 DEF WriteFill, WriteFacts, RingTypes
    <3> QED
      BY <1>5, <3>1, BufSizeAssumption, SMTT(30) DEF WriteFill, Fill
  <2>3. writeq' = {} /\ wirqe'
    BY <1>0, <1>5, <2>1, <2>2 DEF WriteFill, WriteFacts, transmitter
  <2>4. \A u \in Callers : doing'[u] = "write" => left'[u] > 0
    BY <1>0, <1>5 DEF WriteFill, Goto, WriteFacts, ControlTypes, RingTypes
  <2> QED
    BY <2>1, <2>2, <2>3, <2>4 DEF WriteFacts
<1>6. ASSUME NEW t \in Callers, WriteSend(t)
      PROVE  WriteFacts'
  <2>1. ~ Sending' /\ Putting' = Putting
    <3>1. slock = t
      BY <1>0, <1>6 DEF WriteSend, LockFacts
    <3>2. \A u \in Callers \ {t} : doing[u] # "send"
      BY <1>0, <3>1 DEF LockFacts
    <3>3. \A u \in Callers \ {t} : doing'[u] = doing[u]
      BY <1>0, <1>6, Moved DEF WriteSend
    <3>4. doing'[t] # "send"
      BY <1>0, <1>6 DEF WriteSend, Goto, ControlTypes
    <3> QED
      BY <1>6, <3>2, <3>3, <3>4 DEF WriteSend, Sending, Putting
  <2>2. writeq' = {} /\ wbusy' /\ wirqe' = wirqe
    BY <1>0, <1>6 DEF WriteSend, WriteFacts, Sending, PutFirst
  <2>3. \A u \in Callers : doing'[u] = "write" => left'[u] > 0
    <3>1. left' = left
      BY <1>6 DEF WriteSend
    <3>2. doing'[t] = "write" => left[t] # 0
      BY <1>0, <1>6, Moved DEF WriteSend
    <3>3. left[t] # 0 => left[t] > 0
      BY <1>0, SMTT(30) DEF RingTypes
    <3>4. \A u \in Callers \ {t} : doing'[u] = doing[u]
      BY <1>0, <1>6, Moved DEF WriteSend
    <3> QED
      BY <1>0, <3>1, <3>2, <3>3, <3>4 DEF WriteFacts
  <2> QED
    BY <1>0, <2>1, <2>2, <2>3 DEF WriteFacts
<1>7. ASSUME NEW t \in Callers, polltty_putchar(t)
      PROVE  WriteFacts'
  <2>1. Sending' = Sending /\ Putting' = Putting
    BY <1>0, <1>7, Moved DEF polltty_putchar, Sending, Putting
  <2>2. \A u \in Callers : doing'[u] = "write" => left'[u] > 0
    BY <1>0, <1>7 DEF polltty_putchar, Goto, WriteFacts, ControlTypes
  <2> QED
    BY <1>0, <1>7, <2>1, <2>2 DEF WriteFacts, polltty_putchar, writing
<1>8. ASSUME NEW h \in Handlers, HandlerWriteLock(h)
      PROVE  WriteFacts'
  <2>1. Sending' = Sending /\ Putting'
    BY <1>0, <1>8, Moved DEF HandlerWriteLock, Sending, Putting
  <2> QED
    BY <1>0, <1>8, <2>1 DEF WriteFacts, HandlerWriteLock, writing
<1>9. ASSUME NEW h \in Handlers, HandlerPut(h)
      PROVE  WriteFacts'
  <2>1. Putting'
    BY <1>9 DEF HandlerPut, Putting
  <2>2. ~ Sending'
    <3>1. slock = h /\ \A u \in Callers : u # h
      BY <1>0, <1>9, Actors DEF HandlerPut, LockFacts
    <3> QED
      BY <1>0, <1>9, <3>1 DEF LockFacts, HandlerPut, Sending
  <2> QED
    BY <1>0, <1>9, <2>1, <2>2 DEF WriteFacts, HandlerPut
<1>10. ASSUME NEW h \in Handlers, HandlerPutDone(h)
       PROVE  WriteFacts'
  <2>1. ~ Sending'
    <3>1. slock = h /\ \A u \in Callers : u # h
      BY <1>0, <1>10, Actors DEF HandlerPutDone, LockFacts
    <3> QED
      BY <1>0, <1>10, <3>1 DEF LockFacts, HandlerPutDone, Sending
  <2>2. write_count = 0 \/ write_count > 0
    BY <1>0, SMTT(30) DEF RingTypes
  <2>3. write_count = 0 => ~(write_count > 0)
    BY SMTT(30)
  <2> QED
    BY <1>0, <1>10, <2>1, <2>2, <2>3 DEF WriteFacts, HandlerPutDone
<1> QED
  BY <1>0, <1>1, <1>2, <1>3, <1>4, <1>5, <1>6, <1>7, <1>8, <1>9, <1>10, WriteFrame

-----------------------------------------------------------------------------
(* Moving the head of a ring by k moves every place after it by k. *)
LEMMA MovedHead ==
  ASSUME NEW head \in Indices, NEW k \in Nat, NEW i \in Nat, head + k + i < 2 * BufSize
  PROVE  (head + k) % BufSize \in Indices
         /\ (((head + k) % BufSize) + i) % BufSize = (head + k + i) % BufSize
<1>0. BufSize \in Nat /\ BufSize > 0 /\ head \in Nat /\ head < BufSize
  BY BufSizeAssumption, SMTT(30) DEF Indices
<1>1. (head + k) % BufSize \in Indices
  BY <1>0, WrapOnce, SMTT(30)
<1>2. CASE head + k < BufSize
  <2>1. (head + k) % BufSize = head + k
    BY <1>0, <1>2, WrapOnce, SMTT(30)
  <2> QED
    BY <1>0, <1>1, <2>1, SMTT(30)
<1>3. CASE head + k >= BufSize
  <2>1. (head + k) % BufSize = head + k - BufSize
    BY <1>0, <1>3, WrapOnce, SMTT(30)
  <2>2. (head + k + i) % BufSize = head + k + i - BufSize
    BY <1>0, <1>3, WrapOnce, SMTT(30)
  <2>3. (head + k - BufSize + i) % BufSize = head + k + i - BufSize
    BY <1>0, <1>3, WrapOnce, SMTT(30)
  <2> QED
    BY <1>1, <2>1, <2>2, <2>3
<1> QED
  BY <1>0, <1>2, <1>3, SMTT(30)

(* Two places of a ring less than its size apart are different cells. *)
LEMMA Apart ==
  ASSUME NEW head \in Indices, NEW a \in Nat, NEW b \in Nat, a < b, b - a < BufSize, b =< BufSize
  PROVE  (head + a) % BufSize # (head + b) % BufSize
<1>0. BufSize \in Nat /\ BufSize > 0 /\ head \in Nat /\ head < BufSize
  BY BufSizeAssumption, SMTT(30) DEF Indices
<1>1. (head + a) % BufSize = IF head + a < BufSize THEN head + a ELSE head + a - BufSize
  BY <1>0, WrapOnce, SMTT(30)
<1>2. (head + b) % BufSize = IF head + b < BufSize THEN head + b ELSE head + b - BufSize
  BY <1>0, WrapOnce, SMTT(30)
<1> QED
  BY <1>0, <1>1, <1>2, SMTT(30)

(* A cell tells how far it is from the head. *)
LEMMA Offset ==
  ASSUME NEW head \in Indices, NEW j \in Indices
  PROVE  /\ (head + j) % BufSize \in Indices
         /\ (((head + j) % BufSize) + BufSize - head) % BufSize = j
<1>0. BufSize \in Nat /\ BufSize > 0 /\ head \in Nat /\ head < BufSize /\ j \in Nat /\ j < BufSize
  BY BufSizeAssumption, SMTT(30) DEF Indices
<1>1. (head + j) % BufSize = IF head + j < BufSize THEN head + j ELSE head + j - BufSize
  BY <1>0, WrapOnce, SMTT(30)
<1>2. (head + j) % BufSize \in Indices
  BY <1>0, WrapOnce, SMTT(30)
<1>3. (((head + j) % BufSize) + BufSize - head) % BufSize = j
  <2>1. CASE head + j < BufSize
    <3>1. ((head + j) % BufSize) + BufSize - head = BufSize + j
      BY <1>0, <1>1, <2>1, SMTT(30)
    <3>2. (BufSize + j) % BufSize = BufSize + j - BufSize
      BY <1>0, WrapOnce, SMTT(30)
    <3> QED
      BY <1>0, <3>1, <3>2, SMTT(30)
  <2>2. CASE head + j >= BufSize
    <3>1. ((head + j) % BufSize) + BufSize - head = j
      BY <1>0, <1>1, <2>2, SMTT(30)
    <3> QED
      BY <1>0, <3>1, WrapOnce, SMTT(30)
  <2> QED
    BY <1>0, <2>1, <2>2, SMTT(30)
<1> QED
  BY <1>2, <1>3

-----------------------------------------------------------------------------
(* A device that is busy with a character of a caller, or not.             *)
LEMMA Wire ==
  ASSUME RingTypes, ControlTypes, OwedFacts
  PROVE  /\ ~ wbusy => data = <<>> /\ OnWire = 0
         /\ wbusy /\ data = <<Message>> => OnWire = 0
         /\ wbusy /\ data # <<Message>> =>
              /\ OnWire = 1 /\ Len(owed) >= 1 /\ data = <<owed[1]>>
         /\ OnWire \in {0, 1}
<1>1. ~ wbusy => data = <<>> /\ OnWire = 0
  BY DEF OwedFacts, OnWire
<1>2. wbusy /\ data = <<Message>> => OnWire = 0
  BY DEF OnWire
<1>3. ASSUME wbusy, data # <<Message>>
      PROVE  OnWire = 1 /\ Len(owed) >= 1 /\ data = <<owed[1]>>
  <2>1. owed # <<>> /\ data = <<owed[1]>>
    BY <1>3 DEF OwedFacts
  <2>2. Len(owed) >= 1
    BY <2>1, SMTT(30) DEF RingTypes
  <2>3. data # <<>>
    BY <2>1, SMTT(30)
  <2> QED
    BY <1>3, <2>1, <2>2, <2>3 DEF OnWire
<1>4. OnWire \in {0, 1}
  BY DEF OnWire
<1> QED
  BY <1>1, <1>2, <1>3, <1>4

(* The first character of the ring goes to the data port of an idle device. *)
LEMMA PutFirstInv ==
  ASSUME TTYInv, PutFirst, ~ wbusy, write_count > 0, owed' = owed
  PROVE  /\ write_head' \in Indices /\ write_count' \in 0 .. BufSize /\ data' \in Seq(Int)
         /\ OwedFacts'
<1>0. RingTypes /\ ControlTypes /\ OwedFacts
  BY DEF TTYInv
<1>1. data = <<>> /\ OnWire = 0
  BY <1>0, Wire
<1>2. write_count \in Nat /\ write_count =< BufSize /\ BufSize \in Nat /\ BufSize > 0
      /\ write_head \in Nat /\ write_head < BufSize /\ owed \in Seq(Int)
  BY <1>0, BufSizeAssumption, SMTT(30) DEF RingTypes, Indices
<1>3. Len(owed) = write_count /\ \A i \in 1 .. write_count :
                                   write_buf[(write_head + i - 1) % BufSize] = owed[i]
  <2>1. Len(owed) = OnWire + write_count
        /\ \A i \in 1 .. write_count :
             write_buf[(write_head + i - 1) % BufSize] = owed[OnWire + i]
    BY <1>0 DEF OwedFacts
  <2> QED
    BY <1>1, <1>2, <2>1, SMTT(30)
<1>4. write_buf[write_head] = owed[1] /\ owed[1] \in Int /\ owed # <<>>
  <2>1. (write_head + 1 - 1) % BufSize = write_head
    BY <1>2, WrapOnce, SMTT(30)
  <2>2. 1 \in 1 .. write_count
    BY <1>2, SMTT(30)
  <2>3. write_buf[write_head] = owed[1]
    BY <1>3, <2>1, <2>2
  <2>4. owed[1] \in Int /\ owed # <<>>
    BY <1>2, <1>3, SMTT(30)
  <2> QED
    BY <2>3, <2>4
<1>5. owed[1] # Message
  BY <1>0, <1>2, <1>3, SMTT(30) DEF OwedFacts
<1>6. data' = <<owed[1]>> /\ wbusy' /\ write_head' = (write_head + 1) % BufSize
      /\ write_count' = write_count - 1 /\ write_buf' = write_buf
  BY <1>4 DEF PutFirst
<1>7. OnWire' = 1
  <2>1. data' # <<>> /\ data' # <<Message>>
    BY <1>5, <1>6, SMTT(30)
  <2> QED
    BY <2>1 DEF OnWire
<1>8. write_head' \in Indices /\ write_count' \in 0 .. BufSize /\ data' \in Seq(Int)
  BY <1>2, <1>4, <1>6, WrapOnce, SMTT(30)
<1>9. Len(owed') = OnWire' + write_count'
  BY <1>2, <1>3, <1>6, <1>7, SMTT(30)
<1>10. \A i \in 1 .. write_count' :
         write_buf'[(write_head' + i - 1) % BufSize] = owed'[OnWire' + i]
  <2> SUFFICES ASSUME NEW i \in 1 .. write_count'
               PROVE  write_buf'[(write_head' + i - 1) % BufSize] = owed'[OnWire' + i]
    OBVIOUS
  <2>1. i \in Nat /\ i + 1 \in 1 .. write_count /\ i - 1 \in Nat /\ i \in 1 .. write_count
    BY <1>2, <1>6, SMTT(30)
  <2>2. (((write_head + 1) % BufSize) + (i - 1)) % BufSize = (write_head + 1 + (i - 1)) % BufSize
    <3>1. write_head \in Indices /\ write_head + 1 + (i - 1) < 2 * BufSize
      BY <1>0, <1>2, <2>1, SMTT(30) DEF RingTypes
    <3> QED
      BY <3>1, <2>1, MovedHead, SMTT(30)
  <2>3. write_head' + i - 1 = ((write_head + 1) % BufSize) + (i - 1)
    BY <1>2, <1>6, <1>8, <2>1, SMTT(30) DEF Indices
  <2>4. write_head + 1 + (i - 1) = write_head + (i + 1) - 1
    BY <1>2, <2>1, SMTT(30)
  <2>5. write_buf[(write_head + (i + 1) - 1) % BufSize] = owed[i + 1]
    BY <1>3, <2>1
  <2>6. i + 1 = 1 + i
    BY <2>1, SMTT(30)
  <2> QED
    BY <1>6, <1>7, <2>2, <2>3, <2>4, <2>5, <2>6
<1> QED
  BY <1>0, <1>4, <1>6, <1>8, <1>9, <1>10 DEF OwedFacts

(* A sequence after another keeps the order of both. *)
LEMMA Joined ==
  ASSUME NEW s \in Seq(Int), NEW r \in Seq(Int)
  PROVE  /\ s \o r \in Seq(Int) /\ Len(s \o r) = Len(s) + Len(r)
         /\ \A i \in 1 .. Len(s) : (s \o r)[i] = s[i]
         /\ \A i \in 1 .. Len(r) : (s \o r)[Len(s) + i] = r[i]
<1>1. /\ s \o r \in Seq(Int) /\ Len(s \o r) = Len(s) + Len(r)
      /\ \A i \in 1 .. Len(s) + Len(r) :
           (s \o r)[i] = IF i <= Len(s) THEN s[i] ELSE r[i - Len(s)]
  BY ConcatProperties
<1>2. \A i \in 1 .. Len(s) : i \in 1 .. Len(s) + Len(r) /\ i <= Len(s)
  BY SMTT(30)
<1>3. ASSUME NEW i \in 1 .. Len(r)
      PROVE  (s \o r)[Len(s) + i] = r[i]
  <2>1. PICK j : j = Len(s) + i
    OBVIOUS
  <2>2. j \in 1 .. Len(s) + Len(r) /\ ~(j <= Len(s)) /\ j - Len(s) = i
    BY <2>1, SMTT(30)
  <2> QED
    BY <1>1, <2>1, <2>2
<1> QED
  BY <1>1, <1>2, <1>3

(* tty_write puts its characters behind the one in the data port. *)
LEMMA FillInv ==
  ASSUME TTYInv, NEW t \in Callers, WriteFill(t)
  PROVE  /\ write_buf' \in [Indices -> Int] /\ write_count' \in 0 .. BufSize
         /\ left' \in [Callers -> Nat] /\ owed' \in Seq(Int)
         /\ OwedFacts'
<1> DEFINE k == IF left[t] < BufSize THEN left[t] ELSE BufSize
           new == [n \in 1 .. k |-> left[t] - n + 1]
<1>0. RingTypes /\ ControlTypes /\ OwedFacts
  BY DEF TTYInv
<1>1. /\ write_count = 0 /\ write_count' = k
      /\ owed' = owed \o new
      /\ write_head' = write_head
      /\ write_buf' = [i \in Indices |->
           LET n == (i + BufSize - write_head) % BufSize
           IN  IF n < k THEN left[t] - n ELSE write_buf[i]]
      /\ left' = [left EXCEPT ![t] = @ - k]
      /\ data' = data /\ wbusy' = wbusy
  BY DEF WriteFill, Fill, transmitter
<1>2. BufSize \in Nat /\ BufSize > 0 /\ left[t] \in Nat /\ k \in Nat /\ k =< BufSize /\ k =< left[t]
      /\ write_head \in Nat /\ write_head < BufSize /\ owed \in Seq(Int) /\ write_head \in Indices
  BY <1>0, BufSizeAssumption, SMTT(30) DEF RingTypes, Indices
<1> HIDE DEF k
<1>3. new \in Seq(Int) /\ Len(new) = k /\ \A n \in 1 .. k : new[n] = left[t] - n + 1
  BY <1>2, SMTT(30)
<1> HIDE DEF new
<1>4. OnWire' = OnWire /\ OnWire \in {0, 1} /\ Len(owed) = OnWire
  <2>1. Len(owed) = OnWire + 0 /\ OnWire \in {0, 1}
    BY <1>0, <1>1, Wire DEF OwedFacts
  <2>2. Len(owed) = OnWire
    BY <2>1, SMTT(30)
  <2> QED
    BY <1>1, <2>1, <2>2 DEF OnWire
<1>5. /\ owed' \in Seq(Int) /\ Len(owed') = OnWire + k
      /\ \A i \in 1 .. Len(owed) : owed'[i] = owed[i]
      /\ \A i \in 1 .. k : owed'[OnWire + i] = left[t] - i + 1
  <2>1. /\ owed \o new \in Seq(Int) /\ Len(owed \o new) = OnWire + k
        /\ \A i \in 1 .. Len(owed) : (owed \o new)[i] = owed[i]
        /\ \A i \in 1 .. k : (owed \o new)[OnWire + i] = new[i]
    BY <1>2, <1>3, <1>4, Joined
  <2> QED
    BY <1>1, <1>3, <2>1
<1>6. /\ write_buf' \in [Indices -> Int] /\ write_count' \in 0 .. BufSize
      /\ left' \in [Callers -> Nat]
  <2>1. \A i \in Indices : (i + BufSize - write_head) % BufSize \in Int
    BY <1>2, WrapOnce, SMTT(30) DEF Indices
  <2>2. write_buf' \in [Indices -> Int]
    BY <1>0, <1>1, <1>2, <2>1, SMTT(30) DEF RingTypes
  <2>3. write_count' \in 0 .. BufSize
    BY <1>1, <1>2, SMTT(30)
  <2>4. left' \in [Callers -> Nat]
    BY <1>0, <1>1, <1>2, SMTT(30) DEF RingTypes
  <2> QED
    BY <2>2, <2>3, <2>4
<1>7. \A i \in 1 .. write_count' :
        write_buf'[(write_head' + i - 1) % BufSize] = owed'[OnWire' + i]
  <2> SUFFICES ASSUME NEW i \in 1 .. k
               PROVE  write_buf'[(write_head + i - 1) % BufSize] = owed'[OnWire + i]
    BY <1>1, <1>4
  <2> DEFINE x == (write_head + (i - 1)) % BufSize
  <2>1. i - 1 \in Indices /\ write_head + i - 1 = write_head + (i - 1) /\ i - 1 < k
    BY <1>2, SMTT(30) DEF Indices
  <2>2. x \in Indices /\ (x + BufSize - write_head) % BufSize = i - 1
    BY <1>2, <2>1, Offset
  <2> HIDE DEF x
  <2>3. write_buf'[x] = left[t] - (i - 1)
    BY <1>1, <2>1, <2>2
  <2>4. left[t] - (i - 1) = left[t] - i + 1
    BY <1>2, SMTT(30)
  <2> QED
    BY <1>5, <2>1, <2>3, <2>4 DEF x
<1>8. \A i \in 1 .. Len(owed') : owed'[i] # Message
  <2> SUFFICES ASSUME NEW i \in 1 .. OnWire + k
               PROVE  owed'[i] # Message
    BY <1>5
  <2>1. CASE i \in 1 .. Len(owed)
    BY <1>0, <1>5, <2>1 DEF OwedFacts
  <2>2. CASE i \notin 1 .. Len(owed)
    <3>1. i - OnWire \in 1 .. k /\ OnWire + (i - OnWire) = i
      BY <1>2, <1>4, <2>2, SMTT(30)
    <3>2. owed'[i] = left[t] - (i - OnWire) + 1
      BY <1>5, <3>1
    <3> QED
      BY <1>2, <1>4, <3>1, <3>2, SMTT(30) DEF Message
  <2> QED
    BY <2>1, <2>2
<1>9. wbusy' => data' = <<Message>> \/ (owed' # <<>> /\ data' = <<owed'[1]>>)
  <2> SUFFICES ASSUME wbusy, data # <<Message>>
               PROVE  owed' # <<>> /\ data = <<owed'[1]>>
    BY <1>1
  <2>1. Len(owed) >= 1 /\ data = <<owed[1]>>
    BY <1>0, Wire
  <2>2. 1 \in 1 .. Len(owed) /\ owed' # <<>>
    BY <1>2, <1>4, <1>5, <2>1, SMTT(30)
  <2> QED
    BY <1>5, <2>1, <2>2
<1> QED
  BY <1>0, <1>1, <1>4, <1>5, <1>6, <1>7, <1>8, <1>9 DEF OwedFacts

(* The device has sent a character of a caller: the first one owed. *)
LEMMA TransmittedInv ==
  ASSUME TTYInv, Transmitted
  PROVE  data' \in Seq(Int) /\ owed' \in Seq(Int) /\ OwedFacts'
<1>0. RingTypes /\ ControlTypes /\ OwedFacts
  BY DEF TTYInv
<1>1. /\ wbusy /\ wbusy' = FALSE /\ data' = <<>>
      /\ UNCHANGED <<write_buf, write_head, write_count>>
      /\ owed' = IF data = <<Message>> THEN owed ELSE Tail(owed)
  BY DEF Transmitted, writing
<1>2. data' \in Seq(Int) /\ OnWire' = 0
  BY <1>1, SMTT(30) DEF OnWire
<1>3. CASE data = <<Message>>
  <2>1. OnWire = 0 /\ owed' = owed /\ owed \in Seq(Int)
    BY <1>0, <1>1, <1>3, Wire DEF RingTypes
  <2> QED
    BY <1>0, <1>1, <1>2, <2>1 DEF OwedFacts
<1>4. CASE data # <<Message>>
  <2>1. OnWire = 1 /\ Len(owed) >= 1 /\ owed' = Tail(owed)
    BY <1>0, <1>1, <1>4, Wire
  <2>2. owed \in Seq(Int) /\ write_count \in Nat
    BY <1>0, SMTT(30) DEF RingTypes
  <2>3. owed # <<>>
    BY <2>1, <2>2, SMTT(30)
  <2>4. owed' \in Seq(Int) /\ Len(owed') = Len(owed) - 1
        /\ \A i \in 1 .. Len(owed') : owed'[i] = owed[i + 1]
    BY <2>1, <2>2, <2>3, HeadTailProperties
  <2>5. Len(owed) = 1 + write_count
        /\ \A i \in 1 .. write_count : write_buf[(write_head + i - 1) % BufSize] = owed[1 + i]
    BY <1>0, <2>1 DEF OwedFacts
  <2>6. Len(owed') = write_count /\ \A i \in 1 .. write_count : i + 1 = 1 + i /\ 0 + i = i
    BY <2>2, <2>4, <2>5, SMTT(30)
  <2>7. \A i \in 1 .. Len(owed') : owed'[i] # Message
    <3>1. \A i \in 1 .. Len(owed') : i + 1 \in 1 .. Len(owed)
      BY <2>2, <2>5, <2>6, SMTT(30)
    <3> QED
      BY <1>0, <2>4, <3>1 DEF OwedFacts
  <2>8. \A i \in 1 .. write_count : write_buf[(write_head + i - 1) % BufSize] = owed'[0 + i]
    BY <2>4, <2>5, <2>6
  <2>9. Len(owed') = 0 + write_count
    BY <2>2, <2>6, SMTT(30)
  <2> QED
    BY <1>1, <1>2, <2>4, <2>7, <2>8, <2>9 DEF OwedFacts
<1> QED
  BY <1>2, <1>3, <1>4, <1>0 DEF RingTypes

(* What the driver owes to the terminal is in the data port and the ring,  *)
(* whoever takes a step.                                                   *)
LEMMA OwedInv ==
  ASSUME TTYInv, TTYNext
  PROVE  /\ write_buf' \in [Indices -> Int] /\ write_head' \in Indices
         /\ write_count' \in 0 .. BufSize /\ left' \in [Callers -> Nat]
         /\ data' \in Seq(Int) /\ owed' \in Seq(Int)
         /\ OwedFacts'
<1> DEFINE Goal == /\ write_buf' \in [Indices -> Int] /\ write_head' \in Indices
                   /\ write_count' \in 0 .. BufSize /\ left' \in [Callers -> Nat]
                   /\ data' \in Seq(Int) /\ owed' \in Seq(Int)
                   /\ OwedFacts'
<1>0. RingTypes /\ ControlTypes /\ OwedFacts
  BY DEF TTYInv
<1>1. ASSUME UNCHANGED <<write_buf, write_head, write_count, wbusy, data, owed>>,
             left' \in [Callers -> Nat]
      PROVE  Goal
  <2>1. OnWire' = OnWire
    BY <1>1 DEF OnWire
  <2> QED
    BY <1>0, <1>1, <2>1 DEF RingTypes, OwedFacts
<1>2. CASE WriteSame
  BY <1>0, <1>1, <1>2 DEF WriteSame, RingTypes
<1>3. CASE Transmitted
  BY <1>0, <1>3, TransmittedInv DEF Transmitted, writing, RingTypes
<1>4. ASSUME NEW t \in Callers, NEW len \in WriteLens, StartWrite(t, len)
      PROVE  Goal
  <2>1. len \in Nat
    BY LensAssumption
  <2>2. left' \in [Callers -> Nat]
    BY <1>0, <1>4, <2>1 DEF StartWrite, RingTypes
  <2> QED
    BY <1>1, <1>4, <2>2 DEF StartWrite, writing, transmitter, history
<1>5. ASSUME NEW t \in Callers, WriteWait(t)
      PROVE  Goal
  BY <1>0, <1>1, <1>5 DEF WriteWait, transmitter, history, RingTypes
<1>6. ASSUME NEW t \in Callers, WriteFill(t)
      PROVE  Goal
  BY <1>0, <1>6, FillInv DEF WriteFill, transmitter, RingTypes
<1>7. ASSUME NEW t \in Callers, WriteSend(t)
      PROVE  Goal
  <2>1. owed' = owed /\ left' = left
    BY <1>7 DEF WriteSend, history
  <2>2. CASE wbusy
    BY <1>0, <1>1, <1>7, <2>1, <2>2 DEF WriteSend, RingTypes
  <2>3. CASE ~ wbusy
    <3>1. PutFirst /\ write_count > 0
      BY <1>7, <2>3 DEF WriteSend, TTYInv, WriteFacts, Sending
    <3>2. write_buf' = write_buf
      BY <3>1 DEF PutFirst
    <3> QED
      BY <1>0, <2>1, <2>3, <3>1, <3>2, PutFirstInv DEF RingTypes
  <2> QED
    BY <2>2, <2>3
<1>8. ASSUME NEW t \in Callers, polltty_putchar(t)
      PROVE  Goal
  <2>1. /\ data' = <<Message>> /\ wbusy' = TRUE /\ ~ wbusy
        /\ UNCHANGED <<write_buf, write_head, write_count, owed, left>>
    BY <1>8 DEF polltty_putchar, writing, history
  <2>2. OnWire = 0 /\ OnWire' = 0
    BY <1>0, <2>1, Wire DEF OnWire
  <2>3. data' \in Seq(Int)
    BY <2>1, SMTT(30) DEF Message
  <2> QED
    BY <1>0, <2>1, <2>2, <2>3 DEF RingTypes, OwedFacts
<1>9. ASSUME NEW h \in Handlers, HandlerWriteLock(h) \/ HandlerPutDone(h)
      PROVE  Goal
  BY <1>0, <1>1, <1>9 DEF HandlerWriteLock, HandlerPutDone, writing, history, RingTypes
<1>10. ASSUME NEW h \in Handlers, HandlerPut(h)
       PROVE  Goal
  <2>1. PutFirst /\ write_count > 0 /\ ~ wbusy /\ owed' = owed /\ left' = left
    BY <1>10 DEF HandlerPut, history
  <2>2. write_buf' = write_buf
    BY <2>1 DEF PutFirst
  <2> QED
    BY <1>0, <2>1, <2>2, PutFirstInv DEF RingTypes
<1> QED
  BY <1>0, <1>2, <1>3, <1>4, <1>5, <1>6, <1>7, <1>8, <1>9, <1>10, WriteFrame

-----------------------------------------------------------------------------
(* tty_read takes the oldest characters and moves the head past them. *)
LEMMA TakeInv ==
  ASSUME TTYInv, NEW t \in Callers, NEW len \in ReadLens, ReadTake(t, len)
  PROVE  /\ read_head' \in Indices /\ read_count' \in 0 .. BufSize + 1
         /\ unread' \in Seq(Int)
         /\ UnreadFacts'
<1> DEFINE k == IF len < read_count THEN len ELSE read_count
<1>0. RingTypes /\ UnreadFacts
  BY DEF TTYInv
<1>1. /\ read_count > 0 /\ read_head' = (read_head + k) % BufSize /\ read_count' = read_count - k
      /\ unread' = SubSeq(unread, k + 1, Len(unread)) /\ read_buf' = read_buf
  BY DEF ReadTake
<1>2. len \in Nat /\ len > 0
  BY LensAssumption, SMTT(30)
<1>3. BufSize \in Nat /\ BufSize > 0 /\ read_count \in Nat /\ read_count =< BufSize + 1
      /\ k \in Nat /\ k >= 1 /\ k =< read_count /\ read_head \in Nat /\ read_head < BufSize
      /\ read_head \in Indices /\ unread \in Seq(Int) /\ Len(unread) = read_count
  BY <1>0, <1>1, <1>2, BufSizeAssumption, SMTT(30) DEF RingTypes, Indices, UnreadFacts
<1> HIDE DEF k
<1>4. /\ unread' \in Seq(Int) /\ Len(unread') = read_count - k
      /\ \A i \in 1 .. read_count - k : unread'[i] = unread[k + i]
  <2>1. \A i \in k + 1 .. Len(unread) : unread[i] \in Int
    BY <1>3, SMTT(30)
  <2>2. k + 1 \in Int /\ Len(unread) \in Int
    BY <1>3, SMTT(30)
  <2> DEFINE m == k + 1
             n == Len(unread)
  <2>5. m \in Int /\ n \in Int /\ \A i \in m .. n : unread[i] \in Int
    BY <2>1, <2>2
  <2> HIDE DEF m, n
  <2>3. /\ SubSeq(unread, m, n) \in Seq(Int)
        /\ Len(SubSeq(unread, m, n)) = IF m <= n THEN n - m + 1 ELSE 0
        /\ \A i \in 1 .. n - m + 1 : SubSeq(unread, m, n)[i] = unread[m + i - 1]
    BY <1>3, <2>5, SMTT(30) DEF n
  <2>6. unread' = SubSeq(unread, m, n)
    BY <1>1 DEF m, n
  <2>4. Len(unread') = read_count - k /\ n - m + 1 = read_count - k
        /\ \A i \in 1 .. read_count - k : m + i - 1 = k + i
    BY <1>3, <2>3, <2>6, SMTT(30) DEF m, n
  <2> QED
    BY <2>3, <2>4, <2>6
<1>5. read_head' \in Indices /\ read_count' \in 0 .. BufSize + 1
  BY <1>1, <1>3, WrapOnce, SMTT(30)
<1>6. ASSUME NEW i \in 1 .. read_count - k
      PROVE  read_buf[(read_head' + i - 1) % BufSize] = unread[k + i]
  <2>1. k + i \in 1 .. read_count /\ k + i > 1 /\ i - 1 \in Nat
        /\ read_head + k + (i - 1) < 2 * BufSize
        /\ read_head + k + (i - 1) = read_head + (k + i) - 1
        /\ read_head' + i - 1 = ((read_head + k) % BufSize) + (i - 1)
    BY <1>1, <1>3, <1>5, SMTT(30) DEF Indices
  <2>2. (((read_head + k) % BufSize) + (i - 1)) % BufSize = (read_head + k + (i - 1)) % BufSize
    BY <1>3, <2>1, MovedHead
  <2>3. read_buf[(read_head + (k + i) - 1) % BufSize] = unread[k + i]
    BY <1>0, <2>1 DEF UnreadFacts
  <2> QED
    BY <2>1, <2>2, <2>3
<1> QED
  BY <1>1, <1>4, <1>5, <1>6 DEF UnreadFacts

(* The handler puts a character behind the others, or in the place of the  *)
(* oldest when there is one too many.                                      *)
LEMMA GetInv ==
  ASSUME TTYInv, NEW h \in Handlers, HandlerGet(h)
  PROVE  /\ read_buf' \in [Indices -> Int] /\ read_count' \in 0 .. BufSize + 1
         /\ unread' \in Seq(Int) /\ avail' \in Seq(Int)
         /\ UnreadFacts'
<1>0. RingTypes /\ UnreadFacts
  BY DEF TTYInv
<1>1. avail \in Seq(Int) /\ avail # <<>> /\ avail' = Tail(avail) /\ read_head' = read_head
  BY <1>0 DEF HandlerGet, RingTypes
<1>2. avail' \in Seq(Int) /\ Head(avail) \in Int
  BY <1>1, HeadTailProperties
<1>3. BufSize \in Nat /\ BufSize > 0 /\ read_count \in Nat /\ read_count =< BufSize + 1
      /\ read_head \in Nat /\ read_head < BufSize /\ read_head \in Indices
      /\ unread \in Seq(Int) /\ Len(unread) = read_count /\ read_buf \in [Indices -> Int]
  BY <1>0, BufSizeAssumption, SMTT(30) DEF RingTypes, Indices, UnreadFacts
<1>4. CASE read_count > BufSize
  <2>1. UNCHANGED <<read_buf, read_head, read_count, unread>>
    BY <1>1, <1>4 DEF HandlerGet
  <2> QED
    BY <1>0, <1>2, <2>1 DEF RingTypes, UnreadFacts
<1>5. CASE ~(read_count > BufSize)
  <2> DEFINE x == (read_head + read_count) % BufSize
  <2>1. /\ read_buf' = [read_buf EXCEPT ![x] = Head(avail)]
        /\ read_count' = read_count + 1
        /\ unread' = Append(unread, Head(avail))
    BY <1>5 DEF HandlerGet
  <2>2. x \in Indices
    BY <1>3, WrapOnce, SMTT(30)
  <2> HIDE DEF x
  <2>3. read_buf' \in [Indices -> Int] /\ read_buf'[x] = Head(avail)
        /\ \A i \in Indices : i # x => read_buf'[i] = read_buf[i]
    BY <1>2, <1>3, <2>1, <2>2
  <2>4. read_count' \in 0 .. BufSize + 1
    BY <1>3, <1>5, <2>1, SMTT(30)
  <2>5. unread' \in Seq(Int) /\ Len(unread') = read_count + 1
        /\ unread'[read_count + 1] = Head(avail)
        /\ \A i \in 1 .. read_count : unread'[i] = unread[i]
    <3>1. PICK c \in Int : c = Head(avail)
      BY <1>2
    <3>2. /\ Append(unread, c) \in Seq(Int) /\ Len(Append(unread, c)) = Len(unread) + 1
          /\ \A i \in 1 .. Len(unread) : Append(unread, c)[i] = unread[i]
          /\ Append(unread, c)[Len(unread) + 1] = c
      BY <1>3, SMTT(30)
    <3> QED
      BY <1>3, <2>1, <3>1, <3>2
  <2>6. ASSUME NEW i \in 1 .. read_count', i > 1 \/ read_count' <= BufSize
        PROVE  read_buf'[(read_head' + i - 1) % BufSize] = unread'[i]
    <3>1. CASE i = read_count + 1
      <4>1. read_head + i - 1 = read_head + read_count
        BY <1>3, <3>1, SMTT(30)
      <4> QED
        BY <1>1, <2>3, <2>5, <3>1, <4>1 DEF x
    <3>2. CASE i # read_count + 1
      <4>1. i \in 1 .. read_count /\ i - 1 \in Nat /\ i - 1 < read_count
            /\ read_count - (i - 1) < BufSize /\ read_count =< BufSize
            /\ read_head + i - 1 = read_head + (i - 1)
            /\ (i > 1 \/ read_count <= BufSize)
            /\ read_head + (i - 1) \in Nat
        BY <1>3, <1>5, <2>1, <2>6, <3>2, SMTT(30)
      <4>2. (read_head + (i - 1)) % BufSize # x
        BY <1>3, <4>1, Apart DEF x
      <4>3. (read_head + (i - 1)) % BufSize \in Indices
        BY <4>1, WrapOnce
      <4>4. read_buf'[(read_head + (i - 1)) % BufSize] = read_buf[(read_head + (i - 1)) % BufSize]
        BY <2>3, <4>2, <4>3
      <4>5. read_buf[(read_head + i - 1) % BufSize] = unread[i]
        BY <1>0, <4>1 DEF UnreadFacts
      <4> QED
        BY <1>1, <2>5, <4>1, <4>4, <4>5
    <3> QED
      BY <3>1, <3>2
  <2> QED
    BY <1>2, <2>1, <2>3, <2>4, <2>5, <2>6 DEF UnreadFacts
<1> QED
  BY <1>4, <1>5

(* What readers have not read yet is in the ring, whoever takes a step. *)
LEMMA UnreadInv ==
  ASSUME TTYInv, TTYNext
  PROVE  /\ read_buf' \in [Indices -> Int] /\ read_head' \in Indices
         /\ read_count' \in 0 .. BufSize + 1
         /\ avail' \in Seq(Int) /\ unread' \in Seq(Int)
         /\ UnreadFacts'
<1> DEFINE Goal == /\ read_buf' \in [Indices -> Int] /\ read_head' \in Indices
                   /\ read_count' \in 0 .. BufSize + 1
                   /\ avail' \in Seq(Int) /\ unread' \in Seq(Int)
                   /\ UnreadFacts'
<1>0. RingTypes /\ ControlTypes /\ UnreadFacts
  BY DEF TTYInv
<1>1. ASSUME UNCHANGED <<read_buf, read_head, read_count, unread>>, avail' \in Seq(Int)
      PROVE  Goal
  BY <1>0, <1>1 DEF RingTypes, UnreadFacts
<1>2. CASE ReadSame
  BY <1>0, <1>1, <1>2 DEF ReadSame, RingTypes
<1>3. ASSUME NEW t \in Callers, ReadWait(t)
      PROVE  Goal
  BY <1>0, <1>1, <1>3 DEF ReadWait, receiver, history, RingTypes
<1>4. ASSUME NEW t \in Callers, NEW len \in ReadLens, ReadTake(t, len)
      PROVE  Goal
  BY <1>0, <1>4, TakeInv DEF ReadTake, receiver, RingTypes
<1>5. ASSUME NEW h \in Handlers, HandlerGet(h)
      PROVE  Goal
  BY <1>0, <1>5, GetInv DEF HandlerGet, RingTypes
<1>6. ASSUME NEW h \in Handlers, HandlerWake(h)
      PROVE  Goal
  BY <1>0, <1>1, <1>6 DEF HandlerWake, receiver, history, RingTypes
<1>7. CASE Typed
  <2> DEFINE before == unread \o avail
             c == IF before = <<>> THEN 1 ELSE 3 - before[Len(before)]
  <2>1. avail \in Seq(Int) /\ before \in Seq(Int)
    BY <1>0, Joined DEF RingTypes
  <2>2. avail' = Append(avail, c) /\ UNCHANGED <<read_buf, read_head, read_count, unread>>
    BY <1>7 DEF Typed, reading, history
  <2> HIDE DEF before
  <2>3. c \in Int
    BY <2>1, SMTT(30)
  <2> HIDE DEF c
  <2>4. avail' \in Seq(Int)
    BY <2>1, <2>2, <2>3, SMTT(30)
  <2> QED
    BY <1>1, <2>2, <2>4
<1> QED
  BY <1>0, <1>2, <1>3, <1>4, <1>5, <1>6, <1>7, ReadFrame

(* Every step of the terminal driver keeps the invariant. *)
LEMMA NextInv == TTYInv /\ [TTYNext]_ttyvars => TTYInv'
<1> SUFFICES ASSUME TTYInv, [TTYNext]_ttyvars PROVE TTYInv'
  OBVIOUS
<1>1. CASE TTYNext
  <2>1. RingTypes' /\ OwedFacts' /\ UnreadFacts'
    BY <1>1, OwedInv, UnreadInv DEF RingTypes, Indices
  <2> QED
    BY <1>1, <2>1, ControlInv, LockInv, WriteInv, ReadInv DEF TTYInv
<1>2. CASE UNCHANGED ttyvars
  <2>1. UNCHANGED <<slock, read_buf, read_head, read_count, write_buf, write_head, write_count,
                    readq, writeq, wbusy, wirq, wirqe, data, rirq, avail, doing, left, serving,
                    owed, unread>>
    BY <1>2 DEF ttyvars, reading, writing, transmitter, receiver, history
  <2>2. RingTypes' /\ ControlTypes' /\ LockFacts'
    BY <2>1 DEF TTYInv, RingTypes, ControlTypes, LockFacts
  <2>3. WriteFacts' /\ ReadFacts'
    BY <2>1 DEF TTYInv, WriteFacts, ReadFacts, Sending, Putting
  <2>4. OwedFacts' /\ UnreadFacts'
    BY <2>1 DEF TTYInv, OwedFacts, UnreadFacts, OnWire
  <2> QED
    BY <2>2, <2>3, <2>4 DEF TTYInv
<1> QED
  BY <1>1, <1>2

(* The invariant holds in every reachable state of the terminal driver. *)
THEOREM TTYInvariance == TTYSpec => []TTYInv
BY InitInv, NextInv, PTL DEF TTYSpec

(* tty_write: whatever is in the buffer while nobody holds the spinlock,   *)
(* the device is busy or has interrupted, so that the handler will come.   *)
THEOREM BufferIsSent == TTYSpec => []InterruptComes
<1>1. TTYInv => InterruptComes
  <2> SUFFICES ASSUME TTYInv, slock = None, write_count > 0
               PROVE  wirqe /\ (wbusy \/ wirq)
    BY DEF InterruptComes
  <2>1. ~ Sending /\ ~ Putting
    BY Actors DEF TTYInv, LockFacts, Sending, Putting
  <2> QED
    BY <2>1 DEF TTYInv, WriteFacts
<1> QED
  BY <1>1, TTYInvariance, PTL

(* tty_write and tty_read: nobody sleeps on a buffer whose wake-up has     *)
(* been given already.                                                     *)
THEOREM NobodyForgotten == TTYSpec => []SleepersRemembered
<1>1. TTYInv => SleepersRemembered
  <2> SUFFICES ASSUME TTYInv
               PROVE  SleepersRemembered
    OBVIOUS
  <2>1. slock = None => ~ Putting
    BY Actors DEF TTYInv, LockFacts, Putting
  <2> QED
    BY <2>1 DEF TTYInv, WriteFacts, ReadFacts, SleepersRemembered
<1> QED
  BY <1>1, TTYInvariance, PTL

(* A ring is a sequence. *)
LEMMA RingSeq ==
  ASSUME NEW buf \in [Indices -> Int], NEW head \in Indices, NEW n \in Nat
  PROVE  /\ Ring(buf, head, n) \in Seq(Int) /\ Len(Ring(buf, head, n)) = n
         /\ \A i \in 1 .. n : Ring(buf, head, n)[i] = buf[(head + i - 1) % BufSize]
<1>0. \A i \in 1 .. n : head + i - 1 \in Nat
  BY SMTT(30) DEF Indices
<1>1. \A i \in 1 .. n : (head + i - 1) % BufSize \in Indices
  BY <1>0, WrapOnce
<1> DEFINE cell(i) == buf[(head + i - 1) % BufSize]
<1>2. \A i \in 1 .. n : cell(i) \in Int
  BY <1>1
<1>3. Ring(buf, head, n) = [i \in 1 .. n |-> cell(i)]
  BY DEF Ring
<1> HIDE DEF cell
<1>4. [i \in 1 .. n |-> cell(i)] \in Seq(Int) /\ Len([i \in 1 .. n |-> cell(i)]) = n
  BY <1>2, SMTT(30)
<1>5. \A i \in 1 .. n : Ring(buf, head, n)[i] = cell(i)
  BY <1>3
<1> QED
  BY <1>3, <1>4, <1>5 DEF cell

(* Nothing a caller of tty_write has handed over is lost, repeated or      *)
(* reordered on its way to the terminal, and what is typed is read in its  *)
(* order, but for the oldest character when one too many is admitted.      *)
THEOREM NothingLost == TTYSpec => []RingsInOrder
<1>1. TTYInv => RingsInOrder
  <2> SUFFICES ASSUME TTYInv
               PROVE  RingsInOrder
    OBVIOUS
  <2> DEFINE typed == Ring(read_buf, read_head, read_count)
             ring == Ring(write_buf, write_head, write_count)
             port == IF data = <<Message>> THEN <<>> ELSE data
  <2>0. RingTypes /\ ControlTypes /\ OwedFacts /\ UnreadFacts
    BY DEF TTYInv
  <2>1. write_count <= BufSize /\ write_count \in Nat /\ read_count \in Nat
        /\ read_count =< BufSize + 1 /\ BufSize \in Nat
    BY <2>0, BufSizeAssumption, SMTT(30) DEF RingTypes
  <2>2. /\ typed \in Seq(Int) /\ Len(typed) = read_count
        /\ \A i \in 1 .. read_count : typed[i] = read_buf[(read_head + i - 1) % BufSize]
    BY <2>0, <2>1, RingSeq DEF RingTypes
  <2>3. /\ ring \in Seq(Int) /\ Len(ring) = write_count
        /\ \A i \in 1 .. write_count : ring[i] = write_buf[(write_head + i - 1) % BufSize]
    BY <2>0, <2>1, RingSeq DEF RingTypes
  <2>4. /\ port \in Seq(Int) /\ Len(port) = OnWire /\ OnWire \in {0, 1}
        /\ OnWire = 1 => Len(owed) >= 1 /\ port[1] = owed[1]
    <3>1. CASE data = <<>> \/ data = <<Message>>
      <4>1. port = <<>> /\ OnWire = 0
        BY <3>1 DEF OnWire
      <4> HIDE DEF port
      <4> QED
        BY <4>1, SMTT(30)
    <3>2. CASE ~(data = <<>> \/ data = <<Message>>)
      <4>1. wbusy
        BY <2>0, <3>2 DEF OwedFacts
      <4>2. OnWire = 1 /\ Len(owed) >= 1 /\ data = <<owed[1]>> /\ port = data
        BY <2>0, <3>2, <4>1, Wire
      <4>3. port \in Seq(Int) /\ Len(port) = 1 /\ port[1] = owed[1]
        <5>1. data \in Seq(Int)
          BY <2>0 DEF RingTypes
        <5>2. Len(data) = 1 /\ data[1] = owed[1]
          BY <4>2, SMTT(30)
        <5> QED
          BY <4>2, <5>1, <5>2
      <4> QED
        BY <4>2, <4>3
    <3> QED
      BY <3>1, <3>2
  <2> HIDE DEF typed, ring, port
  <2>5. owed = port \o ring
    <3>1. /\ port \o ring \in Seq(Int) /\ Len(port \o ring) = Len(port) + Len(ring)
          /\ \A i \in 1 .. Len(port) : (port \o ring)[i] = port[i]
          /\ \A i \in 1 .. Len(ring) : (port \o ring)[Len(port) + i] = ring[i]
      BY <2>3, <2>4, Joined
    <3>2. owed \in Seq(Int) /\ Len(owed) = OnWire + write_count
          /\ \A i \in 1 .. write_count :
               write_buf[(write_head + i - 1) % BufSize] = owed[OnWire + i]
      BY <2>0 DEF RingTypes, OwedFacts
    <3>3. ASSUME NEW i \in 1 .. Len(owed)
          PROVE  owed[i] = (port \o ring)[i]
      <4>1. CASE i <= OnWire
        <5>1. i = 1 /\ OnWire = 1 /\ 1 \in 1 .. Len(port)
          BY <2>4, <3>2, <4>1, SMTT(30)
        <5> QED
          BY <2>4, <3>1, <5>1
      <4>2. CASE ~(i <= OnWire)
        <5>1. PICK k \in 1 .. write_count : i = OnWire + k
          <6>1. i - OnWire \in 1 .. write_count /\ i = OnWire + (i - OnWire)
            BY <2>1, <2>4, <3>2, <4>2, SMTT(30)
          <6> QED
            BY <6>1
        <5> QED
          BY <2>3, <2>4, <3>1, <3>2, <5>1
      <4> QED
        BY <4>1, <4>2
    <3>4. Len(owed) = Len(port \o ring)
      BY <2>3, <2>4, <3>1, <3>2
    <3> QED
      BY <3>1, <3>2, <3>3, <3>4, SeqEqual
  <2>6. unread \in Seq(Int) /\ Len(unread) = read_count
    BY <2>0 DEF RingTypes, UnreadFacts
  <2>7. CASE read_count <= BufSize
    <3>1. \A i \in 1 .. read_count : typed[i] = unread[i]
      BY <2>0, <2>2, <2>7 DEF UnreadFacts
    <3>2. typed = unread
      BY <2>2, <2>6, <3>1, SeqEqual
    <3> QED
      BY <2>1, <2>5, <3>2 DEF RingsInOrder, typed, ring, port
  <2>8. CASE ~(read_count <= BufSize)
    <3> DEFINE new == [unread EXCEPT ![1] = unread[read_count]]
    <3>1. read_count = BufSize + 1 /\ BufSize > 0
      BY <2>1, <2>8, BufSizeAssumption, SMTT(30)
    <3>2. new \in Seq(Int) /\ Len(new) = read_count /\ new[1] = unread[read_count]
          /\ \A i \in 1 .. read_count : i > 1 => new[i] = unread[i]
      BY <2>1, <2>6, <3>1, SMTT(30)
    <3> HIDE DEF new
    <3>3. typed[1] = unread[read_count]
      <4>1. 1 \in 1 .. read_count /\ read_count \in 1 .. read_count /\ read_count > 1
            /\ read_head + 1 - 1 = read_head
            /\ read_head + read_count - 1 = read_head + BufSize
            /\ read_head \in Nat /\ read_head < BufSize
        BY <2>0, <2>1, <3>1, SMTT(30) DEF RingTypes, Indices
      <4>2. read_head % BufSize = (read_head + BufSize) % BufSize
        BY <2>1, <3>1, <4>1, WrapOnce, SMTT(30)
      <4>3. read_buf[(read_head + read_count - 1) % BufSize] = unread[read_count]
        BY <2>0, <4>1 DEF UnreadFacts
      <4> QED
        BY <2>2, <4>1, <4>2, <4>3
    <3>4. \A i \in 1 .. read_count : i = 1 \/ i > 1
      BY <2>1, SMTT(30)
    <3>5. \A i \in 1 .. read_count : i > 1 => typed[i] = unread[i]
      BY <2>0, <2>2 DEF UnreadFacts
    <3>6. \A i \in 1 .. read_count : typed[i] = new[i]
      BY <3>2, <3>3, <3>4, <3>5
    <3>7. typed = new
      BY <2>2, <3>2, <3>6, SeqEqual
    <3> QED
      BY <2>1, <2>5, <3>1, <3>7 DEF RingsInOrder, typed, ring, port, new
  <2> QED
    BY <2>7, <2>8
<1> QED
  BY <1>1, TTYInvariance, PTL

-----------------------------------------------------------------------------
(* A set of numbers that is not empty has a least one. *)
LEMMA LeastNumber ==
  ASSUME NEW S, S \subseteq Nat, S # {}
  PROVE  Min(S) \in S /\ \A y \in S : Min(S) =< y
<1>1. PICK x \in S : \A y \in S : ~(<<y, x>> \in OpToRel(<, Nat))
  BY NatLessThanWellFounded, WFMin
<1>2. \A y \in S : x =< y
  <2> SUFFICES ASSUME NEW y \in S, ~(x =< y) PROVE FALSE
    OBVIOUS
  <2>1. y < x /\ <<y, x>> \in Nat \X Nat
    BY SMTT(30)
  <2>2. <<y, x>> \in OpToRel(<, Nat)
    BY <2>1 DEF OpToRel
  <2> QED
    BY <1>1, <2>2
<1> QED
  BY <1>2 DEF Min

-----------------------------------------------------------------------------
(* The keyboard. *)

(* What kb_code may hold. *)
Codes == {INVALID_SCANCODE, "NUL", "NL", "a", "A"}

(* The variables of the keyboard hold values of their types. *)
KeyboardTypes ==
  /\ kb_irq \in BOOLEAN /\ kb_shift \in BOOLEAN
  /\ kb_code \in Codes
  /\ scan = <<>> \/ \E code \in ScanCodes : scan = <<code>>
  /\ at \in [Readers -> {"idle", "poll", "discard"}]
  /\ key \in [Readers -> Codes]
  /\ since \in [Readers -> Seq(Codes)]

(* A reader that has no key to discard has not seen the one that kb_code   *)
(* holds: it is the last one typed since.                                  *)
Fresh(r) ==
  kb_code # INVALID_SCANCODE /\ at[r] # "discard" =>
    since[r] # <<>> /\ since[r][Len(since[r])] = kb_code

KeyboardInv == KeyboardTypes /\ (kb_irq => \A r \in Readers : Fresh(r))

(* What follows a key in what was typed is a sequence of keys. *)
LEMMA AfterType ==
  ASSUME NEW typed \in Seq(Codes), NEW char
  PROVE  After(typed, char) \in Seq(Codes)
<1> DEFINE places == {i \in 1 .. Len(typed) : typed[i] = char}
           first == Min(places)
<1>1. CASE places = {}
  BY <1>1 DEF After
<1>2. CASE places # {}
  <2>1. places \subseteq Nat
    BY SMTT(30)
  <2>2. first \in places
    BY <1>2, <2>1, LeastNumber
  <2>3. first \in 1 .. Len(typed)
    BY <2>2
  <2>4. After(typed, char) = SubSeq(typed, first + 1, Len(typed))
    BY <1>2 DEF After
  <2> HIDE DEF first, places
  <2> QED
    BY <2>3, <2>4, SMTT(30)
<1> QED
  BY <1>1, <1>2

(* The last of a sequence to which a key is appended is that key. *)
LEMMA AppendLast ==
  ASSUME NEW typed \in Seq(Codes), NEW char \in Codes
  PROVE  LET longer == Append(typed, char)
         IN  longer \in Seq(Codes) /\ longer # <<>> /\ longer[Len(longer)] = char
<1> HIDE DEF Codes
<1> QED
  BY SMTT(30)

(* The keys give what kb_code may hold. *)
LEMMA Characters ==
  \A k \in DOMAIN kb_map : kb_map[k] \in Codes /\ kb_map_shift[k] \in Codes
<1>1. \A k \in DOMAIN kb_map : k \in {"a", "enter", "alt"}
  BY SMTT(30) DEF kb_map
<1>2. /\ kb_map["a"] = "a" /\ kb_map["enter"] = "NL" /\ kb_map["alt"] = "NUL"
      /\ kb_map_shift["a"] = "A" /\ kb_map_shift["enter"] = "NL" /\ kb_map_shift["alt"] = "NUL"
  BY SMTT(30) DEF kb_map, kb_map_shift
<1> QED
  BY <1>1, <1>2 DEF Codes

(* The invariant holds when the keyboard has been set up. *)
LEMMA KeyboardInitInv ==
  ASSUME keyboard_init PROVE KeyboardInv
<1>1. kb_code \in Codes
  BY DEF keyboard_init, Codes
<1>2. since \in [Readers -> Seq(Codes)]
  <2>1. <<>> \in Seq(Codes)
    BY SMTT(30)
  <2> QED
    BY <2>1 DEF keyboard_init
<1>3. key \in [Readers -> Codes]
  BY DEF keyboard_init, Codes
<1>4. KeyboardTypes
  BY <1>1, <1>2, <1>3 DEF keyboard_init, KeyboardTypes
<1> QED
  BY <1>4 DEF keyboard_init, KeyboardInv, Fresh

(* Every step of the interrupt handler and of a reader keeps the invariant. *)
LEMMA KeyboardNextInv ==
  ASSUME KeyboardInv, [KeyboardNext]_keyboardvars PROVE KeyboardInv'
<1> USE DEF KeyboardInv
<1>1. CASE UNCHANGED keyboardvars
  BY <1>1 DEF keyboardvars, keys, KeyboardTypes, Fresh
<1>2. CASE KeyMoves
  <2>1. KeyboardTypes'
    BY <1>2 DEF KeyMoves, KeyboardTypes, keys
  <2> QED
    BY <1>2, <2>1 DEF KeyMoves, keys, Fresh
<1>3. CASE keyboard_key_int
  <2>1. kb_irq' = kb_irq /\ kb_irq /\ at' = at /\ key' = key /\ scan' = <<>>
    BY <1>3 DEF keyboard_key_int
  <2>2. PICK code \in ScanCodes : scan = <<code>>
    BY <1>3 DEF keyboard_key_int, KeyboardTypes
  <2>3. scan[1] = code
    BY <2>2, SMTT(30)
  <2>4. kb_shift' \in BOOLEAN
    BY <1>3 DEF keyboard_key_int, KeyboardTypes
  <2>5. CASE code.key \in DOMAIN kb_map /\ ~ code.up
    <3> DEFINE char == IF kb_shift THEN kb_map_shift[code.key] ELSE kb_map[code.key]
    <3>1. /\ kb_code' = char
          /\ since' = [r \in Readers |-> Append(since[r], char)]
      BY <1>3, <2>3, <2>5 DEF keyboard_key_int, Pressed
    <3>2. char \in Codes
      BY <2>5, Characters
    <3> HIDE DEF char
    <3>3. ASSUME NEW r \in Readers
          PROVE  /\ since'[r] \in Seq(Codes) /\ since'[r] # <<>>
                 /\ since'[r][Len(since'[r])] = kb_code'
      <4>1. since'[r] = Append(since[r], char) /\ since[r] \in Seq(Codes)
        BY <3>1 DEF KeyboardTypes
      <4> QED
        BY <3>1, <3>2, <4>1, AppendLast
    <3>4. since' \in [Readers -> Seq(Codes)]
      BY <3>1, <3>3
    <3> QED
      BY <2>1, <2>4, <3>1, <3>2, <3>3, <3>4 DEF KeyboardTypes, Fresh
  <2>6. CASE ~(code.key \in DOMAIN kb_map /\ ~ code.up)
    <3>1. kb_code' = kb_code /\ since' = since
      BY <1>3, <2>3, <2>6 DEF keyboard_key_int
    <3> QED
      BY <2>1, <2>4, <3>1 DEF KeyboardTypes, Fresh
  <2> QED
    BY <2>5, <2>6
<1>4. ASSUME NEW r \in Readers, NEW len \in LineLens, tty_read(r, len)
      PROVE  KeyboardInv'
  <2>1. KeyboardTypes'
    BY <1>4 DEF tty_read, KeyboardTypes, keys
  <2>2. \A q \in Readers : at[q] = "discard" => at'[q] = "discard"
    BY <1>4 DEF tty_read, KeyboardTypes
  <2> QED
    BY <1>4, <2>1, <2>2 DEF tty_read, keys, Fresh
<1>5. ASSUME NEW r \in Readers, keyboard_getlastkey(r)
      PROVE  KeyboardInv'
  <2>1. After(since[r], kb_code) \in Seq(Codes)
    BY AfterType DEF KeyboardTypes
  <2>2. KeyboardTypes'
    BY <1>5, <2>1 DEF keyboard_getlastkey, KeyboardTypes, keys
  <2>3. \A q \in Readers : q = r \/ (at'[q] = at[q] /\ since'[q] = since[q])
    BY <1>5 DEF keyboard_getlastkey, KeyboardTypes
  <2>4. at'[r] = "discard"
    BY <1>5 DEF keyboard_getlastkey, KeyboardTypes
  <2> QED
    BY <1>5, <2>2, <2>3, <2>4 DEF keyboard_getlastkey, keys, Fresh
<1>6. ASSUME NEW r \in Readers, keyboard_discardkey(r)
      PROVE  KeyboardInv'
  <2>1. kb_code' \in Codes
    BY <1>6 DEF keyboard_discardkey, Codes
  <2>2. KeyboardTypes'
    BY <1>6, <2>1 DEF keyboard_discardkey, KeyboardTypes
  <2> QED
    BY <1>6, <2>2 DEF keyboard_discardkey, Fresh
<1> QED
  BY <1>1, <1>2, <1>3, <1>4, <1>5, <1>6 DEF KeyboardNext, Spin

(* A reader takes only keys typed since the last one it took, in order,    *)
(* whatever the interrupt handler and other readers do meanwhile           *)
(* (KeysInOrder).                                                          *)
THEOREM KeysStayInOrder == KeyboardSpec => KeysInOrder
<1>1. KeyboardSpec => []KeyboardInv
  BY KeyboardInitInv, KeyboardNextInv, PTL DEF KeyboardSpec
<1> DEFINE Got == \A r \in Readers :
             kb_irq /\ at[r] = "poll" /\ at'[r] = "discard" => key'[r] \in Range(since[r])
<1>2. ASSUME KeyboardInv, [KeyboardNext]_keyboardvars PROVE [Got]_keyboardvars
  <2> SUFFICES ASSUME KeyboardNext, NEW r \in Readers,
                      kb_irq, at[r] = "poll", at'[r] = "discard"
               PROVE  key'[r] \in Range(since[r])
    BY <1>2
  <2>1. keyboard_getlastkey(r)
    <3>1. ASSUME NEW q \in Readers, q # r,
                 (\E len \in LineLens : tty_read(q, len)) \/ keyboard_getlastkey(q)
                   \/ keyboard_discardkey(q)
          PROVE  at'[r] = at[r]
      BY <1>2, <3>1 DEF tty_read, keyboard_getlastkey, keyboard_discardkey,
                        KeyboardInv, KeyboardTypes
    <3>2. KeyMoves \/ keyboard_key_int \/ (\E q \in Readers : Spin(q)) => at' = at
      BY DEF KeyMoves, keyboard_key_int, Spin, keyboardvars
    <3>3. ~ (\E len \in LineLens : tty_read(r, len)) /\ ~ keyboard_discardkey(r)
      BY DEF tty_read, keyboard_discardkey
    <3>4. "poll" # "discard"
      OBVIOUS
    <3> QED
      BY <3>1, <3>2, <3>3, <3>4 DEF KeyboardNext
  <2>2. key'[r] = kb_code /\ kb_code # INVALID_SCANCODE
    BY <1>2, <2>1 DEF keyboard_getlastkey, KeyboardInv, KeyboardTypes
  <2>3. /\ since[r] # <<>> /\ since[r][Len(since[r])] = kb_code
        /\ since[r] \in Seq(Codes)
    BY <1>2, <2>2 DEF KeyboardInv, KeyboardTypes, Fresh
  <2>4. Len(since[r]) \in DOMAIN since[r]
    BY <2>3, SMTT(30)
  <2> QED
    BY <2>2, <2>3, <2>4 DEF Range
<1> QED
  BY <1>1, <1>2, PTL DEF KeyboardSpec, KeysInOrder

-----------------------------------------------------------------------------
(* The screen. *)

(* The characters of the screen, and its lines. *)
Glyphs == {Blank} \cup Range(Boot) \cup UNION {Range(text) : text \in Texts}
Places == 0 .. Columns - 1
Lines == [Places -> Glyphs]
BlankLine == [x \in Places |-> Blank]

(* Video memory v shows the lines. *)
Shows(v, lines) ==
  \A y \in 0 .. Rows - 1, x \in Places :
    v[y * Columns + x] = IF y < Len(lines) THEN lines[y + 1][x] ELSE BootLine(y)[x]

OnScreen(v, y, lines) ==
  /\ v \in [Cells -> Glyphs] /\ lines \in Seq(Lines)
  /\ y \in 0 .. Rows - 1 /\ Len(lines) = y + 1
  /\ Shows(v, lines)

(* The screen s is the terminal p. *)
Matches(s, p) ==
  /\ s = [v |-> s.v, x |-> s.x, y |-> s.y] /\ p = [lines |-> p.lines, x |-> p.x]
  /\ OnScreen(s.v, s.y, p.lines)
  /\ s.x \in Places /\ p.x = s.x

-----------------------------------------------------------------------------
(* Line y ends before line z begins. *)
LEMMA Product ==
  ASSUME NEW a \in Nat, NEW y \in Nat, NEW z \in Nat, y < z
  PROVE  y * a \in Nat /\ z * a \in Nat /\ y * a + a <= z * a
<1>1. y * a \in Nat /\ z * a \in Nat
  BY SMTT(30)
<1>2. y + 1 \in Nat /\ y + 1 <= z
  BY SMTT(30)
<1>3. \A b, c \in Nat : b <= c => b * a <= c * a
  BY SMTT(30)
<1>4. (y + 1) * a <= z * a
  BY <1>2, <1>3
<1>5. (y + 1) * a = y * a + a
  BY SMTT(30)
<1> QED
  BY <1>1, <1>4, <1>5

(* Every place of every line is a cell of video memory, ... *)
LEMMA CellNumber ==
  ASSUME NEW y \in 0 .. Rows - 1, NEW x \in Places
  PROVE  y * Columns + x \in Cells
<1>1. Rows \in Nat /\ Columns \in Nat /\ y \in Nat /\ y < Rows
  BY ScreenAssumption, SMTT(30)
<1> DEFINE a == y * Columns
           b == Rows * Columns
<1>2. a \in Nat /\ b \in Nat /\ a + Columns <= b
  BY <1>1, Product
<1> HIDE DEF a, b
<1>3. x \in 0 .. Columns - 1
  BY DEF Places
<1>4. a + x \in 0 .. b - 1
  BY <1>1, <1>2, <1>3, SMTT(30)
<1> QED
  BY <1>4 DEF a, b, Cells

(* ... and no cell is two places. *)
LEMMA CellOnce ==
  ASSUME NEW y \in 0 .. Rows - 1, NEW x \in Places, NEW z \in 0 .. Rows - 1, NEW w \in Places,
         y * Columns + x = z * Columns + w
  PROVE  y = z /\ x = w
<1>1. Rows \in Nat /\ Columns \in Nat /\ y \in Nat /\ z \in Nat
  BY ScreenAssumption, SMTT(30)
<1> DEFINE a == y * Columns
           b == z * Columns
<1>2. a \in Nat /\ b \in Nat
  BY <1>1, SMTT(30)
<1>3. y < z => a + Columns <= b
  BY <1>1, Product
<1>4. z < y => b + Columns <= a
  BY <1>1, Product
<1>5. x \in 0 .. Columns - 1 /\ w \in 0 .. Columns - 1
  BY DEF Places
<1>6. a + x = b + w
  OBVIOUS
<1>7. y = z => a = b
  OBVIOUS
<1> HIDE DEF a, b
<1>8. ~ (y < z) /\ ~ (z < y)
  BY <1>1, <1>2, <1>3, <1>4, <1>5, <1>6, SMTT(30)
<1>9. y = z
  BY <1>1, <1>8, SMTT(30)
<1> QED
  BY <1>1, <1>2, <1>5, <1>6, <1>7, <1>9, SMTT(30)

(* A character is put into the last line. *)
CellPut(v, y, x, c) == [v EXCEPT ![y * Columns + x] = c]
LinePut(lines, x, c) ==
  [lines EXCEPT ![Len(lines)] = [lines[Len(lines)] EXCEPT ![x] = c]]

(* A character put into the last line of both is shown. *)
LEMMA CellShown ==
  ASSUME NEW v, NEW y, NEW lines, OnScreen(v, y, lines), NEW x \in Places, NEW c \in Glyphs
  PROVE  OnScreen(CellPut(v, y, x, c), y, LinePut(lines, x, c))
<1> DEFINE n == Len(lines)
           k == y * Columns + x
           v2 == [v EXCEPT ![k] = c]
           last == lines[n]
           last2 == [last EXCEPT ![x] = c]
           lines2 == [lines EXCEPT ![n] = last2]
<1>1. /\ v \in [Cells -> Glyphs] /\ lines \in Seq(Lines)
      /\ y \in 0 .. Rows - 1 /\ n = y + 1 /\ Shows(v, lines)
  BY DEF OnScreen
<1>2. k \in Cells
  BY <1>1, CellNumber
<1>3. v2 \in [Cells -> Glyphs]
  BY <1>1, <1>2
<1> HIDE DEF n
<1>4. n \in 1 .. Len(lines) /\ n = Len(lines)
  <2>1. Rows \in Nat
    BY ScreenAssumption
  <2> QED
    BY <1>1, <2>1, SMTT(30) DEF n
<1>5. last \in Lines
  BY <1>1, <1>4, SMTT(30)
<1>6. last2 \in Lines /\ last2[x] = c /\ \A w \in Places : w # x => last2[w] = last[w]
  BY <1>5 DEF Lines
<1> HIDE DEF last, last2
<1>7. /\ lines2 \in Seq(Lines) /\ Len(lines2) = n /\ lines2[n] = last2
      /\ \A i \in 1 .. n : i # n => lines2[i] = lines[i]
  <2>1. last2 \in Lines /\ lines \in Seq(Lines)
    BY <1>1, <1>6
  <2> QED
    BY ONLY <1>4, <2>1, SMTT(30) DEF lines2
<1> HIDE DEF lines2, k, v2
<1>8. ASSUME NEW z \in 0 .. Rows - 1, NEW w \in Places
      PROVE  v2[z * Columns + w] = IF z < Len(lines2) THEN lines2[z + 1][w] ELSE BootLine(z)[w]
  <2> DEFINE i == z * Columns + w
  <2>1. i \in Cells
    BY CellNumber
  <2>2. v[i] = IF z < n THEN lines[z + 1][w] ELSE BootLine(z)[w]
    BY <1>1, <1>4 DEF Shows
  <2>3. CASE z = y /\ w = x
    <3>1. v2[i] = c
      BY <2>1, <2>3, <1>1 DEF v2, k
    <3>2. z < n /\ z + 1 = n
      BY <2>3, <1>1, <1>4, SMTT(30)
    <3> QED
      BY <3>1, <3>2, <2>3, <1>6, <1>7
  <2>4. CASE z = y /\ w # x
    <3>1. i # k
      BY <1>1, <2>4, CellOnce DEF k
    <3>2. v2[i] = v[i]
      BY <2>1, <3>1, <1>1 DEF v2
    <3>3. z < n /\ z + 1 = n
      BY <2>4, <1>1, <1>4, SMTT(30)
    <3> QED
      BY <3>2, <3>3, <2>2, <2>4, <1>6, <1>7 DEF last
  <2>5. CASE z # y
    <3>1. i # k
      BY <1>1, <2>5, CellOnce DEF k
    <3>2. v2[i] = v[i]
      BY <2>1, <3>1, <1>1 DEF v2
    <3>3. z < n => z + 1 \in 1 .. n /\ z + 1 # n
      BY <2>5, <1>1, <1>4, SMTT(30)
    <3> QED
      BY <3>2, <3>3, <2>2, <1>7
  <2> QED
    BY <2>3, <2>4, <2>5
<1>9. Shows(v2, lines2)
  BY <1>8 DEF Shows
<1>10. OnScreen(v2, y, lines2)
  BY <1>1, <1>3, <1>7, <1>9 DEF OnScreen, v2
<1> QED
  BY <1>10 DEF v2, k, lines2, last2, last, n, CellPut, LinePut

(* A line begins: below the others, or all of them move up. *)
Scrolled(v) ==
  [i \in Cells |-> IF i < (Rows - 1) * Columns THEN v[i + Columns] ELSE Blank]

(* Boot has a character for every place of every row. *)
LEMMA BootLines ==
  ASSUME NEW y \in 0 .. Rows - 1
  PROVE  BootLine(y) \in Lines
<1>1. \A x \in Places : y * Columns + x \in Cells
  BY CellNumber
<1>2. Boot \in [Cells -> Range(Boot)] /\ Range(Boot) \subseteq Glyphs
  BY ScreenAssumption DEF Glyphs
<1>3. \A x \in Places : Boot[y * Columns + x] \in Glyphs
  BY <1>1, <1>2
<1> QED
  BY <1>3 DEF BootLine, Places, Lines

(* A new line above the bottom of the screen is shown as it is, ... *)
LEMMA LineShown ==
  ASSUME NEW v, NEW y, NEW lines, OnScreen(v, y, lines), y + 1 < Rows
  PROVE  OnScreen(v, y + 1, Append(lines, BootLine(y + 1)))
<1> DEFINE n == Len(lines)
           fresh == BootLine(y + 1)
           lines2 == Append(lines, fresh)
<1>0. Rows \in Nat /\ Columns \in Nat
  BY ScreenAssumption
<1>1. /\ v \in [Cells -> Glyphs] /\ lines \in Seq(Lines)
      /\ y \in 0 .. Rows - 1 /\ n = y + 1 /\ Shows(v, lines)
  BY DEF OnScreen
<1>2. BootLine(y + 1) \in Lines
  <2>1. y + 1 \in 0 .. Rows - 1
    BY <1>0, <1>1, SMTT(30)
  <2> QED
    BY <2>1, BootLines
<1>3. /\ lines2 \in Seq(Lines) /\ Len(lines2) = n + 1 /\ lines2[n + 1] = fresh
      /\ \A i \in 1 .. n : lines2[i] = lines[i]
  <2>1. lines \in Seq(Lines) /\ fresh \in Lines
    BY <1>1, <1>2
  <2> HIDE DEF fresh
  <2> QED
    BY ONLY <2>1, SMTT(30) DEF n, lines2
<1> HIDE DEF n, lines2
<1>4. y + 1 \in 0 .. Rows - 1 /\ n \in Nat
  BY <1>0, <1>1, SMTT(30)
<1>5. ASSUME NEW z \in 0 .. Rows - 1, NEW w \in Places
      PROVE  v[z * Columns + w] = IF z < Len(lines2) THEN lines2[z + 1][w] ELSE BootLine(z)[w]
  <2>1. v[z * Columns + w] = IF z < n THEN lines[z + 1][w] ELSE BootLine(z)[w]
    BY <1>1 DEF Shows, n
  <2>2. CASE z < n
    <3>1. z < Len(lines2) /\ z + 1 \in 1 .. n
      BY <1>0, <1>3, <1>4, <2>2, SMTT(30)
    <3> QED
      BY <3>1, <2>1, <2>2, <1>3
  <2>3. CASE z = n
    <3>1. z < Len(lines2) /\ ~ (z < n) /\ z + 1 = n + 1
      BY <1>3, <1>4, <2>3, SMTT(30)
    <3>2. BootLine(z) = fresh
      BY <1>1, <2>3 DEF n
    <3> HIDE DEF fresh
    <3> QED
      BY <3>1, <3>2, <2>1, <1>3
  <2>4. CASE z > n
    <3>1. ~ (z < Len(lines2)) /\ ~ (z < n)
      BY <1>0, <1>3, <1>4, <2>4, SMTT(30)
    <3> QED
      BY <3>1, <2>1
  <2>5. z < n \/ z = n \/ z > n
    BY <1>0, <1>4, SMTT(30)
  <2> QED
    BY <2>2, <2>3, <2>4, <2>5
<1>6. Shows(v, lines2)
  BY <1>5 DEF Shows
<1>7. Len(lines2) = (y + 1) + 1
  BY <1>1, <1>3 DEF n
<1>8. OnScreen(v, y + 1, lines2)
  BY <1>1, <1>3, <1>4, <1>6, <1>7 DEF OnScreen
<1> QED
  BY <1>8 DEF lines2

(* ... and at the bottom after scrolling, with the oldest line dropped. *)
LEMMA ScrollShown ==
  ASSUME NEW v, NEW y, NEW lines, OnScreen(v, y, lines), y + 1 = Rows
  PROVE  OnScreen(Scrolled(v), y, Tail(Append(lines, BlankLine)))
<1> DEFINE n == Len(lines)
           lines2 == Tail(Append(lines, BlankLine))
           v2 == Scrolled(v)
<1>0. Rows \in Nat \ {0} /\ Columns \in Nat \ {0}
  BY ScreenAssumption
<1>1. /\ v \in [Cells -> Glyphs] /\ lines \in Seq(Lines)
      /\ y \in 0 .. Rows - 1 /\ n = y + 1 /\ Shows(v, lines)
  BY DEF OnScreen
<1>2. BlankLine \in Lines /\ \A x \in Places : BlankLine[x] = Blank
  BY DEF BlankLine, Lines, Glyphs
<1>3. n = Rows
  BY <1>1
<1>4. /\ lines2 \in Seq(Lines) /\ Len(lines2) = n /\ lines2[n] = BlankLine
      /\ \A i \in 1 .. n : i # n => lines2[i] = lines[i + 1]
  <2> DEFINE long == Append(lines, BlankLine)
  <2>1. lines \in Seq(Lines) /\ BlankLine \in Lines
    BY <1>1, <1>2
  <2>2. /\ long \in Seq(Lines) /\ Len(long) = n + 1 /\ long[n + 1] = BlankLine
        /\ \A i \in 1 .. n : long[i] = lines[i]
    BY ONLY <2>1, SMTT(30) DEF n, long
  <2> HIDE DEF long
  <2>3. long # <<>>
    <3>1. Len(<<>>) = 0 /\ n + 1 # 0
      BY <1>0, <1>3, SMTT(30)
    <3> QED
      BY <2>2, <3>1
  <2>4. /\ Tail(long) \in Seq(Lines) /\ Len(Tail(long)) = Len(long) - 1
        /\ \A i \in 1 .. Len(long) - 1 : Tail(long)[i] = long[i + 1]
    BY ONLY <2>2, <2>3, SMTT(30)
  <2>5. n \in Nat \ {0} /\ Len(long) - 1 = n
    BY <1>0, <1>3, <2>2, SMTT(30)
  <2>6. \A i \in 1 .. n : i # n => i + 1 \in 1 .. n
    BY <2>5, SMTT(30)
  <2>7. n \in 1 .. n
    BY <2>5, SMTT(30)
  <2> HIDE DEF n
  <2>8. Tail(long)[n] = BlankLine
    BY <2>2, <2>4, <2>5, <2>7
  <2>9. \A i \in 1 .. n : i # n => Tail(long)[i] = lines[i + 1]
    BY <2>2, <2>4, <2>5, <2>6
  <2> QED
    BY <2>4, <2>5, <2>8, <2>9 DEF long
<1> DEFINE m == Rows - 1
<1>5. m \in Nat /\ m < Rows
  BY <1>0, SMTT(30)
<1> DEFINE top == m * Columns
<1>6. top \in Nat /\ top + Columns <= Rows * Columns
  BY <1>0, <1>5, Product
<1>7. v2 \in [Cells -> Glyphs]
  <2>1. ASSUME NEW i \in Cells, i < top PROVE i + Columns \in Cells
    <3> DEFINE b == Rows * Columns
    <3>1. b \in Nat /\ top + Columns <= b
      BY <1>0, <1>6, SMTT(30)
    <3>2. i \in 0 .. b - 1
      BY DEF Cells
    <3> HIDE DEF b, top
    <3>3. i + Columns \in 0 .. b - 1
      BY <1>0, <1>6, <2>1, <3>1, <3>2, SMTT(30)
    <3> QED
      BY <3>3 DEF Cells, b
  <2>2. Blank \in Glyphs
    BY DEF Glyphs
  <2>3. v2 = [i \in Cells |-> IF i < top THEN v[i + Columns] ELSE Blank]
    BY DEF Scrolled
  <2> HIDE DEF v2, top
  <2> QED
    BY <1>1, <2>1, <2>2, <2>3
<1> HIDE DEF n, lines2
<1>8. ASSUME NEW z \in 0 .. Rows - 1, NEW w \in Places
      PROVE  v2[z * Columns + w] = IF z < Len(lines2) THEN lines2[z + 1][w] ELSE BootLine(z)[w]
  <2> DEFINE i == z * Columns + w
  <2>1. i \in Cells
    BY CellNumber
  <2>2. v2[i] = IF i < top THEN v[i + Columns] ELSE Blank
    BY <2>1 DEF Scrolled
  <2>3. w \in 0 .. Columns - 1
    BY DEF Places
  <2>4. z < Len(lines2)
    BY <1>0, <1>3, <1>4, SMTT(30)
  <2>5. CASE z < m
    <3> DEFINE a == z * Columns
    <3>1. z \in Nat
      BY <1>0, SMTT(30)
    <3>2. a \in Nat /\ a + Columns <= top
      BY <1>0, <1>5, <2>5, <3>1, Product
    <3>3. (z + 1) * Columns = a + Columns
      BY <1>0, <3>1, SMTT(30)
    <3> DEFINE a1 == (z + 1) * Columns
    <3> HIDE DEF a, a1, top
    <3>4. a + w < top /\ (a + w) + Columns = a1 + w
      BY <1>0, <1>6, <2>3, <3>2, <3>3, SMTT(30) DEF a1
    <3>5. v2[i] = v[(z + 1) * Columns + w]
      BY <2>2, <3>4 DEF a, a1
    <3>6. z + 1 \in 0 .. Rows - 1 /\ z + 1 < n /\ z + 1 \in 1 .. n /\ z + 1 # n
      BY <1>0, <1>3, <2>5, SMTT(30)
    <3>7. v[(z + 1) * Columns + w] = lines[(z + 1) + 1][w]
      BY <3>6, <1>1 DEF Shows, n
    <3> QED
      BY <3>5, <3>6, <3>7, <2>4, <1>4
  <2>6. CASE z = m
    <3>1. ~ (i < top)
      <4>1. i = top + w
        BY <2>6
      <4> HIDE DEF top, i
      <4> QED
        BY <1>0, <1>6, <2>3, <4>1, SMTT(30)
    <3>2. z + 1 = n
      BY <1>0, <1>3, <2>6, SMTT(30)
    <3> QED
      BY <3>1, <3>2, <2>2, <2>4, <1>2, <1>4
  <2>7. z < m \/ z = m
    BY <1>0, SMTT(30)
  <2> QED
    BY <2>5, <2>6, <2>7
<1> HIDE DEF v2
<1>9. Shows(v2, lines2)
  BY <1>8 DEF Shows
<1>10. OnScreen(v2, y, lines2)
  BY <1>1, <1>4, <1>7, <1>9 DEF OnScreen, n
<1> QED
  BY <1>10 DEF v2, lines2

-----------------------------------------------------------------------------
(* The screen and the terminal by their fields. *)
Scr(v, x, y) == [v |-> v, x |-> x, y |-> y]
Term(lines, x) == [lines |-> lines, x |-> x]

Wraps(v, x, y) ==
  /\ x < Columns => Wrap(Scr(v, x, y)) = Scr(v, x, y)
  /\ ~ (x < Columns) => Wrap(Scr(v, x, y)) = Scr(v, 0, y + 1)

(* The end of a line and of the screen. *)
LEMMA WrapIs ==
  ASSUME NEW v, NEW x, NEW y
  PROVE  Wraps(v, x, y)
<1> DEFINE s == Scr(v, x, y)
<1>1. s.x = x /\ s.y = y
  BY DEF Scr
<1>2. [s EXCEPT !.x = 0] = Scr(v, 0, y)
  BY SMTT(30) DEF Scr
<1>3. [Scr(v, 0, y) EXCEPT !.y = y + 1] = Scr(v, 0, y + 1)
  BY SMTT(30) DEF Scr
<1>4. ~ (x < Columns) => Wrap(s) = [[s EXCEPT !.x = 0] EXCEPT !.y = [s EXCEPT !.x = 0].y + 1]
  BY <1>1 DEF Wrap
<1>5. Scr(v, 0, y).y = y
  BY DEF Scr
<1>6. x < Columns => Wrap(s) = s
  BY <1>1 DEF Wrap
<1> HIDE DEF s
<1> QED
  BY <1>2, <1>3, <1>4, <1>5, <1>6 DEF s, Wraps

Scrolls(v, x, y) ==
  /\ y < Rows => Scroll(Scr(v, x, y)) = Scr(v, x, y)
  /\ ~ (y < Rows) => Scroll(Scr(v, x, y)) = Scr(Scrolled(v), 0, y - 1)

(* The check for the end of the screen leaves the screen or scrolls it. *)
LEMMA ScrollIs ==
  ASSUME NEW v, NEW x, NEW y
  PROVE  Scrolls(v, x, y)
<1> DEFINE s == Scr(v, x, y)
<1>1. s.v = v /\ s.y = y
  BY DEF Scr
<1>2. y < Rows => Scroll(s) = s
  BY <1>1 DEF Scroll
<1>3. ~ (y < Rows) => Scroll(s) = Scr(Scrolled(v), 0, y - 1)
  BY <1>1 DEF Scroll, Scr, Scrolled
<1> QED
  BY <1>2, <1>3 DEF Scrolls

PutsChar(v, x, y, c) ==
  /\ c = "BS" /\ x = 0 => PutChar(Scr(v, x, y), c) = Scr(v, x, y)
  /\ c = "BS" /\ x # 0 =>
       PutChar(Scr(v, x, y), c) = Scr(CellPut(v, y, x - 1, Blank), x - 1, y)
  /\ c = "CR" => PutChar(Scr(v, x, y), c) = Scr(v, 0, y)
  /\ c = "NL" => PutChar(Scr(v, x, y), c) = Scr(v, 0, y + 1)
  /\ c \notin {"BS", "CR", "NL"} =>
       PutChar(Scr(v, x, y), c) = Scr(CellPut(v, y, x, c), x + 1, y)

(* What each character does, to the screen ... *)
LEMMA PutCharIs ==
  ASSUME NEW v, NEW x, NEW y, NEW c
  PROVE  PutsChar(v, x, y, c)
<1> DEFINE s == Scr(v, x, y)
<1>1. s.v = v /\ s.x = x /\ s.y = y
  BY DEF Scr
<1>2. ASSUME NEW k, NEW d, NEW z
      PROVE  [s EXCEPT !.x = z, !.v[k] = d] = Scr([v EXCEPT ![k] = d], z, y)
  <2> DEFINE t == [s EXCEPT !.x = z]
             v2 == [v EXCEPT ![k] = d]
  <2>1. t = Scr(v, z, y)
    BY SMTT(30) DEF Scr
  <2>2. t.v = v
    BY SMTT(30) DEF Scr
  <2>3. [s EXCEPT !.x = z, !.v[k] = d] = [t EXCEPT !.v = [t.v EXCEPT ![k] = d]]
    OBVIOUS
  <2>4. [t.v EXCEPT ![k] = d] = v2
    BY <2>2
  <2> HIDE DEF t, v2
  <2>5. [Scr(v, z, y) EXCEPT !.v = v2] = Scr(v2, z, y)
    BY SMTT(30) DEF Scr
  <2> QED
    BY <2>1, <2>3, <2>4, <2>5 DEF v2
<1>3. c = "BS" /\ x = 0 => PutChar(s, c) = s
  BY <1>1 DEF PutChar
<1>4. ASSUME c = "BS", x # 0
      PROVE  PutChar(s, c) = Scr(CellPut(v, y, x - 1, Blank), x - 1, y)
  <2>1. PutChar(s, c) = [s EXCEPT !.x = s.x - 1, !.v[s.y * Columns + s.x - 1] = Blank]
    BY <1>1, <1>4 DEF PutChar
  <2> HIDE DEF s
  <2>2. PutChar(s, c) = [s EXCEPT !.x = x - 1, !.v[y * Columns + x - 1] = Blank]
    BY <1>1, <2>1
  <2> DEFINE k == y * Columns + x - 1
             z == x - 1
  <2>3. CellPut(v, y, x - 1, Blank) = [v EXCEPT ![k] = Blank]
    BY DEF CellPut
  <2> HIDE DEF k, z
  <2>4. [s EXCEPT !.x = z, !.v[k] = Blank] = Scr([v EXCEPT ![k] = Blank], z, y)
    BY <1>2
  <2> QED
    BY <2>2, <2>3, <2>4 DEF k, z
<1>5. ASSUME c = "CR" PROVE PutChar(s, c) = Scr(v, 0, y)
  <2>1. PutChar(s, c) = [s EXCEPT !.x = 0]
    BY <1>5 DEF PutChar
  <2>2. [s EXCEPT !.x = 0] = Scr(v, 0, y)
    BY SMTT(30) DEF Scr
  <2> QED
    BY <2>1, <2>2
<1>6. ASSUME c = "NL" PROVE PutChar(s, c) = Scr(v, 0, y + 1)
  <2> DEFINE t == [s EXCEPT !.x = 0]
  <2>1. PutChar(s, c) = [t EXCEPT !.y = t.y + 1]
    BY <1>6 DEF PutChar
  <2>2. t = Scr(v, 0, y)
    BY SMTT(30) DEF Scr
  <2> HIDE DEF t
  <2>3. t.y = y
    BY <2>2 DEF Scr
  <2>4. [Scr(v, 0, y) EXCEPT !.y = y + 1] = Scr(v, 0, y + 1)
    BY SMTT(30) DEF Scr
  <2> QED
    BY <2>1, <2>2, <2>3, <2>4
<1>7. ASSUME c \notin {"BS", "CR", "NL"}
      PROVE  PutChar(s, c) = Scr(CellPut(v, y, x, c), x + 1, y)
  <2>1. PutChar(s, c) = [s EXCEPT !.x = s.x + 1, !.v[s.y * Columns + s.x] = c]
    BY <1>7 DEF PutChar
  <2> HIDE DEF s
  <2>2. PutChar(s, c) = [s EXCEPT !.x = x + 1, !.v[y * Columns + x] = c]
    BY <1>1, <2>1
  <2> DEFINE k == y * Columns + x
             z == x + 1
  <2>3. CellPut(v, y, x, c) = [v EXCEPT ![k] = c]
    BY DEF CellPut
  <2> HIDE DEF k, z
  <2>4. [s EXCEPT !.x = z, !.v[k] = c] = Scr([v EXCEPT ![k] = c], z, y)
    BY <1>2
  <2> QED
    BY <2>2, <2>3, <2>4 DEF k, z
<1> QED
  BY <1>3, <1>4, <1>5, <1>6, <1>7 DEF PutsChar

NewLines(lines, x) ==
  /\ Len(lines) < Rows =>
       NewLine(Term(lines, x)) = Term(Append(lines, BootLine(Len(lines))), 0)
  /\ ~ (Len(lines) < Rows) =>
       NewLine(Term(lines, x)) = Term(Tail(Append(lines, BlankLine)), 0)

(* ... and to the terminal. *)
LEMMA NewLineIs ==
  ASSUME NEW lines, NEW x
  PROVE  NewLines(lines, x)
<1>1. Term(lines, x).lines = lines
  BY DEF Term
<1> QED
  BY <1>1 DEF NewLine, Term, BlankLine, Places, NewLines

Promises(lines, x, c) ==
  /\ c = "BS" /\ x = 0 => Promise(Term(lines, x), c) = Term(lines, x)
  /\ c = "BS" /\ x # 0 =>
       Promise(Term(lines, x), c) = Term(LinePut(lines, x - 1, Blank), x - 1)
  /\ c = "CR" => Promise(Term(lines, x), c) = Term(lines, 0)
  /\ c = "NL" => Promise(Term(lines, x), c) = NewLine(Term(lines, x))
  /\ c \notin {"BS", "CR", "NL"} /\ x + 1 = Columns =>
       Promise(Term(lines, x), c) = NewLine(Term(LinePut(lines, x, c), x + 1))
  /\ c \notin {"BS", "CR", "NL"} /\ x + 1 # Columns =>
       Promise(Term(lines, x), c) = Term(LinePut(lines, x, c), x + 1)

TermPut(p, n, k, d, z) == [p EXCEPT !.x = z, !.lines[n][k] = d]

(* A character to the terminal, case by case. *)
LEMMA PromiseIs ==
  ASSUME NEW lines, NEW x, NEW c
  PROVE  Promises(lines, x, c)
<1> DEFINE p == Term(lines, x)
           n == Len(lines)
<1>1. p.lines = lines /\ p.x = x
  BY DEF Term
<1>2. ASSUME NEW k, NEW d, NEW z
      PROVE  TermPut(p, n, k, d, z) = Term(LinePut(lines, k, d), z)
  <2> DEFINE t == [p EXCEPT !.x = z]
             put == [lines EXCEPT ![n] = [lines[n] EXCEPT ![k] = d]]
  <2>1. t = Term(lines, z)
    BY SMTT(30) DEF Term
  <2>2. t.lines = lines
    BY SMTT(30) DEF Term
  <2>3. TermPut(p, n, k, d, z)
          = [t EXCEPT !.lines = [t.lines EXCEPT ![n] = [t.lines[n] EXCEPT ![k] = d]]]
    BY DEF TermPut
  <2>4. [t.lines EXCEPT ![n] = [t.lines[n] EXCEPT ![k] = d]] = put
    BY <2>2
  <2>5. put = LinePut(lines, k, d)
    BY DEF LinePut
  <2> HIDE DEF t, put
  <2>6. [Term(lines, z) EXCEPT !.lines = put] = Term(put, z)
    BY SMTT(30) DEF Term
  <2> QED
    BY <2>1, <2>3, <2>4, <2>5, <2>6
<1>3. c = "BS" /\ x = 0 => Promise(p, c) = p
  BY <1>1 DEF Promise
<1>4. ASSUME c = "BS", x # 0
      PROVE  Promise(p, c) = Term(LinePut(lines, x - 1, Blank), x - 1)
  <2>1. Promise(p, c) = [p EXCEPT !.x = p.x - 1, !.lines[Len(p.lines)][p.x - 1] = Blank]
    BY <1>1, <1>4 DEF Promise
  <2> HIDE DEF p
  <2>2. Promise(p, c) = TermPut(p, n, x - 1, Blank, x - 1)
    BY <1>1, <2>1 DEF TermPut
  <2> DEFINE z == x - 1
  <2> HIDE DEF z, n
  <2>3. TermPut(p, n, z, Blank, z) = Term(LinePut(lines, z, Blank), z)
    BY <1>2
  <2> QED
    BY <2>2, <2>3 DEF z
<1>5. ASSUME c = "CR" PROVE Promise(p, c) = Term(lines, 0)
  <2>1. Promise(p, c) = [p EXCEPT !.x = 0]
    BY <1>5 DEF Promise
  <2>2. [p EXCEPT !.x = 0] = Term(lines, 0)
    BY SMTT(30) DEF Term
  <2> QED
    BY <2>1, <2>2
<1>6. c = "NL" => Promise(p, c) = NewLine(p)
  BY DEF Promise
<1>7. ASSUME c \notin {"BS", "CR", "NL"}
      PROVE  Promise(p, c) = IF x + 1 = Columns THEN NewLine(Term(LinePut(lines, x, c), x + 1))
                             ELSE Term(LinePut(lines, x, c), x + 1)
  <2> DEFINE q == [p EXCEPT !.x = p.x + 1, !.lines[Len(p.lines)][p.x] = c]
  <2>1. Promise(p, c) = IF q.x = Columns THEN NewLine(q) ELSE q
    BY <1>7 DEF Promise
  <2> HIDE DEF p
  <2>2. q = TermPut(p, n, x, c, x + 1)
    BY <1>1 DEF TermPut
  <2> HIDE DEF q
  <2> DEFINE z == x + 1
  <2> HIDE DEF z, n
  <2>3. TermPut(p, n, x, c, z) = Term(LinePut(lines, x, c), z)
    BY <1>2
  <2>4. q = Term(LinePut(lines, x, c), z)
    BY <2>2, <2>3 DEF z
  <2>5. q.x = z
    BY <2>4 DEF Term
  <2> QED
    BY <2>1, <2>4, <2>5 DEF z
<1> QED
  BY <1>3, <1>4, <1>5, <1>6, <1>7 DEF Promises

(* A screen that shows the lines, with the cursor in the same column, is   *)
(* the terminal.                                                           *)
LEMMA TermsMatch ==
  ASSUME NEW v, NEW x \in Places, NEW y, NEW lines, OnScreen(v, y, lines)
  PROVE  Matches(Scr(v, x, y), Term(lines, x))
BY DEF Matches, Scr, Term

(* A new line on both. *)
LEMMA NewLineMatches ==
  ASSUME NEW v, NEW x, NEW y, NEW lines, OnScreen(v, y, lines)
  PROVE  Matches(Scroll(Scr(v, 0, y + 1)), NewLine(Term(lines, x)))
<1>0. Rows \in Nat /\ Columns \in Nat \ {0}
  BY ScreenAssumption
<1>1. y \in 0 .. Rows - 1 /\ Len(lines) = y + 1
  BY DEF OnScreen
<1>2. 0 \in Places
  BY <1>0, SMTT(30) DEF Places
<1>3. NewLines(lines, x)
  BY NewLineIs
<1>4. Scrolls(v, 0, y + 1)
  BY ScrollIs
<1>5. CASE y + 1 < Rows
  <2>1. NewLine(Term(lines, x)) = Term(Append(lines, BootLine(y + 1)), 0)
    BY <1>1, <1>3, <1>5 DEF NewLines
  <2>2. Scroll(Scr(v, 0, y + 1)) = Scr(v, 0, y + 1)
    BY <1>4, <1>5 DEF Scrolls
  <2>3. OnScreen(v, y + 1, Append(lines, BootLine(y + 1)))
    BY <1>5, LineShown
  <2> QED
    BY <1>2, <2>1, <2>2, <2>3, TermsMatch
<1>6. CASE ~ (y + 1 < Rows)
  <2>1. y + 1 = Rows /\ (y + 1) - 1 = y
    BY <1>0, <1>1, <1>6, SMTT(30)
  <2>2. NewLine(Term(lines, x)) = Term(Tail(Append(lines, BlankLine)), 0)
    BY <1>1, <1>3, <1>6 DEF NewLines
  <2>3. Scroll(Scr(v, 0, y + 1)) = Scr(Scrolled(v), 0, y)
    BY <1>4, <1>6, <2>1 DEF Scrolls
  <2>4. OnScreen(Scrolled(v), y, Tail(Append(lines, BlankLine)))
    BY <2>1, ScrollShown
  <2> QED
    BY <1>2, <2>2, <2>3, <2>4, TermsMatch
<1> QED
  BY <1>5, <1>6

(* One character on both: they match again. *)
LEMMA PutMatches ==
  ASSUME NEW s, NEW p, Matches(s, p), NEW c \in Glyphs
  PROVE  Matches(Put(s, c), Promise(p, c))
<1> DEFINE v == s.v
           x == s.x
           y == s.y
           lines == p.lines
<1>0. Rows \in Nat /\ Columns \in Nat \ {0}
  BY ScreenAssumption
<1>1. s = Scr(v, x, y) /\ p = Term(lines, x) /\ OnScreen(v, y, lines) /\ x \in Places
  BY DEF Matches, Scr, Term
<1> HIDE DEF v, x, y, lines
<1>2. y \in 0 .. Rows - 1 /\ x \in 0 .. Columns - 1
  BY <1>1 DEF OnScreen, Places
<1>3. y < Rows /\ x < Columns /\ 0 < Columns
  BY <1>0, <1>2, SMTT(30)
<1>4. ASSUME NEW v2, NEW x2, x2 < Columns PROVE Scroll(Wrap(Scr(v2, x2, y))) = Scr(v2, x2, y)
  <2>1. Wraps(v2, x2, y) /\ Scrolls(v2, x2, y)
    BY WrapIs, ScrollIs
  <2> QED
    BY <1>3, <1>4, <2>1 DEF Wraps, Scrolls
<1>11. PutsChar(v, x, y, c) /\ Promises(lines, x, c)
  BY PutCharIs, PromiseIs
<1>5. CASE c = "BS" /\ x = 0
  <2>1. PutChar(s, c) = Scr(v, x, y) /\ Promise(p, c) = Term(lines, x)
    BY <1>1, <1>5, <1>11 DEF PutsChar, Promises
  <2> QED
    BY <2>1, <1>1, <1>3, <1>4, TermsMatch DEF Put
<1>6. CASE c = "BS" /\ x # 0
  <2>1. /\ PutChar(s, c) = Scr(CellPut(v, y, x - 1, Blank), x - 1, y)
        /\ Promise(p, c) = Term(LinePut(lines, x - 1, Blank), x - 1)
    BY <1>1, <1>6, <1>11 DEF PutsChar, Promises
  <2>2. x - 1 \in Places /\ x - 1 < Columns
    BY <1>0, <1>2, <1>6, SMTT(30) DEF Places
  <2>3. Blank \in Glyphs
    BY DEF Glyphs
  <2>4. OnScreen(CellPut(v, y, x - 1, Blank), y, LinePut(lines, x - 1, Blank))
    BY <1>1, <2>2, <2>3, CellShown
  <2>5. Put(s, c) = Scr(CellPut(v, y, x - 1, Blank), x - 1, y)
    BY <2>1, <2>2, <1>4 DEF Put
  <2> QED
    BY <2>1, <2>2, <2>4, <2>5, TermsMatch
<1>7. CASE c = "CR"
  <2>1. PutChar(s, c) = Scr(v, 0, y) /\ Promise(p, c) = Term(lines, 0)
    BY <1>1, <1>7, <1>11 DEF PutsChar, Promises
  <2>2. Put(s, c) = Scr(v, 0, y)
    BY <2>1, <1>3, <1>4 DEF Put
  <2>3. 0 \in Places
    BY <1>0, SMTT(30) DEF Places
  <2> QED
    BY <2>1, <2>2, <2>3, <1>1, TermsMatch
<1>8. CASE c = "NL"
  <2>1. PutChar(s, c) = Scr(v, 0, y + 1) /\ Promise(p, c) = NewLine(Term(lines, x))
    BY <1>1, <1>8, <1>11 DEF PutsChar, Promises
  <2>2. Wrap(Scr(v, 0, y + 1)) = Scr(v, 0, y + 1)
    <3>1. Wraps(v, 0, y + 1)
      BY WrapIs
    <3> QED
      BY <1>3, <3>1 DEF Wraps
  <2>3. Put(s, c) = Scroll(Scr(v, 0, y + 1))
    BY <2>1, <2>2 DEF Put
  <2> QED
    BY <2>1, <2>3, <1>1, NewLineMatches
<1>9. CASE c \notin {"BS", "CR", "NL"} /\ x + 1 # Columns
  <2>1. /\ PutChar(s, c) = Scr(CellPut(v, y, x, c), x + 1, y)
        /\ Promise(p, c) = Term(LinePut(lines, x, c), x + 1)
    BY <1>1, <1>9, <1>11 DEF PutsChar, Promises
  <2>2. x + 1 \in Places /\ x + 1 < Columns
    BY <1>0, <1>2, <1>9, SMTT(30) DEF Places
  <2>4. OnScreen(CellPut(v, y, x, c), y, LinePut(lines, x, c))
    BY <1>1, CellShown
  <2>5. Put(s, c) = Scr(CellPut(v, y, x, c), x + 1, y)
    BY <2>1, <2>2, <1>4 DEF Put
  <2> QED
    BY <2>1, <2>2, <2>4, <2>5, TermsMatch
<1>10. CASE c \notin {"BS", "CR", "NL"} /\ x + 1 = Columns
  <2>1. /\ PutChar(s, c) = Scr(CellPut(v, y, x, c), x + 1, y)
        /\ Promise(p, c) = NewLine(Term(LinePut(lines, x, c), x + 1))
    BY <1>1, <1>10, <1>11 DEF PutsChar, Promises
  <2>2. ~ (x + 1 < Columns)
    BY <1>0, <1>2, <1>10, SMTT(30)
  <2>3. Wrap(Scr(CellPut(v, y, x, c), x + 1, y)) = Scr(CellPut(v, y, x, c), 0, y + 1)
    <3>1. Wraps(CellPut(v, y, x, c), x + 1, y)
      BY WrapIs
    <3> QED
      BY <2>2, <3>1 DEF Wraps
  <2>4. Put(s, c) = Scroll(Scr(CellPut(v, y, x, c), 0, y + 1))
    BY <2>1, <2>3 DEF Put
  <2>5. OnScreen(CellPut(v, y, x, c), y, LinePut(lines, x, c))
    BY <1>1, CellShown
  <2> QED
    BY <2>1, <2>4, <2>5, NewLineMatches
<1> QED
  BY <1>5, <1>6, <1>7, <1>8, <1>9, <1>10

-----------------------------------------------------------------------------
(* What is written is a sequence of glyphs, up to its first NUL as well. *)
LEMMA WrittenText ==
  ASSUME NEW text \in Texts
  PROVE  UpToNul(text) \in Seq(Glyphs)
<1> DEFINE I == {i \in 1 .. Len(text) : text[i] = "NUL"} \cup {Len(text) + 1}
           end == Min(I)
<1>1. text \in Seq(Range(text))
  BY ScreenAssumption
<1>2. Range(text) \subseteq Glyphs
  BY DEF Glyphs
<1>3. text \in Seq(Glyphs) /\ Len(text) \in Nat
  <2> DEFINE R == Range(text)
             G == Glyphs
  <2>1. text \in Seq(R) /\ R \subseteq G
    BY <1>1, <1>2
  <2> HIDE DEF R, G
  <2>2. text \in Seq(G) /\ Len(text) \in Nat
    BY ONLY <2>1, SMTT(30)
  <2> QED
    BY <2>2 DEF G
<1>4. UpToNul(text) = SubSeq(text, 1, end - 1)
  BY DEF UpToNul
<1>5. I \subseteq Nat /\ I \subseteq 1 .. Len(text) + 1 /\ I # {}
  BY <1>3, SMTT(30)
<1>6. end \in 1 .. Len(text) + 1
  BY <1>5, LeastNumber
<1> HIDE DEF I, end
<1>7. end - 1 \in Int /\ 1 \in Int
  BY <1>3, <1>6, SMTT(30)
<1>8. \A i \in 1 .. end - 1 : text[i] \in Glyphs
  <2> DEFINE G == Glyphs
  <2>1. text \in Seq(G)
    BY <1>3
  <2> HIDE DEF G
  <2>2. \A i \in 1 .. end - 1 : text[i] \in G
    BY ONLY <2>1, <1>6, SMTT(30)
  <2> QED
    BY <2>2 DEF G
<1> QED
  BY <1>4, <1>7, <1>8, SubSeqProperties

(* g is the screen after each character of the text, the first n of them. *)
Screens(s, text, n, g) == g = [i \in 0 .. n |-> IF i = 0 THEN s ELSE Put(g[i - 1], text[i])]

(* The screens after n - 1 characters go on to those after n. *)
LEMMA ScreensLonger ==
  ASSUME NEW s, NEW text, NEW n \in Nat, n # 0, NEW g, Screens(s, text, n - 1, g)
  PROVE  \E h : Screens(s, text, n, h)
<1> DEFINE h == [i \in 0 .. n |-> IF i < n THEN g[i] ELSE Put(g[n - 1], text[n])]
<1>1. \A i \in 0 .. n - 1 : g[i] = IF i = 0 THEN s ELSE Put(g[i - 1], text[i])
  BY DEF Screens
<1>2. \A i \in 0 .. n : (IF i < n THEN g[i] ELSE Put(g[n - 1], text[n]))
                        = IF i = 0 THEN s ELSE Put(h[i - 1], text[i])
  <2> TAKE i \in 0 .. n
  <2>1. CASE i < n
    <3>1. i \in 0 .. n - 1 /\ (i # 0 => i - 1 \in 0 .. n /\ i - 1 < n)
      BY <2>1, SMTT(30)
    <3>2. i # 0 => h[i - 1] = g[i - 1]
      BY <3>1
    <3> QED
      BY <1>1, <2>1, <3>1, <3>2
  <2>2. CASE ~ (i < n)
    <3>1. i = n /\ n - 1 \in 0 .. n /\ n - 1 < n
      BY <2>2, SMTT(30)
    <3>2. h[n - 1] = g[n - 1]
      BY <3>1
    <3> QED
      BY <2>2, <3>1, <3>2
  <2> QED
    BY <2>1, <2>2
<1>3. h = [i \in 0 .. n |-> IF i = 0 THEN s ELSE Put(h[i - 1], text[i])]
  BY <1>2
<1> HIDE DEF h
<1>4. Screens(s, text, n, h)
  BY <1>3 DEF Screens
<1> QED
  BY <1>4

(* So there are such screens for every number of characters. *)
LEMMA ScreensExists ==
  ASSUME NEW s, NEW text, NEW n \in Nat
  PROVE  \E g : Screens(s, text, n, g)
<1> DEFINE S == {k \in Nat : ~ \E g : Screens(s, text, k, g)}
           m == Min(S)
<1> SUFFICES ASSUME S # {} PROVE FALSE
  OBVIOUS
<1>1. m \in S /\ \A k \in S : m =< k
  BY LeastNumber
<1>2. m \in Nat /\ ~ \E g : Screens(s, text, m, g)
  BY <1>1
<1>3. m # 0
  <2> DEFINE g == [i \in 0 .. 0 |-> s]
  <2>1. \A i \in 0 .. 0 : s = IF i = 0 THEN s ELSE Put(g[i - 1], text[i])
    BY SMTT(30)
  <2>2. g = [i \in 0 .. 0 |-> IF i = 0 THEN s ELSE Put(g[i - 1], text[i])]
    BY <2>1
  <2> HIDE DEF g
  <2>3. Screens(s, text, 0, g)
    BY <2>2 DEF Screens
  <2> QED
    BY <1>2, <2>3
<1>4. m - 1 \in Nat /\ ~ (m =< m - 1)
  BY <1>2, <1>3, SMTT(30)
<1>5. m - 1 \notin S
  BY <1>1, <1>4
<1>6. \E g : Screens(s, text, m - 1, g)
  BY <1>4, <1>5
<1> HIDE DEF m
<1> QED
  BY <1>2, <1>3, <1>6, ScreensLonger

(* PutAll gives the last of them. *)
LEMMA ScreensEnds ==
  ASSUME NEW s, NEW text, Len(text) \in Nat
  PROVE  \E g : Screens(s, text, Len(text), g) /\ PutAll(s, text) = g[Len(text)]
<1> DEFINE g == CHOOSE f : Screens(s, text, Len(text), f)
<1>1. PutAll(s, text) = g[Len(text)]
  BY DEF PutAll, Screens
<1>2. \E f : Screens(s, text, Len(text), f)
  BY ScreensExists
<1>3. Screens(s, text, Len(text), g)
  BY <1>2
<1> QED
  BY <1>1, <1>3

(* The same of the terminal. *)
Terminals(s, text, n, g) == g = [i \in 0 .. n |-> IF i = 0 THEN s ELSE Promise(g[i - 1], text[i])]

(* The terminals after n - 1 characters go on to those after n. *)
LEMMA TerminalsLonger ==
  ASSUME NEW s, NEW text, NEW n \in Nat, n # 0, NEW g, Terminals(s, text, n - 1, g)
  PROVE  \E h : Terminals(s, text, n, h)
<1> DEFINE h == [i \in 0 .. n |-> IF i < n THEN g[i] ELSE Promise(g[n - 1], text[n])]
<1>1. \A i \in 0 .. n - 1 : g[i] = IF i = 0 THEN s ELSE Promise(g[i - 1], text[i])
  BY DEF Terminals
<1>2. \A i \in 0 .. n : (IF i < n THEN g[i] ELSE Promise(g[n - 1], text[n]))
                        = IF i = 0 THEN s ELSE Promise(h[i - 1], text[i])
  <2> TAKE i \in 0 .. n
  <2>1. CASE i < n
    <3>1. i \in 0 .. n - 1 /\ (i # 0 => i - 1 \in 0 .. n /\ i - 1 < n)
      BY <2>1, SMTT(30)
    <3>2. i # 0 => h[i - 1] = g[i - 1]
      BY <3>1
    <3> QED
      BY <1>1, <2>1, <3>1, <3>2
  <2>2. CASE ~ (i < n)
    <3>1. i = n /\ n - 1 \in 0 .. n /\ n - 1 < n
      BY <2>2, SMTT(30)
    <3>2. h[n - 1] = g[n - 1]
      BY <3>1
    <3> QED
      BY <2>2, <3>1, <3>2
  <2> QED
    BY <2>1, <2>2
<1>3. h = [i \in 0 .. n |-> IF i = 0 THEN s ELSE Promise(h[i - 1], text[i])]
  BY <1>2
<1> HIDE DEF h
<1>4. Terminals(s, text, n, h)
  BY <1>3 DEF Terminals
<1> QED
  BY <1>4

(* So there are such terminals for every number of characters. *)
LEMMA TerminalsExists ==
  ASSUME NEW s, NEW text, NEW n \in Nat
  PROVE  \E g : Terminals(s, text, n, g)
<1> DEFINE S == {k \in Nat : ~ \E g : Terminals(s, text, k, g)}
           m == Min(S)
<1> SUFFICES ASSUME S # {} PROVE FALSE
  OBVIOUS
<1>1. m \in S /\ \A k \in S : m =< k
  BY LeastNumber
<1>2. m \in Nat /\ ~ \E g : Terminals(s, text, m, g)
  BY <1>1
<1>3. m # 0
  <2> DEFINE g == [i \in 0 .. 0 |-> s]
  <2>1. \A i \in 0 .. 0 : s = IF i = 0 THEN s ELSE Promise(g[i - 1], text[i])
    BY SMTT(30)
  <2>2. g = [i \in 0 .. 0 |-> IF i = 0 THEN s ELSE Promise(g[i - 1], text[i])]
    BY <2>1
  <2> HIDE DEF g
  <2>3. Terminals(s, text, 0, g)
    BY <2>2 DEF Terminals
  <2> QED
    BY <1>2, <2>3
<1>4. m - 1 \in Nat /\ ~ (m =< m - 1)
  BY <1>2, <1>3, SMTT(30)
<1>5. m - 1 \notin S
  BY <1>1, <1>4
<1>6. \E g : Terminals(s, text, m - 1, g)
  BY <1>4, <1>5
<1> HIDE DEF m
<1> QED
  BY <1>2, <1>3, <1>6, TerminalsLonger

(* PromiseAll gives the last of them. *)
LEMMA TerminalsEnds ==
  ASSUME NEW s, NEW text, Len(text) \in Nat
  PROVE  \E g : Terminals(s, text, Len(text), g) /\ PromiseAll(s, text) = g[Len(text)]
<1> DEFINE g == CHOOSE f : Terminals(s, text, Len(text), f)
<1>1. PromiseAll(s, text) = g[Len(text)]
  BY DEF PromiseAll, Terminals
<1>2. \E f : Terminals(s, text, Len(text), f)
  BY TerminalsExists
<1>3. Terminals(s, text, Len(text), g)
  BY <1>2
<1> QED
  BY <1>1, <1>3

(* A text on both: they match again. *)
LEMMA PutAllMatches ==
  ASSUME NEW s, NEW p, Matches(s, p), NEW text \in Seq(Glyphs)
  PROVE  Matches(PutAll(s, text), PromiseAll(p, text))
<1> DEFINE n == Len(text)
<1>1. n \in Nat
  <2> DEFINE G == Glyphs
  <2>1. text \in Seq(G)
    OBVIOUS
  <2> HIDE DEF G
  <2> QED
    BY ONLY <2>1, SMTT(30) DEF n
<1>2. \A i \in 1 .. n : text[i] \in Glyphs
  <2> DEFINE G == Glyphs
  <2>1. text \in Seq(G)
    OBVIOUS
  <2> HIDE DEF G
  <2>2. \A i \in 1 .. n : text[i] \in G
    BY ONLY <2>1, SMTT(30) DEF n
  <2> QED
    BY <2>2 DEF G
<1>3. PICK g : Screens(s, text, n, g) /\ PutAll(s, text) = g[n]
  BY <1>1, ScreensEnds
<1>4. PICK h : Terminals(p, text, n, h) /\ PromiseAll(p, text) = h[n]
  BY <1>1, TerminalsEnds
<1> HIDE DEF n
<1> DEFINE S == {k \in 0 .. n : ~ Matches(g[k], h[k])}
           m == Min(S)
<1>5. ASSUME S # {} PROVE FALSE
  <2>1. S \subseteq Nat
    BY SMTT(30)
  <2>2. m \in S /\ \A k \in S : m =< k
    BY <1>5, <2>1, LeastNumber
  <2>3. m \in 0 .. n /\ ~ Matches(g[m], h[m])
    BY <2>2
  <2>4. /\ g[m] = IF m = 0 THEN s ELSE Put(g[m - 1], text[m])
        /\ h[m] = IF m = 0 THEN p ELSE Promise(h[m - 1], text[m])
    BY <1>3, <1>4, <2>3 DEF Screens, Terminals
  <2>5. m # 0
    BY <2>3, <2>4
  <2>6. m \in 1 .. n /\ m - 1 \in 0 .. n /\ ~ (m =< m - 1)
    BY <1>1, <2>3, <2>5, SMTT(30)
  <2>7. m - 1 \notin S
    BY <2>2, <2>6
  <2>8. Matches(g[m - 1], h[m - 1])
    BY <2>6, <2>7
  <2>9. Matches(Put(g[m - 1], text[m]), Promise(h[m - 1], text[m]))
    BY <1>2, <2>6, <2>8, PutMatches
  <2> QED
    BY <2>3, <2>4, <2>5, <2>9
<1>6. n \in 0 .. n
  BY <1>1, SMTT(30)
<1> QED
  BY <1>3, <1>4, <1>5, <1>6

-----------------------------------------------------------------------------
(* The screen, as the driver leaves it, is the terminal, and the hardware  *)
(* cursor, once set, is where tty_t's is.                                  *)
ScreenInv ==
  /\ Matches([v |-> video, x |-> cursor_x, y |-> cursor_y], [lines |-> shown, x |-> column])
  /\ hw_cursor # AsBooted => hw_cursor = cursor_y * Columns + cursor_x

(* The invariant holds after tty_init. *)
LEMMA ScreenInitInv == tty_init => ScreenInv
<1> SUFFICES ASSUME tty_init PROVE ScreenInv
  OBVIOUS
<1>0. Rows \in Nat \ {0} /\ Columns \in Nat \ {0}
  BY ScreenAssumption
<1> DEFINE top == BootLine(0)
<1>1. video \in [Cells -> Glyphs] /\ top \in Lines /\ shown = <<top>>
  <2>1. 0 \in 0 .. Rows - 1
    BY <1>0, SMTT(30)
  <2>2. Boot \in [Cells -> Range(Boot)] /\ Range(Boot) \subseteq Glyphs
    BY ScreenAssumption DEF Glyphs
  <2>3. Boot \in [Cells -> Glyphs]
    BY <2>2
  <2> QED
    BY <2>1, <2>3, BootLines DEF tty_init
<1>2. shown \in Seq(Lines) /\ Len(shown) = 1 /\ shown[1] = top
  <2> HIDE DEF top
  <2> QED
    BY ONLY <1>1, SMTT(30)
<1>3. cursor_y \in 0 .. Rows - 1 /\ 0 \in Places /\ Len(shown) = cursor_y + 1
  <2>1. cursor_y = 0
    BY DEF tty_init
  <2> QED
    BY <1>0, <1>2, <2>1, SMTT(30) DEF Places
<1>4. Shows(video, shown)
  <2> SUFFICES ASSUME NEW y \in 0 .. Rows - 1, NEW x \in Places
               PROVE  video[y * Columns + x]
                        = IF y < Len(shown) THEN shown[y + 1][x] ELSE BootLine(y)[x]
    BY DEF Shows
  <2>1. video[y * Columns + x] = BootLine(y)[x]
    BY DEF tty_init, BootLine, Places
  <2>2. y < Len(shown) => y = 0 /\ y + 1 = 1
    BY <1>0, <1>2, SMTT(30)
  <2>3. y < Len(shown) => shown[y + 1][x] = BootLine(y)[x]
    BY <1>2, <2>2
  <2> QED
    BY <2>1, <2>3
<1>5. OnScreen(video, cursor_y, shown)
  BY <1>1, <1>2, <1>3, <1>4 DEF OnScreen
<1>6. hw_cursor = AsBooted /\ cursor_x = 0 /\ column = 0
  BY DEF tty_init
<1>7. Matches(Scr(video, cursor_x, cursor_y), Term(shown, cursor_x))
  BY <1>3, <1>5, <1>6, TermsMatch
<1> QED
  BY <1>6, <1>7 DEF ScreenInv, Scr, Term

(* tty_write keeps the invariant, whatever the text. *)
LEMMA ScreenNextInv == ScreenInv /\ [ScreenNext]_screenvars => ScreenInv'
<1> SUFFICES ASSUME ScreenInv, [ScreenNext]_screenvars PROVE ScreenInv'
  OBVIOUS
<1>1. CASE UNCHANGED screenvars
  BY <1>1 DEF screenvars, ScreenInv, Matches, OnScreen, Shows
<1>2. ASSUME NEW text \in Texts, tty_write(text) PROVE ScreenInv'
  <2> DEFINE s == [v |-> video, x |-> cursor_x, y |-> cursor_y]
             p == [lines |-> shown, x |-> column]
             after == PutAll(s, UpToNul(text))
             promised == PromiseAll(p, UpToNul(text))
  <2>1. Matches(s, p)
    BY DEF ScreenInv
  <2>2. /\ video' = after.v /\ cursor_x' = after.x /\ cursor_y' = after.y
        /\ hw_cursor' = after.y * Columns + after.x
        /\ shown' = promised.lines /\ column' = promised.x
    BY <1>2 DEF tty_write
  <2>3. UpToNul(text) \in Seq(Glyphs)
    BY WrittenText
  <2> HIDE DEF s, p
  <2>4. Matches(after, promised)
    BY <2>1, <2>3, PutAllMatches
  <2> HIDE DEF after, promised
  <2>5. /\ after = [v |-> after.v, x |-> after.x, y |-> after.y]
        /\ promised = [lines |-> promised.lines, x |-> promised.x]
    BY <2>4 DEF Matches
  <2>6. /\ [v |-> video', x |-> cursor_x', y |-> cursor_y'] = after
        /\ [lines |-> shown', x |-> column'] = promised
    BY <2>2, <2>5
  <2>7. Matches([v |-> video', x |-> cursor_x', y |-> cursor_y'],
                [lines |-> shown', x |-> column'])
    BY <2>4, <2>6
  <2>8. hw_cursor' = cursor_y' * Columns + cursor_x'
    BY <2>2
  <2> QED
    BY <2>7, <2>8 DEF ScreenInv
<1> QED
  BY <1>1, <1>2 DEF ScreenNext

(* The invariant gives what the users of the terminal rely on. *)
LEMMA ScreenInvShows == ScreenInv => ScreenShowsLines
<1> SUFFICES ASSUME ScreenInv PROVE ScreenShowsLines
  OBVIOUS
<1> DEFINE s == [v |-> video, x |-> cursor_x, y |-> cursor_y]
           p == [lines |-> shown, x |-> column]
<1>1. s.v = video /\ s.x = cursor_x /\ s.y = cursor_y /\ p.lines = shown /\ p.x = column
  OBVIOUS
<1>2. Matches(s, p)
  BY DEF ScreenInv
<1> HIDE DEF s, p
<1>3. OnScreen(video, cursor_y, shown) /\ column = cursor_x
  BY <1>1, <1>2 DEF Matches
<1>4. Shows(video, shown) /\ cursor_y \in 0 .. Rows - 1 /\ Len(shown) = cursor_y + 1
  BY <1>3 DEF OnScreen
<1>5. cursor_y = Len(shown) - 1
  BY <1>4, ScreenAssumption, SMTT(30)
<1>6. hw_cursor # AsBooted => hw_cursor = cursor_y * Columns + cursor_x
  BY DEF ScreenInv
<1> QED
  BY <1>3, <1>4, <1>5, <1>6 DEF ScreenShowsLines, Shows, Places

(* The screen of x86_64 shows the last lines written over what it held at  *)
(* boot, with the driver's cursor, and from the first tty_write on the     *)
(* hardware's, where the next character will appear, for every size of the *)
(* screen, all contents at boot and all texts that tty_write is called     *)
(* with (ScreenShowsLines).                                                *)
THEOREM ScreenStaysRight == ScreenSpec => []ScreenShowsLines
BY ScreenInitInv, ScreenNextInv, ScreenInvShows, PTL DEF ScreenSpec
=============================================================================
