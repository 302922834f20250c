----------------------------- MODULE DiskProofs -----------------------------
(***************************************************************************)
(* Proofs about Disk with one disk, for any number of threads, processors  *)
(* and semaphores: DeviceInStep, RequestsAlive, ReturnsWhenDone and        *)
(* SleepersPending.  Two disks lose a wake-up, as a run shows, and with    *)
(* them the steps of Semaphore are too coarse: see there.                  *)
(*                                                                         *)
(* The handler raises the semaphore of a request while its thread may      *)
(* return, destroy the semaphore and let another thread create it anew,    *)
(* before the handler has released the lock of the semaphore.  So the      *)
(* callers' contract of module Semaphore does not hold here, and the       *)
(* inductive invariant is not the one of that module: it follows each      *)
(* request from disk_submit_request to the handler and back.               *)
(***************************************************************************)
EXTENDS Disk, TLAPS

(* Zenon proves the leaves, but those with arithmetic or sequences.        *)
USE ZenonT(30)

Elements(q) == {q[i] : i \in 1 .. Len(q)}
Distinct(q) == \A i, j \in 1 .. Len(q) : q[i] = q[j] => i = j

(* The device still has the served request of d, or the handler has not    *)
(* raised its semaphore yet.                                               *)
Unsignalled(d) ==
  request_served[d] # none /\ \A h \in Handlers : hpc[h] = "next" => hdisk[h] # d

DiskTypes ==
  /\ creator \in [Semaphores -> Threads \cup {"nobody"}]
  /\ value \in [Semaphores -> Int]
  /\ slock \in [Semaphores -> Actors \cup {"nobody"}]
  /\ waiters \in [Semaphores -> Seq(Threads)]
  /\ op \in [Actors -> Ops]
  /\ sem \in [Actors -> Semaphores \cup {NONE}]
  /\ request_queue \in [Disks -> Seq(Threads)]
  /\ request_served \in [Disks -> Threads \cup {none}]
  /\ dlock \in [Disks -> Handlers \cup {none}]
  /\ busy \in [Disks -> BOOLEAN] /\ irq \in [Disks -> BOOLEAN]
  /\ pc \in [Threads -> {"idle", "create", "enqueue", "wait", "waiting"}]
  /\ disk \in [Threads -> Disks]
  /\ rsem \in [Threads -> Semaphores \cup {NONE}]
  /\ return_value \in [Threads -> {-1, 0}]
  /\ hpc \in [Handlers -> {"none", "lock", "V", "next"}]
  /\ hdisk \in [Handlers -> Disks]
  /\ transferred \in [Threads -> BOOLEAN]

(* A thread in disk_submit_request has a semaphore of its own, and is in   *)
(* no other call than the one its pc says.                                 *)
ThreadFact(t) ==
  /\ pc[t] = "idle" => op[t] = "out" /\ rsem[t] = NONE
  /\ pc[t] = "create" =>
       /\ op[t] = "create" /\ rsem[t] = NONE
       /\ sem[t] \in Semaphores /\ creator[sem[t]] = t
  /\ pc[t] \in {"enqueue", "wait", "waiting"} =>
       rsem[t] \in Semaphores /\ creator[rsem[t]] = t
  /\ pc[t] \in {"enqueue", "wait"} => op[t] = "out"
  /\ pc[t] = "enqueue" => value[rsem[t]] = 0
  /\ pc[t] = "waiting" =>
       /\ op[t] \in {"out", "P_add", "P_release", "P_sleep"}
       /\ op[t] # "out" => sem[t] = rsem[t]
ThreadFacts == \A t \in Threads : ThreadFact(t)

(* The sleep queue of a semaphore holds at most the thread whose request   *)
(* the semaphore belongs to.                                               *)
QueueFact(s) ==
  \/ waiters[s] = <<>>
  \/ \E t \in Threads : /\ waiters[s] = <<t>> /\ pc[t] = "waiting" /\ rsem[t] = s
                        /\ op[t] \in {"P_release", "P_sleep"}
QueueFacts == \A s \in Semaphores : QueueFact(s)

(* A handler is in semaphore_V only when it holds the lock of its disk.    *)
HandlerFacts ==
  \A h \in Handlers :
    /\ op[h] \in {"out", "V_wake", "V_release"}
    /\ op[h] # "out" => hpc[h] = "next" /\ sem[h] \in Semaphores
    /\ hpc[h] \in {"V", "next"} => dlock[hdisk[h]] = h /\ request_served[hdisk[h]] # none

(* The asserts of disk_interrupt_handle and disk_next_request, and that a  *)
(* request is in one place only.                                           *)
DeviceFacts ==
  \A d \in Disks :
    /\ dlock[d] # none => hpc[dlock[d]] \in {"V", "next"} /\ hdisk[dlock[d]] = d
    /\ busy[d] \/ irq[d] => request_served[d] # none /\ dlock[d] = none
    /\ ~ (busy[d] /\ irq[d])
    /\ irq[d] => transferred[request_served[d]]
    /\ request_served[d] = none => request_queue[d] = <<>>
    /\ request_served[d] \notin Elements(request_queue[d])
    /\ Distinct(request_queue[d])

(* The thread of t is in semaphore_P and nobody has taken it from the      *)
(* sleep queue.                                                            *)
InQueue(t) ==
  /\ pc[t] = "waiting" /\ op[t] \in {"P_add", "P_release", "P_sleep"}
  /\ op[t] # "P_add" => waiters[rsem[t]] = <<t>>

(* A request that is not signalled yet: its thread cannot get past         *)
(* semaphore_P.                                                            *)
Blocked(t) ==
  \/ pc[t] = "wait" /\ value[rsem[t]] = 0
  \/ InQueue(t) /\ value[rsem[t]] = -1
PendingFacts ==
  \A d \in Disks : \A t \in Pending(d) : t \in Threads /\ disk[t] = d /\ Blocked(t)

(* A request that is: the device has done it.                              *)
Done(t) ==
  /\ transferred[t] /\ return_value[t] = 0
  /\ pc[t] = "wait" => value[rsem[t]] = 1
DoneFacts ==
  /\ \A t \in Threads :
       pc[t] \in {"wait", "waiting"} /\ t \notin Pending(disk[t]) => Done(t)
  /\ \A h \in Handlers :
       hpc[h] = "V" => /\ transferred[request_served[hdisk[h]]]
                       /\ return_value[request_served[hdisk[h]]] = 0

(* The handler that is about to wake a thread wakes the one that waits for *)
(* the request it has served.                                              *)
WakeFact(h) ==
  /\ InQueue(request_served[hdisk[h]])
  /\ rsem[request_served[hdisk[h]]] = sem[h]
  /\ disk[request_served[hdisk[h]]] = hdisk[h]
WakeFacts == \A h \in Handlers : op[h] = "V_wake" => WakeFact(h)

(* The inductive invariant of the disk driver. *)
DiskInv ==
  /\ DiskTypes /\ ThreadFacts /\ QueueFacts /\ HandlerFacts /\ DeviceFacts
  /\ PendingFacts /\ DoneFacts /\ WakeFacts

OneDisk == \A d, e \in Disks : d = e

(* With one disk the lock of a semaphore is held by the actor inside it:   *)
(* nobody calls semaphore_P on a semaphore that a handler still has to     *)
(* release, because the handler holds the lock of the disk as well.        *)
SlockFacts ==
  /\ \A t \in Threads :
       op[t] \in {"P_add", "P_release"} => slock[rsem[t]] = t
  /\ \A h \in Handlers : op[h] = "V_wake" => slock[sem[h]] = h
  /\ \A h \in Handlers, t \in Threads :
       op[h] # "out" /\ rsem[t] = sem[h] =>
         pc[t] = "enqueue" \/ (pc[t] = "waiting" /\ op[t] \in {"P_sleep", "out"})

(* A thread that has not been taken from the sleep queue will be. *)
SleepFacts ==
  \A t \in Threads : InQueue(t) => t \in Pending(disk[t]) \/ Signalling(t)

OneDiskInv == DiskInv /\ SlockFacts /\ SleepFacts

-----------------------------------------------------------------------------

(* The actors and the semaphores are told apart.                           *)
LEMMA Basics ==
  /\ Threads \subseteq Actors /\ Handlers \subseteq Actors
  /\ none \notin Threads /\ none \notin Handlers /\ \A t \in Threads : t \notin Handlers
  /\ NONE \notin Semaphores
<1>1. NONE \notin Semaphores
  BY MaxSemaphoresAssumption, SMTT(30) DEF NONE, Semaphores
<1> QED
  BY <1>1, ActorsAssumption DEF Actors, none

(* The requests of a disk that are not signalled yet. *)
LEMMA PendingIs ==
  ASSUME NEW d \in Disks
  PROVE  Pending(d) = Elements(request_queue[d]) \cup (IF Unsignalled(d) THEN {request_served[d]}
                                                                         ELSE {})
BY DEF Pending, Elements, Unsignalled

(* The request the device works on or reports, and the one whose semaphore *)
(* the handler is about to raise, are not signalled yet.                   *)
LEMMA Served ==
  ASSUME DiskInv, NEW d \in Disks
  PROVE  /\ busy[d] \/ irq[d] => request_served[d] \in Pending(d) /\ request_served[d] \in Threads
         /\ \A h \in Handlers : hpc[h] = "V" /\ hdisk[h] = d =>
              request_served[d] \in Pending(d) /\ request_served[d] \in Threads
<1>0. DiskTypes /\ HandlerFacts /\ DeviceFacts
  BY DEF DiskInv
<1>1. ASSUME busy[d] \/ irq[d]
      PROVE  Unsignalled(d)
  <2>1. request_served[d] # none /\ dlock[d] = none
    BY <1>0, <1>1 DEF DeviceFacts
  <2>2. \A h \in Handlers : hpc[h] = "next" /\ hdisk[h] = d => dlock[d] = h
    BY <1>0 DEF HandlerFacts
  <2> QED
    BY <2>1, <2>2, Basics DEF Unsignalled
<1>2. ASSUME NEW h \in Handlers, hpc[h] = "V", hdisk[h] = d
      PROVE  Unsignalled(d)
  <2>1. dlock[d] = h /\ request_served[d] # none
    BY <1>0, <1>2 DEF HandlerFacts
  <2>2. \A g \in Handlers : hpc[g] = "next" /\ hdisk[g] = d => g = h
    BY <1>0, <2>1 DEF HandlerFacts
  <2> QED
    BY <1>2, <2>1, <2>2 DEF Unsignalled
<1>3. ASSUME Unsignalled(d)
      PROVE  request_served[d] \in Pending(d) /\ request_served[d] \in Threads
  <2>1. request_served[d] \in Pending(d)
    BY <1>3, PendingIs
  <2>2. request_served[d] \in Threads
    BY <1>0, <1>3 DEF DiskTypes, Unsignalled
  <2> QED
    BY <2>1, <2>2
<1> QED
  BY <1>1, <1>2, <1>3

(* A step of thread t that leaves the device and the handlers alone and    *)
(* touches no semaphore but its own, s.                                    *)
ThreadMove(t, s) ==
  /\ UNCHANGED <<request_queue, request_served, dlock, busy, irq, hpc, hdisk>>
  /\ \A u \in Threads : u # t =>
       /\ pc'[u] = pc[u] /\ disk'[u] = disk[u] /\ rsem'[u] = rsem[u]
       /\ return_value'[u] = return_value[u] /\ transferred'[u] = transferred[u]
  /\ \A a \in Actors : a # t => op'[a] = op[a] /\ sem'[a] = sem[a]
  /\ \A r \in Semaphores : r # s =>
       value'[r] = value[r] /\ waiters'[r] = waiters[r] /\ creator'[r] = creator[r]
  /\ creator[s] \in {t, "nobody"}
  /\ pc[t] \in {"enqueue", "wait", "waiting"} => rsem[t] = s
  /\ pc[t] = "idle" \/ (/\ disk'[t] = disk[t] /\ return_value'[t] = return_value[t]
                        /\ transferred'[t] = transferred[t])

(* What it has to keep of the request of t. *)
Keeps(t) ==
  /\ ThreadFact(t)'
  /\ Blocked(t) => Blocked(t)'
  /\ InQueue(t) => InQueue(t)' /\ rsem'[t] = rsem[t]
  /\ pc'[t] \in {"wait", "waiting"} =>
       pc[t] \in {"wait", "waiting"} /\ (Done(t) => Done(t)')

(* A semaphore that is not u's is not the one of u's request. *)
LEMMA Foreign ==
  ASSUME NEW u \in Threads, NEW s \in Semaphores, ThreadFact(u), creator[s] # u
  PROVE  /\ pc[u] \in {"enqueue", "wait", "waiting"} => rsem[u] \in Semaphores /\ rsem[u] # s
         /\ pc[u] = "create" => sem[u] \in Semaphores /\ sem[u] # s
<1>1. ASSUME pc[u] \in {"enqueue", "wait", "waiting"}
      PROVE  rsem[u] \in Semaphores /\ creator[rsem[u]] = u
  BY <1>1 DEF ThreadFact
<1>2. ASSUME pc[u] = "create"
      PROVE  sem[u] \in Semaphores /\ creator[sem[u]] = u
  BY <1>2 DEF ThreadFact
<1> QED
  BY <1>1, <1>2

(* The request a handler finds on its disk is that of a thread.            *)
LEMMA ServedThread ==
  ASSUME DiskTypes, NEW h \in Handlers
  PROVE  /\ hdisk[h] \in Disks
         /\ request_served[hdisk[h]] # none => request_served[hdisk[h]] \in Threads
<1>1. hdisk[h] \in Disks
  BY DEF DiskTypes
<1>2. \A d \in Disks : request_served[d] \in Threads \cup {none}
  BY DEF DiskTypes
<1> QED
  BY <1>1, <1>2

(* After such a step only the facts about t need a proof. *)
LEMMA ThreadFrame ==
  ASSUME DiskInv, DiskTypes', NEW t \in Threads, NEW s \in Semaphores, ThreadMove(t, s),
         Keeps(t), QueueFact(s)'
  PROVE  DiskInv'
<1>0. /\ DiskTypes /\ ThreadFacts /\ QueueFacts /\ HandlerFacts /\ DeviceFacts
      /\ PendingFacts /\ DoneFacts /\ WakeFacts
  BY DEF DiskInv
<1>1. ASSUME NEW u \in Threads, u # t
      PROVE  /\ pc[u] \in {"enqueue", "wait", "waiting"} => rsem[u] \in Semaphores /\ rsem[u] # s
             /\ pc[u] = "create" => sem[u] \in Semaphores /\ sem[u] # s
             /\ pc'[u] = pc[u] /\ disk'[u] = disk[u] /\ rsem'[u] = rsem[u]
             /\ return_value'[u] = return_value[u] /\ transferred'[u] = transferred[u]
             /\ op'[u] = op[u] /\ sem'[u] = sem[u]
  <2>1. creator[s] # u
    BY <1>1, Basics DEF ThreadMove, none
  <2>2. ThreadFact(u)
    BY <1>0 DEF ThreadFacts
  <2>3. u \in Actors
    BY Basics
  <2>4. /\ pc[u] \in {"enqueue", "wait", "waiting"} => rsem[u] \in Semaphores /\ rsem[u] # s
        /\ pc[u] = "create" => sem[u] \in Semaphores /\ sem[u] # s
    BY <2>1, <2>2, Foreign
  <2>5. op'[u] = op[u] /\ sem'[u] = sem[u]
    BY <1>1, <2>3 DEF ThreadMove
  <2> QED
    BY <1>1, <2>4, <2>5 DEF ThreadMove
<1>2. \A r \in Semaphores : r # s =>
        value'[r] = value[r] /\ waiters'[r] = waiters[r] /\ creator'[r] = creator[r]
  BY DEF ThreadMove
<1>3. ThreadFacts'
  <2> SUFFICES ASSUME NEW u \in Threads, u # t PROVE ThreadFact(u)'
    BY DEF ThreadFacts, Keeps
  <2>1. ThreadFact(u)
    BY <1>0 DEF ThreadFacts
  <2> QED
    BY <1>1, <1>2, <2>1 DEF ThreadFact
<1>4. ASSUME NEW u \in Threads, u # t
      PROVE  /\ InQueue(u) => InQueue(u)'
             /\ Blocked(u) => Blocked(u)'
             /\ pc[u] \in {"wait", "waiting"} /\ Done(u) => Done(u)'
  <2>1. InQueue(u) => InQueue(u)'
    BY <1>1, <1>2, <1>4 DEF InQueue
  <2>2. Blocked(u) => Blocked(u)'
    <3>1. pc[u] \in {"wait", "waiting"} => value'[rsem'[u]] = value[rsem[u]]
      BY <1>1, <1>2, <1>4
    <3>2. pc'[u] = pc[u]
      BY <1>1, <1>4
    <3>3. InQueue(u) => pc[u] = "waiting"
      BY DEF InQueue
    <3> QED
      BY <2>1, <3>1, <3>2, <3>3 DEF Blocked
  <2>3. pc[u] \in {"wait", "waiting"} /\ Done(u) => Done(u)'
    <3>1. pc[u] = "wait" => value'[rsem'[u]] = value[rsem[u]]
      BY <1>1, <1>2, <1>4
    <3>2. pc'[u] = pc[u] /\ return_value'[u] = return_value[u] /\ transferred'[u] = transferred[u]
      BY <1>1, <1>4
    <3> QED
      BY <3>1, <3>2 DEF Done
  <2> QED
    BY <2>1, <2>2, <2>3
<1>5. QueueFacts'
  <2> SUFFICES ASSUME NEW r \in Semaphores, r # s PROVE QueueFact(r)'
    BY DEF QueueFacts
  <2>1. CASE waiters[r] = <<>>
    BY <1>2, <2>1 DEF QueueFact
  <2>2. CASE waiters[r] # <<>>
    <3>1. PICK u \in Threads : /\ waiters[r] = <<u>> /\ pc[u] = "waiting" /\ rsem[u] = r
                               /\ op[u] \in {"P_release", "P_sleep"}
      BY <1>0, <2>2 DEF QueueFacts, QueueFact
    <3>2. u # t
      BY <3>1 DEF ThreadMove
    <3> QED
      BY <1>1, <1>2, <3>1, <3>2 DEF QueueFact
  <2> QED
    BY <2>1, <2>2
<1>6. \A d : Pending(d)' = Pending(d)
  <2>1. UNCHANGED <<request_queue, request_served, hpc, hdisk>>
    BY DEF ThreadMove
  <2> QED
    BY <2>1, SMTT(30) DEF Pending
<1>7. HandlerFacts'
  <2>1. \A h \in Handlers : op'[h] = op[h] /\ sem'[h] = sem[h]
    BY Basics DEF ThreadMove
  <2> QED
    BY <1>0, <2>1 DEF HandlerFacts, ThreadMove
<1>8. PendingFacts'
  <2> SUFFICES ASSUME NEW d \in Disks, NEW u \in Pending(d)
               PROVE  u \in Threads /\ disk'[u] = d /\ Blocked(u)'
    BY <1>6 DEF PendingFacts
  <2>1. u \in Threads /\ disk[u] = d /\ Blocked(u)
    BY <1>0 DEF PendingFacts
  <2>2. pc[u] # "idle"
    BY <2>1 DEF Blocked, InQueue
  <2>3. disk'[u] = disk[u]
    BY <1>1, <2>1, <2>2 DEF ThreadMove
  <2> QED
    BY <1>4, <2>1, <2>3 DEF Keeps
<1>9. ASSUME NEW d \in Disks, request_served[d] \in Pending(d)
      PROVE  /\ transferred'[request_served[d]] = transferred[request_served[d]]
             /\ return_value'[request_served[d]] = return_value[request_served[d]]
  <2>1. request_served[d] \in Threads /\ Blocked(request_served[d])
    BY <1>0, <1>9 DEF PendingFacts
  <2>2. pc[request_served[d]] # "idle"
    BY <2>1 DEF Blocked, InQueue
  <2> QED
    BY <1>1, <2>1, <2>2 DEF ThreadMove
<1>10. DeviceFacts'
  <2>1. \A d \in Disks : irq[d] => transferred'[request_served[d]]
    BY <1>0, <1>9, Served DEF DeviceFacts
  <2> QED
    <3>1. UNCHANGED <<request_queue, request_served, dlock, busy, irq, hpc, hdisk>>
      BY DEF ThreadMove
    <3> QED
      BY <1>0, <2>1, <3>1 DEF DeviceFacts
<1>11. DoneFacts'
  <2>1. ASSUME NEW u \in Threads, pc'[u] \in {"wait", "waiting"}, u \notin Pending(disk'[u])
        PROVE  Done(u)'
    <3>1. pc[u] \in {"wait", "waiting"} /\ disk'[u] = disk[u]
      BY <1>1, <2>1 DEF ThreadMove, Keeps
    <3>2. Done(u)
      BY <1>0, <2>1, <3>1 DEF DoneFacts
    <3> QED
      BY <1>4, <2>1, <3>1, <3>2 DEF Keeps
  <2>2. ASSUME NEW h \in Handlers, hpc[h] = "V"
        PROVE  /\ transferred'[request_served[hdisk[h]]]
               /\ return_value'[request_served[hdisk[h]]] = 0
    <3>1. hdisk[h] \in Disks
      BY <1>0 DEF DiskTypes
    <3>2. request_served[hdisk[h]] \in Pending(hdisk[h])
      BY <2>2, <3>1, Served
    <3> QED
      BY <1>0, <1>9, <2>2, <3>1, <3>2 DEF DoneFacts
  <2>3. UNCHANGED <<hpc, request_served, hdisk>>
    BY DEF ThreadMove
  <2> QED
    BY <1>6, <2>1, <2>2, <2>3 DEF DoneFacts
<1>12. WakeFacts'
  <2> SUFFICES ASSUME NEW h \in Handlers, op'[h] = "V_wake"
               PROVE  /\ InQueue(request_served[hdisk[h]])'
                      /\ rsem'[request_served[hdisk[h]]] = sem'[h]
                      /\ disk'[request_served[hdisk[h]]] = hdisk[h]
    BY DEF WakeFacts, WakeFact, ThreadMove
  <2>1. op[h] = "V_wake" /\ sem'[h] = sem[h]
    BY Basics DEF ThreadMove
  <2>2. request_served[hdisk[h]] \in Threads
    BY <1>0, <2>1, ServedThread DEF HandlerFacts
  <2>3. PICK u \in Threads : u = request_served[hdisk[h]]
    BY <2>2
  <2>4. InQueue(u) /\ rsem[u] = sem[h] /\ disk[u] = hdisk[h]
    BY <1>0, <2>1, <2>3 DEF WakeFacts, WakeFact
  <2>5. rsem'[u] = rsem[u] /\ disk'[u] = disk[u]
    BY <1>1, <2>4 DEF InQueue, ThreadMove, Keeps
  <2>6. InQueue(u)'
    BY <1>4, <2>4 DEF Keeps
  <2>7. InQueue(request_served[hdisk[h]])'
    BY <2>3, <2>6 DEF ThreadMove
  <2> QED
    BY <2>1, <2>3, <2>4, <2>5, <2>7
<1> QED
  BY <1>3, <1>5, <1>7, <1>8, <1>10, <1>11, <1>12 DEF DiskInv

(* Whoever sleeps on a semaphore is the thread that has created it. *)
LEMMA NoSleeper ==
  ASSUME DiskInv, NEW s \in Semaphores,
         \A u \in Threads : creator[s] = u => pc[u] # "waiting" \/ op[u] \in {"out", "P_add"}
  PROVE  waiters[s] = <<>>
<1> SUFFICES ASSUME waiters[s] # <<>> PROVE FALSE
  OBVIOUS
<1>1. PICK u \in Threads : /\ waiters[s] = <<u>> /\ pc[u] = "waiting" /\ rsem[u] = s
                           /\ op[u] \in {"P_release", "P_sleep"}
  BY DEF DiskInv, QueueFacts, QueueFact
<1>2. creator[rsem[u]] = u
  BY <1>1 DEF DiskInv, ThreadFacts, ThreadFact
<1> QED
  BY <1>1, <1>2

(* disk_submit_request takes a free semaphore: nobody sleeps on it. *)
LEMMA SubmitInv ==
  ASSUME DiskInv, NEW t \in Threads, NEW d \in Disks, disk_submit_request(t, d)
  PROVE  DiskInv'
<1>0. DiskTypes /\ t \in Actors
  BY Basics DEF DiskInv
<1>1. PICK s \in Semaphores : /\ creator[s] = "nobody" /\ creator' = [creator EXCEPT ![s] = t]
                              /\ sem' = [sem EXCEPT ![t] = s]
  BY DEF disk_submit_request, semaphore_create, Free
<1>2. /\ pc[t] = "idle" /\ op' = [op EXCEPT ![t] = "create"] /\ pc' = [pc EXCEPT ![t] = "create"]
      /\ disk' = [disk EXCEPT ![t] = d] /\ return_value' = [return_value EXCEPT ![t] = -1]
      /\ transferred' = [transferred EXCEPT ![t] = FALSE]
      /\ UNCHANGED <<request_queue, request_served, dlock, busy, irq, hpc, hdisk, rsem, value,
                     slock, waiters>>
  BY DEF disk_submit_request, semaphore_create, device, handling
<1>3. DiskTypes'
  BY <1>0, <1>1, <1>2 DEF DiskTypes, Ops
<1>4. ThreadMove(t, s)
  BY <1>0, <1>1, <1>2 DEF ThreadMove, DiskTypes
<1>5. Keeps(t)
  <2>1. rsem[t] = NONE
    BY <1>2 DEF DiskInv, ThreadFacts, ThreadFact
  <2>2. pc'[t] = "create" /\ op'[t] = "create" /\ sem'[t] = s /\ creator'[s] = t
    BY <1>0, <1>1, <1>2 DEF DiskTypes
  <2>3. ThreadFact(t)'
    BY <1>2, <2>1, <2>2 DEF ThreadFact
  <2>4. ~Blocked(t) /\ ~InQueue(t)
    BY <1>2 DEF Blocked, InQueue
  <2> QED
    BY <2>2, <2>3, <2>4 DEF Keeps
<1>6. QueueFact(s)'
  <2>1. waiters[s] = <<>>
    BY <1>1, NoSleeper, Basics DEF none
  <2> QED
    BY <1>2, <2>1 DEF QueueFact
<1> QED
  BY <1>3, <1>4, <1>5, <1>6, ThreadFrame

(* semaphore_create returns: the thread has its semaphore.                 *)
LEMMA CreatedInv ==
  ASSUME DiskInv, NEW t \in Threads, Created(t)
  PROVE  DiskInv'
<1>0. DiskTypes /\ t \in Actors /\ ThreadFact(t)
  BY Basics DEF DiskInv, ThreadFacts
<1>1. PICK s \in Semaphores : s = sem[t] /\ creator[s] = t
  BY <1>0 DEF Created, ThreadFact
<1>2. /\ pc[t] = "create" /\ op' = [op EXCEPT ![t] = "out"] /\ pc' = [pc EXCEPT ![t] = "enqueue"]
      /\ sem' = [sem EXCEPT ![t] = NONE] /\ rsem' = [rsem EXCEPT ![t] = s]
      /\ value' = [value EXCEPT ![s] = 0] /\ slock' = [slock EXCEPT ![s] = "nobody"]
      /\ UNCHANGED <<request_queue, request_served, dlock, busy, irq, hpc, hdisk, creator,
                     waiters, disk, return_value, transferred>>
  BY <1>1 DEF Created, SetValue, device, handling
<1>3. DiskTypes'
  <2>1. value' \in [Semaphores -> Int]
    BY <1>0, <1>2, SMTT(30) DEF DiskTypes
  <2> QED
    BY <1>0, <1>2, <2>1 DEF DiskTypes, Ops
<1>4. ThreadMove(t, s)
  BY <1>0, <1>1, <1>2 DEF ThreadMove, DiskTypes
<1>5. Keeps(t)
  <2>1. pc'[t] = "enqueue" /\ op'[t] = "out" /\ rsem'[t] = s /\ creator'[s] = t /\ value'[s] = 0
    BY <1>0, <1>1, <1>2 DEF DiskTypes
  <2>2. ThreadFact(t)'
    BY <2>1 DEF ThreadFact
  <2>3. ~Blocked(t) /\ ~InQueue(t)
    BY <1>2 DEF Blocked, InQueue
  <2> QED
    BY <2>1, <2>2, <2>3 DEF Keeps
<1>6. QueueFact(s)'
  <2>1. waiters[s] = <<>>
    BY <1>1, <1>2, NoSleeper
  <2> QED
    BY <1>2, <2>1 DEF QueueFact
<1> QED
  BY <1>3, <1>4, <1>5, <1>6, ThreadFrame

(* semaphore_P is passed at once exactly when the request is done.         *)
LEMMA WaitInv ==
  ASSUME DiskInv, NEW t \in Threads, Wait(t)
  PROVE  DiskInv'
<1>0. DiskTypes /\ t \in Actors /\ ThreadFact(t) /\ pc[t] = "wait"
  BY Basics DEF DiskInv, ThreadFacts, Wait
<1>1. PICK s \in Semaphores : s = rsem[t] /\ creator[s] = t
  BY <1>0 DEF ThreadFact
<1>2. value[s] \in {0, 1}
  <2>1. CASE t \in Pending(disk[t])
    <3>1. disk[t] \in Disks
      BY <1>0 DEF DiskTypes
    <3>2. Blocked(t)
      BY <2>1, <3>1 DEF DiskInv, PendingFacts
    <3> QED
      BY <1>0, <1>1, <3>2 DEF Blocked, InQueue
  <2>2. CASE t \notin Pending(disk[t])
    BY <1>0, <1>1, <2>2 DEF DiskInv, DoneFacts, Done
  <2> QED
    BY <2>1, <2>2
<1>3. /\ pc' = [pc EXCEPT ![t] = "waiting"]
      /\ UNCHANGED <<request_queue, request_served, dlock, busy, irq, hpc, hdisk, creator,
                     waiters, disk, return_value, transferred, rsem>>
      /\ \/ /\ value[s] = 0 /\ value' = [value EXCEPT ![s] = -1]
            /\ slock' = [slock EXCEPT ![s] = t]
            /\ op' = [op EXCEPT ![t] = "P_add"] /\ sem' = [sem EXCEPT ![t] = s]
         \/ value[s] = 1 /\ value' = [value EXCEPT ![s] = 0] /\ UNCHANGED <<slock, op, sem>>
  <2>1. value[s] = 0 => value[s] - 1 = -1 /\ value[s] - 1 < 0
    BY SMTT(30)
  <2>2. value[s] = 1 => value[s] - 1 = 0 /\ ~(value[s] - 1 < 0)
    BY SMTT(30)
  <2> QED
    BY <1>1, <1>2, <2>1, <2>2 DEF Wait, semaphore_P, device, handling
<1>4. DiskTypes'
  <2>1. value' \in [Semaphores -> Int]
    BY <1>0, <1>3, SMTT(30) DEF DiskTypes
  <2>2. /\ op' \in [Actors -> Ops] /\ sem' \in [Actors -> Semaphores \cup {NONE}]
        /\ slock' \in [Semaphores -> Actors \cup {"nobody"}]
    <3>1. CASE /\ slock' = [slock EXCEPT ![s] = t]
               /\ op' = [op EXCEPT ![t] = "P_add"] /\ sem' = [sem EXCEPT ![t] = s]
      BY <1>0, <3>1 DEF DiskTypes, Ops
    <3>2. CASE UNCHANGED <<slock, op, sem>>
      BY <1>0, <3>2 DEF DiskTypes
    <3> QED
      BY <1>3, <3>1, <3>2
  <2>3. pc' \in [Threads -> {"idle", "create", "enqueue", "wait", "waiting"}]
    BY <1>0, <1>3 DEF DiskTypes
  <2> QED
    BY <1>0, <1>3, <2>1, <2>2, <2>3 DEF DiskTypes
<1>5. ThreadMove(t, s)
  BY <1>0, <1>1, <1>3 DEF ThreadMove, DiskTypes
<1>6. op[t] = "out" /\ pc'[t] = "waiting" /\ rsem'[t] = s
  BY <1>0, <1>1, <1>3 DEF ThreadFact, DiskTypes
<1>7. \/ value[s] = 0 /\ value'[s] = -1 /\ op'[t] = "P_add" /\ sem'[t] = s
      \/ value[s] = 1 /\ op'[t] = "out"
  BY <1>0, <1>3, <1>6 DEF DiskTypes
<1>8. Keeps(t)
  <2>1. ThreadFact(t)'
    BY <1>1, <1>3, <1>6, <1>7 DEF ThreadFact
  <2>2. ~InQueue(t)
    BY <1>0 DEF InQueue
  <2>3. Blocked(t) => value[s] = 0
    BY <1>1, <2>2 DEF Blocked
  <2>4. value[s] = 0 => value[s] # 1
    BY SMTT(30)
  <2>5. Blocked(t) => Blocked(t)'
    BY <1>6, <1>7, <2>3, <2>4 DEF Blocked, InQueue
  <2>6. Done(t) => Done(t)'
    BY <1>3, <1>6 DEF Done
  <2> QED
    BY <1>0, <2>1, <2>2, <2>5, <2>6 DEF Keeps
<1>9. QueueFact(s)'
  <2>1. waiters[s] = <<>>
    BY <1>0, <1>1, NoSleeper
  <2> QED
    BY <1>3, <2>1 DEF QueueFact
<1> QED
  BY <1>4, <1>5, <1>8, <1>9, ThreadFrame

(* The thread destroys its semaphore and returns.                          *)
LEMMA ReturnInv ==
  ASSUME DiskInv, NEW t \in Threads, Return(t)
  PROVE  DiskInv'
<1>0. DiskTypes /\ t \in Actors /\ ThreadFact(t) /\ pc[t] = "waiting" /\ op[t] = "out"
  BY Basics DEF DiskInv, ThreadFacts, Return, semaphore_destroy
<1>1. PICK s \in Semaphores : s = rsem[t] /\ creator[s] = t
  BY <1>0 DEF ThreadFact
<1>2. /\ creator' = [creator EXCEPT ![s] = "nobody"]
      /\ rsem' = [rsem EXCEPT ![t] = NONE] /\ pc' = [pc EXCEPT ![t] = "idle"]
      /\ UNCHANGED <<request_queue, request_served, dlock, busy, irq, hpc, hdisk, value, slock,
                     waiters, op, sem, disk, return_value, transferred>>
  BY <1>1 DEF Return, semaphore_destroy, device, handling
<1>3. DiskTypes'
  BY <1>0, <1>2 DEF DiskTypes
<1>4. ThreadMove(t, s)
  BY <1>0, <1>1, <1>2 DEF ThreadMove, DiskTypes
<1>5. Keeps(t)
  <2>1. pc'[t] = "idle" /\ op'[t] = "out" /\ rsem'[t] = NONE
    BY <1>0, <1>2 DEF DiskTypes
  <2>2. ThreadFact(t)'
    BY <2>1 DEF ThreadFact
  <2>3. ~Blocked(t) /\ ~InQueue(t)
    BY <1>0 DEF Blocked, InQueue
  <2> QED
    BY <2>1, <2>2, <2>3 DEF Keeps
<1>6. QueueFact(s)'
  <2>1. waiters[s] = <<>>
    BY <1>0, <1>1, NoSleeper
  <2> QED
    BY <1>2, <2>1 DEF QueueFact
<1> QED
  BY <1>3, <1>4, <1>5, <1>6, ThreadFrame

(* A thread inside semaphore_P is there for its request. *)
LEMMA InsideP ==
  ASSUME DiskInv, NEW t \in Threads
  PROVE  /\ op[t] \in {"out", "create", "P_add", "P_release", "P_sleep"}
         /\ op[t] \in {"P_add", "P_release", "P_sleep"} =>
              /\ pc[t] = "waiting" /\ rsem[t] \in Semaphores /\ creator[rsem[t]] = t
              /\ sem[t] = rsem[t]
<1>1. ThreadFact(t) /\ pc[t] \in {"idle", "create", "enqueue", "wait", "waiting"}
  BY DEF DiskInv, ThreadFacts, DiskTypes
<1> QED
  BY <1>1 DEF ThreadFact

(* The thread enters the sleep queue of its own semaphore.                 *)
LEMMA SleepqAddInv ==
  ASSUME DiskInv, NEW t \in Threads, SleepqAdd(t), UNCHANGED diskVars
  PROVE  DiskInv'
<1>0. /\ DiskTypes /\ t \in Actors /\ ThreadFact(t) /\ op[t] = "P_add"
      /\ pc[t] = "waiting" /\ rsem[t] \in Semaphores /\ creator[rsem[t]] = t /\ sem[t] = rsem[t]
  BY InsideP, Basics DEF DiskInv, ThreadFacts, SleepqAdd
<1>1. PICK s \in Semaphores : s = rsem[t] /\ creator[s] = t
  BY <1>0
<1>2. waiters[s] = <<>>
  BY <1>0, <1>1, NoSleeper
<1>3. /\ waiters' = [waiters EXCEPT ![s] = <<t>>] /\ op' = [op EXCEPT ![t] = "P_release"]
      /\ UNCHANGED <<request_queue, request_served, dlock, busy, irq, hpc, hdisk, value, slock,
                     creator, rsem, pc, sem, disk, return_value, transferred>>
  <2>1. Append(waiters[s], t) = <<t>>
    BY <1>2, SMTT(30)
  <2> QED
    BY <1>0, <1>1, <2>1 DEF SleepqAdd, semaphore_table, diskVars, device, submit, handling
<1>4. DiskTypes'
  <2>1. waiters' \in [Semaphores -> Seq(Threads)]
    <3>1. <<t>> \in Seq(Threads)
      BY SMTT(30)
    <3> QED
      BY <1>0, <1>3, <3>1 DEF DiskTypes
  <2> QED
    BY <1>0, <1>3, <2>1 DEF DiskTypes, Ops
<1>5. ThreadMove(t, s)
  BY <1>0, <1>1, <1>3 DEF ThreadMove, DiskTypes
<1>6. op'[t] = "P_release" /\ waiters'[s] = <<t>>
  BY <1>0, <1>3 DEF DiskTypes
<1>7. Keeps(t)
  <2>1. ThreadFact(t)'
    BY <1>0, <1>1, <1>3, <1>6 DEF ThreadFact
  <2>2. InQueue(t)'
    BY <1>0, <1>1, <1>3, <1>6 DEF InQueue
  <2>3. Blocked(t) => Blocked(t)'
    BY <1>0, <1>3, <2>2 DEF Blocked
  <2>4. Done(t) => Done(t)'
    BY <1>3 DEF Done
  <2> QED
    BY <1>0, <1>3, <2>1, <2>2, <2>3, <2>4 DEF Keeps
<1>8. QueueFact(s)'
  BY <1>0, <1>1, <1>3, <1>6 DEF QueueFact
<1> QED
  BY <1>4, <1>5, <1>7, <1>8, ThreadFrame

(* The thread, in the sleep queue, releases the lock of the semaphore.     *)
LEMMA ReleasePInv ==
  ASSUME DiskInv, NEW t \in Threads, ReleaseP(t), UNCHANGED diskVars
  PROVE  DiskInv'
<1>0. /\ DiskTypes /\ t \in Actors /\ ThreadFact(t) /\ op[t] = "P_release"
      /\ pc[t] = "waiting" /\ rsem[t] \in Semaphores /\ creator[rsem[t]] = t /\ sem[t] = rsem[t]
  BY InsideP, Basics DEF DiskInv, ThreadFacts, ReleaseP
<1>1. PICK s \in Semaphores : s = rsem[t] /\ creator[s] = t
  BY <1>0
<1>2. /\ slock' = [slock EXCEPT ![s] = "nobody"] /\ op' = [op EXCEPT ![t] = "P_sleep"]
      /\ UNCHANGED <<request_queue, request_served, dlock, busy, irq, hpc, hdisk, value, waiters,
                     creator, rsem, pc, sem, disk, return_value, transferred>>
  BY <1>0, <1>1 DEF ReleaseP, diskVars, device, submit, handling
<1>3. DiskTypes'
  BY <1>0, <1>2 DEF DiskTypes, Ops
<1>4. ThreadMove(t, s)
  BY <1>0, <1>1, <1>2 DEF ThreadMove, DiskTypes
<1>5. op'[t] = "P_sleep"
  BY <1>0, <1>2 DEF DiskTypes
<1>6. Keeps(t)
  <2>1. ThreadFact(t)'
    BY <1>0, <1>1, <1>2, <1>5 DEF ThreadFact
  <2>2. InQueue(t) => InQueue(t)'
    BY <1>0, <1>2, <1>5 DEF InQueue
  <2>3. Blocked(t) => Blocked(t)'
    BY <1>0, <1>2, <2>2 DEF Blocked
  <2>4. Done(t) => Done(t)'
    BY <1>2 DEF Done
  <2> QED
    BY <1>0, <1>2, <2>1, <2>2, <2>3, <2>4 DEF Keeps
<1>7. QueueFact(s)'
  <2>1. QueueFact(s)
    BY DEF DiskInv, QueueFacts
  <2>2. \A u \in Threads : op[u] \in {"P_release", "P_sleep"} => op'[u] \in {"P_release", "P_sleep"}
    BY <1>0, <1>2, Basics DEF DiskTypes
  <2> QED
    BY <1>2, <2>1, <2>2 DEF QueueFact
<1> QED
  BY <1>3, <1>4, <1>6, <1>7, ThreadFrame

(* A thread that goes on has been taken from the sleep queue. *)
LEMMA ResumeInv ==
  ASSUME DiskInv, NEW t \in Threads, Resume(t), UNCHANGED diskVars
  PROVE  DiskInv'
<1>0. /\ DiskTypes /\ t \in Actors /\ ThreadFact(t) /\ op[t] = "P_sleep"
      /\ pc[t] = "waiting" /\ rsem[t] \in Semaphores /\ creator[rsem[t]] = t /\ sem[t] = rsem[t]
  BY InsideP, Basics DEF DiskInv, ThreadFacts, Resume
<1>1. PICK s \in Semaphores : s = rsem[t] /\ creator[s] = t /\ s = sem[t]
  BY <1>0
<1>2. /\ sem' = [sem EXCEPT ![t] = NONE] /\ op' = [op EXCEPT ![t] = "out"]
      /\ UNCHANGED <<request_queue, request_served, dlock, busy, irq, hpc, hdisk, value, waiters,
                     slock, creator, rsem, pc, disk, return_value, transferred>>
  BY DEF Resume, semaphore_table, diskVars, device, submit, handling
<1>3. waiters[s] = <<>>
  <2>1. waiters[s] # <<t>>
    <3>1. \A i \in 1 .. Len(waiters[s]) : waiters[s][i] # t
      BY <1>1 DEF Resume, Waits
    <3> QED
      BY <3>1, SMTT(30)
  <2>2. QueueFact(s)
    BY DEF DiskInv, QueueFacts
  <2>3. \A u \in Threads : pc[u] = "waiting" /\ rsem[u] = s => u = t
    BY <1>1 DEF DiskInv, ThreadFacts, ThreadFact
  <2> QED
    BY <2>1, <2>2, <2>3 DEF QueueFact
<1>4. DiskTypes'
  BY <1>0, <1>2 DEF DiskTypes, Ops
<1>5. ThreadMove(t, s)
  BY <1>0, <1>1, <1>2 DEF ThreadMove, DiskTypes
<1>6. op'[t] = "out"
  BY <1>0, <1>2 DEF DiskTypes
<1>7. Keeps(t)
  <2>1. ThreadFact(t)'
    BY <1>0, <1>1, <1>2, <1>6 DEF ThreadFact
  <2>2. waiters[s] # <<t>>
    BY <1>3, SMTT(30)
  <2>3. ~InQueue(t) /\ ~Blocked(t)
    BY <1>0, <1>1, <2>2 DEF InQueue, Blocked
  <2>4. Done(t) => Done(t)'
    BY <1>2 DEF Done
  <2> QED
    BY <1>0, <2>1, <2>3, <2>4 DEF Keeps
<1>8. QueueFact(s)'
  BY <1>2, <1>3 DEF QueueFact
<1> QED
  BY <1>4, <1>5, <1>7, <1>8, ThreadFrame

-----------------------------------------------------------------------------
(* The device and the interrupt handler *)

(* A step that leaves the threads and their semaphores alone. *)
LEMMA ThreadsFrame ==
  ASSUME DiskInv, UNCHANGED <<pc, disk, rsem, creator, value, waiters>>,
         \A t \in Threads : op'[t] = op[t] /\ sem'[t] = sem[t]
  PROVE  /\ ThreadFacts' /\ QueueFacts'
         /\ \A t \in Threads : (InQueue(t)' <=> InQueue(t)) /\ (Blocked(t)' <=> Blocked(t))
<1>1. ThreadFacts'
  <2> SUFFICES ASSUME NEW u \in Threads PROVE ThreadFact(u)'
    BY DEF ThreadFacts
  <2>1. ThreadFact(u) /\ op'[u] = op[u] /\ sem'[u] = sem[u]
    BY DEF DiskInv, ThreadFacts
  <2> QED
    BY <2>1 DEF ThreadFact
<1>2. QueueFacts'
  BY DEF DiskInv, QueueFacts, QueueFact
<1>3. \A t \in Threads : InQueue(t)' <=> InQueue(t)
  BY DEF InQueue
<1>4. \A t \in Threads : Blocked(t)' <=> Blocked(t)
  BY <1>3 DEF Blocked
<1> QED
  BY <1>1, <1>2, <1>3, <1>4

(* Only one handler is past the test of the interrupt, for each disk.      *)
LEMMA OneHandler ==
  ASSUME DiskInv, NEW g \in Handlers, NEW h \in Handlers,
         hpc[g] \in {"V", "next"}, hpc[h] \in {"V", "next"}, hdisk[g] = hdisk[h]
  PROVE  g = h
<1>1. dlock[hdisk[g]] = g
  BY DEF DiskInv, HandlerFacts
<1>2. dlock[hdisk[h]] = h
  BY DEF DiskInv, HandlerFacts
<1> QED
  BY <1>1, <1>2

(* The lock of a disk is held by a handler that works on this disk.        *)
LEMMA LockHolder ==
  ASSUME DiskInv, NEW d \in Disks, dlock[d] # none
  PROVE  \E h \in Handlers : h = dlock[d] /\ hpc[h] \in {"V", "next"} /\ hdisk[h] = d
<1>1. \A e \in Disks : dlock[e] \in Handlers \cup {none}
  BY DEF DiskInv, DiskTypes
<1>2. hpc[dlock[d]] \in {"V", "next"} /\ hdisk[dlock[d]] = d
  BY DEF DiskInv, DeviceFacts
<1> QED
  BY <1>1, <1>2

(* What the handler that is about to wake a thread relies on is kept.      *)
LEMMA WakeFrame ==
  ASSUME DiskInv, NEW h \in Handlers, op[h] = "V_wake", hdisk'[h] = hdisk[h], sem'[h] = sem[h],
         request_served'[hdisk[h]] = request_served[hdisk[h]], UNCHANGED <<rsem, disk>>,
         \A t \in Threads : t = request_served[hdisk[h]] /\ InQueue(t) => InQueue(t)'
  PROVE  WakeFact(h)'
<1>1. PICK u \in Threads : u = request_served[hdisk[h]]
  BY ServedThread DEF DiskInv, HandlerFacts
<1>2. InQueue(u) /\ rsem[u] = sem[h] /\ disk[u] = hdisk[h]
  BY <1>1 DEF DiskInv, WakeFacts, WakeFact
<1>3. InQueue(u)'
  BY <1>1, <1>2
<1> QED
  BY <1>1, <1>2, <1>3 DEF WakeFact

(* The device has done the request it was working on.                      *)
LEMMA CompleteInv ==
  ASSUME DiskInv, NEW d \in Disks, Complete(d)
  PROVE  DiskInv'
<1>0. /\ DiskTypes /\ ThreadFacts /\ QueueFacts /\ HandlerFacts /\ DeviceFacts
      /\ PendingFacts /\ DoneFacts /\ WakeFacts /\ busy[d] = TRUE
  BY DEF DiskInv, Complete, DiskTypes
<1>1. PICK v \in Threads : v = request_served[d]
  BY <1>0, Served
<1>2. /\ busy' = [busy EXCEPT ![d] = FALSE] /\ irq' = [irq EXCEPT ![d] = TRUE]
      /\ transferred' = [transferred EXCEPT ![v] = TRUE]
      /\ UNCHANGED <<creator, value, slock, waiters, op, sem, request_queue, request_served,
                     dlock, pc, disk, rsem, return_value, hpc, hdisk>>
  BY <1>1 DEF Complete, vars, semaphore_table, submit, handling
<1>3. DiskTypes'
  <2>1. /\ busy' \in [Disks -> BOOLEAN] /\ irq' \in [Disks -> BOOLEAN]
        /\ transferred' \in [Threads -> BOOLEAN]
    BY <1>0, <1>2 DEF DiskTypes
  <2> QED
    BY <1>0, <1>2, <2>1 DEF DiskTypes
<1>4. /\ ThreadFacts' /\ QueueFacts'
      /\ \A t \in Threads : (InQueue(t)' <=> InQueue(t)) /\ (Blocked(t)' <=> Blocked(t))
  BY <1>2, ThreadsFrame
<1>5. HandlerFacts'
  BY <1>0, <1>2 DEF HandlerFacts
<1>6. \A t \in Threads : transferred[t] => transferred'[t]
  BY <1>0, <1>2 DEF DiskTypes
<1>7. DeviceFacts'
  <2> SUFFICES ASSUME NEW e \in Disks
               PROVE  /\ busy'[e] \/ irq'[e] => request_served[e] # none /\ dlock[e] = none
                      /\ ~ (busy'[e] /\ irq'[e])
                      /\ irq'[e] => transferred'[request_served[e]]
    BY <1>0, <1>2 DEF DeviceFacts
  <2>1. CASE e = d
    <3>1. ~busy'[e] /\ irq'[e] /\ transferred'[v]
      BY <1>0, <1>2, <2>1 DEF DiskTypes
    <3> QED
      BY <1>0, <1>1, <2>1, <3>1 DEF DeviceFacts
  <2>2. CASE e # d
    <3>1. busy'[e] = busy[e] /\ irq'[e] = irq[e]
      BY <1>0, <1>2, <2>2 DEF DiskTypes
    <3>2. irq[e] => request_served[e] \in Threads
      BY Served
    <3> QED
      BY <1>0, <1>6, <3>1, <3>2 DEF DeviceFacts
  <2> QED
    BY <2>1, <2>2
<1>8. \A e : Pending(e)' = Pending(e)
  BY <1>2, SMTT(30) DEF Pending
<1>9. PendingFacts'
  BY <1>0, <1>2, <1>4, <1>8 DEF PendingFacts
<1>10. DoneFacts'
  <2>1. \A t \in Threads : Done(t) => Done(t)'
    BY <1>2, <1>6 DEF Done
  <2>2. \A h \in Handlers : hpc[h] = "V" => transferred'[request_served[hdisk[h]]]
    BY <1>0, <1>6, Served, ServedThread DEF DoneFacts
  <2> QED
    BY <1>0, <1>2, <1>8, <2>1, <2>2 DEF DoneFacts
<1>11. WakeFacts'
  <2>1. \A h \in Handlers : op[h] = "V_wake" => request_served[hdisk[h]] \in Threads
    BY <1>0, ServedThread DEF HandlerFacts
  <2> QED
    BY <1>0, <1>2, <1>4, <2>1 DEF WakeFacts, WakeFact
<1> QED
  BY <1>3, <1>4, <1>5, <1>7, <1>9, <1>10, <1>11 DEF DiskInv

(* The interrupt is taken by a processor.                                  *)
LEMMA InterruptInv ==
  ASSUME DiskInv, NEW h \in Handlers, NEW d \in Disks, Interrupt(h, d)
  PROVE  DiskInv'
<1>0. /\ DiskTypes /\ ThreadFacts /\ QueueFacts /\ HandlerFacts /\ DeviceFacts
      /\ PendingFacts /\ DoneFacts /\ WakeFacts /\ hpc[h] = "none" /\ h \in Actors
  BY Basics DEF DiskInv, Interrupt
<1>1. /\ hpc' = [hpc EXCEPT ![h] = "lock"] /\ hdisk' = [hdisk EXCEPT ![h] = d]
      /\ UNCHANGED <<creator, value, slock, waiters, op, sem, request_queue, request_served,
                     dlock, busy, irq, pc, disk, rsem, return_value, transferred>>
  BY DEF Interrupt, vars, semaphore_table, submit, device
<1>2. /\ hpc'[h] = "lock"
      /\ \A g \in Handlers : g # h => hpc'[g] = hpc[g] /\ hdisk'[g] = hdisk[g]
  BY <1>0, <1>1 DEF DiskTypes
<1>3. DiskTypes'
  BY <1>0, <1>1 DEF DiskTypes
<1>4. /\ ThreadFacts' /\ QueueFacts'
      /\ \A t \in Threads : (InQueue(t)' <=> InQueue(t)) /\ (Blocked(t)' <=> Blocked(t))
  BY <1>1, ThreadsFrame
<1>5. \A g \in Handlers : hpc'[g] \in {"V", "next"} =>
        hpc'[g] = hpc[g] /\ hdisk'[g] = hdisk[g]
  BY <1>2
<1>6. HandlerFacts'
  <2>1. \A g \in Handlers : op[g] # "out" => hpc'[g] = "next"
    BY <1>0, <1>2 DEF HandlerFacts
  <2>2. UNCHANGED <<op, sem, dlock, request_served>>
    BY <1>1
  <2> QED
    BY <1>0, <1>5, <2>1, <2>2 DEF HandlerFacts
<1>7. DeviceFacts'
  <2> SUFFICES ASSUME NEW e \in Disks, dlock[e] # none
               PROVE  hpc'[dlock[e]] \in {"V", "next"} /\ hdisk'[dlock[e]] = e
    BY <1>0, <1>1 DEF DeviceFacts
  <2>1. dlock[e] \in Handlers
    BY <1>0 DEF DiskTypes
  <2>2. hpc[dlock[e]] \in {"V", "next"} /\ hdisk[dlock[e]] = e
    BY <1>0 DEF DeviceFacts
  <2> QED
    BY <1>0, <1>2, <2>1, <2>2
<1>8. \A e \in Disks : Pending(e)' = Pending(e)
  <2> SUFFICES ASSUME NEW e \in Disks PROVE Pending(e)' = Pending(e)
    OBVIOUS
  <2>1. Unsignalled(e)' <=> Unsignalled(e)
    BY <1>0, <1>1, <1>2 DEF Unsignalled
  <2>2. Elements(request_queue'[e]) = Elements(request_queue[e])
    BY <1>1
  <2> QED
    BY <1>1, <2>1, <2>2, PendingIs DEF Pending, Unsignalled, Elements
<1>9. PendingFacts'
  BY <1>0, <1>1, <1>4, <1>8 DEF PendingFacts
<1>10. DoneFacts'
  <2>1. \A t \in Threads : disk[t] \in Disks /\ (Done(t) => Done(t)')
    BY <1>0, <1>1 DEF Done, DiskTypes
  <2>2. UNCHANGED <<pc, disk, transferred, return_value, request_served>>
    BY <1>1
  <2>3. ASSUME NEW t \in Threads, pc'[t] \in {"wait", "waiting"}, t \notin Pending(disk[t])'
        PROVE  Done(t)'
    BY <1>0, <1>8, <2>1, <2>2, <2>3 DEF DoneFacts
  <2>4. \A g \in Handlers : hpc'[g] = "V" =>
          /\ transferred'[request_served'[hdisk'[g]]]
          /\ return_value'[request_served'[hdisk'[g]]] = 0
    BY <1>0, <1>5, <2>2 DEF DoneFacts
  <2> QED
    BY <2>3, <2>4 DEF DoneFacts
<1>11. WakeFacts'
  <2> SUFFICES ASSUME NEW g \in Handlers, op[g] = "V_wake"
               PROVE  /\ InQueue(request_served[hdisk[g]])'
                      /\ rsem[request_served[hdisk[g]]] = sem[g]
                      /\ disk[request_served[hdisk[g]]] = hdisk[g]
                      /\ hdisk'[g] = hdisk[g]
    BY <1>1 DEF WakeFacts, WakeFact
  <2>1. hdisk'[g] = hdisk[g]
    BY <1>0, <1>2 DEF HandlerFacts
  <2>2. PICK u \in Threads : u = request_served[hdisk[g]]
    BY <1>0, ServedThread DEF HandlerFacts
  <2>3. InQueue(u)'
    BY <1>0, <1>4, <2>2 DEF WakeFacts, WakeFact
  <2> QED
    BY <1>0, <1>1, <2>1, <2>2, <2>3 DEF WakeFacts, WakeFact
<1> QED
  BY <1>3, <1>4, <1>6, <1>7, <1>9, <1>10, <1>11 DEF DiskInv

(* The handler finds the interrupt, or that another one has served it.     *)
LEMMA HandlerLockInv ==
  ASSUME DiskInv, NEW h \in Handlers, HandlerLock(h)
  PROVE  DiskInv'
<1>0. /\ DiskTypes /\ ThreadFacts /\ QueueFacts /\ HandlerFacts /\ DeviceFacts
      /\ PendingFacts /\ DoneFacts /\ WakeFacts /\ hpc[h] = "lock" /\ h \in Actors
  BY Basics DEF DiskInv, HandlerLock
<1>1. PICK d \in Disks : d = hdisk[h] /\ dlock[d] = none
  BY <1>0 DEF DiskTypes, HandlerLock
<1>2. UNCHANGED <<creator, value, slock, waiters, op, sem, request_queue, request_served,
                  busy, pc, disk, rsem, hdisk, transferred>>
  BY DEF HandlerLock, vars, semaphore_table
<1>3. /\ ThreadFacts' /\ QueueFacts'
      /\ \A t \in Threads : (InQueue(t)' <=> InQueue(t)) /\ (Blocked(t)' <=> Blocked(t))
  BY <1>2, ThreadsFrame
<1>4. hpc' \in [Handlers -> {"none", "lock", "V", "next"}] /\ hpc'[h] \in {"none", "V"}
      /\ \A g \in Handlers : g # h => hpc'[g] = hpc[g]
  <2>1. hpc' = [hpc EXCEPT ![h] = "V"] \/ hpc' = [hpc EXCEPT ![h] = "none"]
    BY DEF HandlerLock
  <2> QED
    BY <1>0, <2>1 DEF DiskTypes
<1>5. \A e \in Disks : Pending(e)' = Pending(e)
  <2> SUFFICES ASSUME NEW e \in Disks PROVE Pending(e)' = Pending(e)
    OBVIOUS
  <2>1. Unsignalled(e)' <=> Unsignalled(e)
    BY <1>0, <1>2, <1>4 DEF Unsignalled
  <2>2. Elements(request_queue'[e]) = Elements(request_queue[e])
    BY <1>2
  <2> QED
    BY <1>2, <2>1, <2>2 DEF Pending, Unsignalled, Elements
<1>6. PendingFacts'
  BY <1>0, <1>2, <1>3, <1>5 DEF PendingFacts
<1>7. WakeFacts'
  <2>1. \A g \in Handlers : op'[g] = "V_wake" => WakeFact(g)'
    BY <1>2, <1>3, WakeFrame
  <2> QED
    BY <2>1 DEF WakeFacts, WakeFact
<1>8. \A g \in Handlers : op'[g] \in {"out", "V_wake", "V_release"}
        /\ (op'[g] # "out" => hpc'[g] = "next" /\ sem'[g] \in Semaphores)
  BY <1>0, <1>2, <1>4 DEF HandlerFacts
<1>9. CASE irq[d]
  <2>1. PICK v \in Threads : v = request_served[d] /\ v \in Pending(d)
    BY <1>9, Served
  <2>2. /\ dlock' = [dlock EXCEPT ![d] = h] /\ irq' = [irq EXCEPT ![d] = FALSE]
        /\ return_value' = [return_value EXCEPT ![v] = 0] /\ hpc' = [hpc EXCEPT ![h] = "V"]
    BY <1>1, <1>9, <2>1 DEF HandlerLock
  <2>3. DiskTypes'
    <3>1. return_value' \in [Threads -> {-1, 0}]
      BY <1>0, <2>2 DEF DiskTypes
    <3>2. dlock' \in [Disks -> Handlers \cup {none}] /\ irq' \in [Disks -> BOOLEAN]
      BY <1>0, <2>2 DEF DiskTypes
    <3> QED
      BY <1>0, <1>2, <1>4, <3>1, <3>2 DEF DiskTypes
  <2>4. HandlerFacts'
    <3> SUFFICES ASSUME NEW g \in Handlers, hpc'[g] \in {"V", "next"}
                 PROVE  dlock'[hdisk[g]] = g /\ request_served[hdisk[g]] # none
      BY <1>2, <1>8 DEF HandlerFacts
    <3>1. CASE g = h
      BY <1>0, <1>1, <2>1, <2>2, <3>1, Basics DEF DiskTypes
    <3>2. CASE g # h
      <4>1. dlock[hdisk[g]] = g /\ request_served[hdisk[g]] # none
        BY <1>0, <1>4, <3>2 DEF HandlerFacts
      <4>2. hdisk[g] # d
        BY <1>1, <4>1, Basics
      <4> QED
        BY <1>0, <2>2, <4>1, <4>2, ServedThread DEF DiskTypes
    <3> QED
      BY <3>1, <3>2
  <2>5. DeviceFacts'
    <3>1. ASSUME NEW e \in Disks
          PROVE  /\ dlock'[e] # none => hpc'[dlock'[e]] \in {"V", "next"} /\ hdisk[dlock'[e]] = e
                 /\ busy[e] \/ irq'[e] => request_served[e] # none /\ dlock'[e] = none
                 /\ irq'[e] => irq[e]
      <4>1. CASE e = d
        <5>1. dlock'[e] = h /\ irq'[e] = FALSE /\ hpc'[h] = "V"
          BY <1>0, <2>2, <4>1 DEF DiskTypes
        <5>2. ~busy[e]
          BY <1>0, <1>9, <4>1 DEF DeviceFacts
        <5> QED
          BY <1>1, <4>1, <5>1, <5>2
      <4>2. CASE e # d
        <5>1. dlock'[e] = dlock[e] /\ irq'[e] = irq[e]
          BY <1>0, <2>2, <4>2 DEF DiskTypes
        <5>2. ASSUME dlock[e] # none
              PROVE  hpc'[dlock[e]] \in {"V", "next"} /\ hdisk[dlock[e]] = e
          <6>1. PICK g \in Handlers : g = dlock[e] /\ hpc[g] \in {"V", "next"} /\ hdisk[g] = e
            BY <5>2, LockHolder
          <6>2. hpc'[g] = hpc[g]
            BY <1>0, <1>4, <6>1
          <6> QED
            BY <6>1, <6>2
        <5> QED
          BY <1>0, <5>1, <5>2 DEF DeviceFacts
      <4> QED
        BY <4>1, <4>2
    <3> QED
      BY <1>0, <1>2, <3>1 DEF DeviceFacts
  <2>6. DoneFacts'
    <3>1. \A t \in Threads : return_value[t] = 0 => return_value'[t] = 0
      BY <1>0, <2>2 DEF DiskTypes
    <3>2. \A t \in Threads : disk[t] \in Disks /\ (Done(t) => Done(t)')
      BY <1>0, <1>2, <3>1 DEF Done, DiskTypes
    <3>3. ASSUME NEW g \in Handlers, hpc'[g] = "V"
          PROVE  /\ transferred[request_served[hdisk[g]]]
                 /\ return_value'[request_served[hdisk[g]]] = 0
      <4>1. CASE g = h
        <5>1. transferred[v]
          BY <1>0, <1>9, <2>1 DEF DeviceFacts
        <5>2. return_value'[v] = 0
          BY <1>0, <2>2 DEF DiskTypes
        <5> QED
          BY <1>1, <2>1, <4>1, <5>1, <5>2
      <4>2. CASE g # h
        <5>1. hpc[g] = "V"
          BY <1>4, <3>3, <4>2
        <5>2. request_served[hdisk[g]] \in Threads
          BY <1>0, <5>1, ServedThread DEF HandlerFacts
        <5> QED
          BY <1>0, <3>1, <5>1, <5>2 DEF DoneFacts
      <4> QED
        BY <4>1, <4>2
    <3> QED
      BY <1>0, <1>2, <1>5, <3>2, <3>3 DEF DoneFacts
  <2> QED
    BY <1>3, <1>6, <1>7, <2>3, <2>4, <2>5, <2>6 DEF DiskInv
<1>10. CASE ~irq[d]
  <2>1. UNCHANGED <<dlock, irq, return_value>> /\ hpc' = [hpc EXCEPT ![h] = "none"]
    BY <1>1, <1>10 DEF HandlerLock
  <2>2. hpc'[h] = "none"
    BY <1>0, <2>1 DEF DiskTypes
  <2>3. DiskTypes'
    BY <1>0, <1>2, <1>4, <2>1 DEF DiskTypes
  <2>4. HandlerFacts'
    BY <1>0, <1>2, <1>4, <1>8, <2>1, <2>2 DEF HandlerFacts
  <2>5. DeviceFacts'
    <3>1. ASSUME NEW e \in Disks, dlock[e] # none
          PROVE  hpc'[dlock[e]] \in {"V", "next"} /\ hdisk[dlock[e]] = e
      <4>1. PICK g \in Handlers : g = dlock[e] /\ hpc[g] \in {"V", "next"} /\ hdisk[g] = e
        BY <3>1, LockHolder
      <4>2. hpc'[g] = hpc[g]
        BY <1>0, <1>4, <4>1
      <4> QED
        BY <4>1, <4>2
    <3> QED
      BY <1>0, <1>2, <2>1, <3>1 DEF DeviceFacts
  <2>6. DoneFacts'
    <3>1. \A t \in Threads : disk[t] \in Disks /\ (Done(t) => Done(t)')
      BY <1>0, <1>2, <2>1 DEF Done, DiskTypes
    <3>2. \A g \in Handlers : hpc'[g] = "V" => hpc[g] = "V"
      BY <1>4, <2>2
    <3> QED
      BY <1>0, <1>2, <1>5, <2>1, <3>1, <3>2 DEF DoneFacts
  <2> QED
    BY <1>3, <1>6, <1>7, <2>3, <2>4, <2>5, <2>6 DEF DiskInv
<1> QED
  BY <1>9, <1>10

(* What the handler h of disk d does to the semaphore s of the thread v,   *)
(* whose request it has served.                                            *)
Raises(h, d, v, s) ==
  /\ d = hdisk[h] /\ v = request_served[d] /\ v \in Pending(d)
  /\ disk[v] = d /\ Blocked(v) /\ v \notin Elements(request_queue[d])
  /\ s = rsem[v] /\ creator[s] = v /\ slock[s] = "nobody"
  /\ hpc' = [hpc EXCEPT ![h] = "next"]
  /\ UNCHANGED <<creator, waiters, request_queue, request_served, dlock, busy, irq, pc, disk,
                 rsem, return_value, hdisk, transferred>>
  /\ \/ /\ pc[v] = "wait" /\ value' = [value EXCEPT ![s] = 1] /\ UNCHANGED <<slock, op, sem>>
     \/ /\ InQueue(v) /\ value' = [value EXCEPT ![s] = 0] /\ slock' = [slock EXCEPT ![s] = h]
        /\ op' = [op EXCEPT ![h] = "V_wake"] /\ sem' = [sem EXCEPT ![h] = s]

(* The handler finds such a thread, and raises its semaphore.              *)
LEMMA HandlerVEffect ==
  ASSUME DiskInv, NEW h \in Handlers, HandlerV(h)
  PROVE  \E d \in Disks, v \in Threads, s \in Semaphores : Raises(h, d, v, s)
<1>0. /\ DiskTypes /\ ThreadFacts /\ HandlerFacts /\ DeviceFacts /\ PendingFacts
      /\ hpc[h] = "V" /\ h \in Actors
  BY Basics DEF DiskInv, HandlerV
<1>1. PICK d \in Disks : d = hdisk[h]
  BY <1>0, ServedThread
<1>2. PICK v \in Threads : v = request_served[d] /\ v \in Pending(d)
  BY <1>0, <1>1, Served
<1>3. disk[v] = d /\ Blocked(v) /\ v \notin Elements(request_queue[d])
  BY <1>0, <1>2 DEF PendingFacts, DeviceFacts
<1>4. PICK s \in Semaphores : s = rsem[v] /\ creator[s] = v
  <2>1. pc[v] \in {"wait", "waiting"}
    BY <1>3 DEF Blocked, InQueue
  <2> QED
    BY <1>0, <2>1 DEF ThreadFacts, ThreadFact
<1>5. /\ hpc' = [hpc EXCEPT ![h] = "next"]
      /\ UNCHANGED <<creator, waiters, request_queue, request_served, dlock, busy, irq, pc, disk,
                     rsem, return_value, hdisk, transferred>>
      /\ \/ /\ pc[v] = "wait" /\ value' = [value EXCEPT ![s] = 1] /\ UNCHANGED <<slock, op, sem>>
         \/ /\ InQueue(v) /\ value' = [value EXCEPT ![s] = 0] /\ slock' = [slock EXCEPT ![s] = h]
            /\ op' = [op EXCEPT ![h] = "V_wake"] /\ sem' = [sem EXCEPT ![h] = s]
  <2>1. \/ pc[v] = "wait" /\ value[s] = 0
        \/ InQueue(v) /\ value[s] = -1
    BY <1>3, <1>4 DEF Blocked
  <2>2. value[s] = 0 => value[s] + 1 = 1 /\ ~(value[s] + 1 <= 0)
    BY SMTT(30)
  <2>3. value[s] = -1 => value[s] + 1 = 0 /\ value[s] + 1 <= 0
    BY SMTT(30)
  <2>4. semaphore_V(h, s)
    BY <1>1, <1>2, <1>4 DEF HandlerV
  <2>5. \/ /\ pc[v] = "wait" /\ value' = [value EXCEPT ![s] = 1] /\ UNCHANGED <<slock, op, sem>>
        \/ /\ InQueue(v) /\ value' = [value EXCEPT ![s] = 0] /\ slock' = [slock EXCEPT ![s] = h]
           /\ op' = [op EXCEPT ![h] = "V_wake"] /\ sem' = [sem EXCEPT ![h] = s]
    BY <2>1, <2>2, <2>3, <2>4 DEF semaphore_V
  <2> QED
    BY <2>4, <2>5 DEF HandlerV, semaphore_V, device, submit
<1>6. slock[s] = "nobody"
  BY <1>1, <1>2, <1>4 DEF HandlerV, semaphore_V
<1>7. Raises(h, d, v, s)
  BY <1>1, <1>2, <1>3, <1>4, <1>5, <1>6 DEF Raises
<1> QED
  BY <1>7

(* semaphore_V in the handler: the thread of the request is asleep, or     *)
(* will pass semaphore_P.                                                  *)
LEMMA HandlerVInv ==
  ASSUME DiskInv, NEW h \in Handlers, HandlerV(h)
  PROVE  /\ DiskInv'
         /\ \A e \in Disks : \A u \in Pending(e) :
              u \in Pending(e)' \/ u = request_served[hdisk[h]]
<1>0. /\ DiskTypes /\ ThreadFacts /\ QueueFacts /\ HandlerFacts /\ DeviceFacts
      /\ PendingFacts /\ DoneFacts /\ WakeFacts /\ hpc[h] = "V" /\ h \in Actors
  BY Basics DEF DiskInv, HandlerV
<1>1. PICK d \in Disks, v \in Threads, s \in Semaphores : Raises(h, d, v, s)
  BY HandlerVEffect
<1>2. d = hdisk[h] /\ v = request_served[d] /\ v \in Pending(d)
  BY <1>1 DEF Raises
<1>3. disk[v] = d /\ Blocked(v) /\ v \notin Elements(request_queue[d])
  BY <1>1 DEF Raises
<1>4. s = rsem[v] /\ creator[s] = v
  BY <1>1 DEF Raises
<1>5. /\ hpc' = [hpc EXCEPT ![h] = "next"]
      /\ UNCHANGED <<creator, waiters, request_queue, request_served, dlock, busy, irq, pc, disk,
                     rsem, return_value, hdisk, transferred>>
      /\ \/ /\ pc[v] = "wait" /\ value' = [value EXCEPT ![s] = 1] /\ UNCHANGED <<slock, op, sem>>
         \/ /\ InQueue(v) /\ value' = [value EXCEPT ![s] = 0] /\ slock' = [slock EXCEPT ![s] = h]
            /\ op' = [op EXCEPT ![h] = "V_wake"] /\ sem' = [sem EXCEPT ![h] = s]
  BY <1>1 DEF Raises
<1>6. /\ hpc'[h] = "next" /\ \A g \in Handlers : g # h => hpc'[g] = hpc[g]
      /\ \A a \in Actors : a # h => op'[a] = op[a] /\ sem'[a] = sem[a]
      /\ \A t \in Threads : op'[t] = op[t] /\ sem'[t] = sem[t]
      /\ \A r \in Semaphores : r # s => value'[r] = value[r]
  <2>1. hpc'[h] = "next" /\ \A g \in Handlers : g # h => hpc'[g] = hpc[g]
    BY <1>0, <1>5 DEF DiskTypes
  <2>2. \A a \in Actors : a # h => op'[a] = op[a] /\ sem'[a] = sem[a]
    BY <1>0, <1>5 DEF DiskTypes
  <2>3. \A r \in Semaphores : r # s => value'[r] = value[r]
    BY <1>0, <1>5 DEF DiskTypes
  <2>4. \A t \in Threads : t \in Actors /\ t # h
    BY Basics
  <2> QED
    BY <2>1, <2>2, <2>3, <2>4
<1>7. \/ pc[v] = "wait" /\ value'[s] = 1 /\ op'[h] = op[h] /\ sem'[h] = sem[h]
      \/ InQueue(v) /\ op'[h] = "V_wake" /\ sem'[h] = s
  BY <1>0, <1>5 DEF DiskTypes
<1>8. DiskTypes'
  <2>1. value' \in [Semaphores -> Int]
    BY <1>0, <1>5, SMTT(30) DEF DiskTypes
  <2>2. /\ op' \in [Actors -> Ops] /\ sem' \in [Actors -> Semaphores \cup {NONE}]
        /\ slock' \in [Semaphores -> Actors \cup {"nobody"}]
    <3>1. CASE /\ slock' = [slock EXCEPT ![s] = h]
               /\ op' = [op EXCEPT ![h] = "V_wake"] /\ sem' = [sem EXCEPT ![h] = s]
      BY <1>0, <3>1 DEF DiskTypes, Ops
    <3>2. CASE UNCHANGED <<slock, op, sem>>
      BY <1>0, <3>2 DEF DiskTypes
    <3> QED
      BY <1>5, <3>1, <3>2
  <2>3. hpc' \in [Handlers -> {"none", "lock", "V", "next"}]
    BY <1>0, <1>5 DEF DiskTypes
  <2> QED
    BY <1>0, <1>5, <2>1, <2>2, <2>3 DEF DiskTypes
<1>9. ASSUME NEW u \in Threads, u # v, pc[u] \in {"enqueue", "wait", "waiting"}
      PROVE  value'[rsem[u]] = value[rsem[u]]
  <2>1. rsem[u] \in Semaphores /\ creator[rsem[u]] = u
    BY <1>0, <1>9 DEF ThreadFacts, ThreadFact
  <2> QED
    BY <1>4, <1>6, <1>9, <2>1
<1>10. \A t \in Threads : InQueue(t)' <=> InQueue(t)
  BY <1>5, <1>6 DEF InQueue
<1>11. ThreadFacts'
  <2> SUFFICES ASSUME NEW u \in Threads PROVE ThreadFact(u)'
    BY DEF ThreadFacts
  <2>1. ThreadFact(u)
    BY <1>0 DEF ThreadFacts
  <2>2. pc[u] = "enqueue" => value'[rsem[u]] = value[rsem[u]]
    <3>1. pc[v] # "enqueue"
      BY <1>3 DEF Blocked, InQueue
    <3> QED
      BY <1>9, <3>1
  <2> QED
    BY <1>5, <1>6, <2>1, <2>2 DEF ThreadFact
<1>12. QueueFacts'
  <2>1. UNCHANGED <<waiters, pc, rsem>>
    BY <1>5
  <2>2. \A t \in Threads : op'[t] = op[t]
    BY <1>6
  <2> QED
    BY <1>0, <2>1, <2>2 DEF QueueFacts, QueueFact
<1>13. Pending(d)' = Elements(request_queue[d])
  <2>1. ~Unsignalled(d)'
    BY <1>2, <1>5, <1>6 DEF Unsignalled
  <2> QED
    BY <1>5, <2>1 DEF Pending, Unsignalled, Elements
<1>14. ASSUME NEW e \in Disks, e # d
       PROVE  Pending(e)' = Pending(e)
  <2>1. Unsignalled(e)' <=> Unsignalled(e)
    BY <1>0, <1>2, <1>5, <1>6, <1>14 DEF Unsignalled
  <2>2. Elements(request_queue'[e]) = Elements(request_queue[e])
    BY <1>5
  <2> QED
    BY <1>5, <2>1, <2>2 DEF Pending, Unsignalled, Elements
<1>15. \A t \in Pending(d)' : t \in Pending(d) /\ t # v
  BY <1>3, <1>13, PendingIs
<1>16. \A t \in Pending(d) : t # v => t \in Pending(d)'
  BY <1>2, <1>13, PendingIs
<1>17. PendingFacts'
  <2> SUFFICES ASSUME NEW e \in Disks, NEW t \in Pending(e)'
               PROVE  t \in Threads /\ disk[t] = e /\ Blocked(t)'
    BY <1>5 DEF PendingFacts
  <2>1. t \in Pending(e)
    BY <1>14, <1>15
  <2>2. t \in Threads /\ disk[t] = e /\ Blocked(t)
    BY <1>0, <2>1 DEF PendingFacts
  <2>3. t # v
    BY <1>3, <1>15, <2>2
  <2>4. pc[t] \in {"wait", "waiting"}
    BY <2>2 DEF Blocked, InQueue
  <2>5. value'[rsem[t]] = value[rsem[t]]
    BY <1>9, <2>2, <2>3, <2>4
  <2> QED
    BY <1>5, <1>10, <2>2, <2>5 DEF Blocked
<1>18. HandlerFacts'
  <2>1. \A g \in Handlers : g # h => op'[g] = op[g] /\ sem'[g] = sem[g] /\ hpc'[g] = hpc[g]
    BY <1>6, Basics
  <2>2. op[h] = "out"
    BY <1>0 DEF HandlerFacts
  <2>3. UNCHANGED <<dlock, hdisk, request_served>>
    BY <1>5
  <2>4. dlock[hdisk[h]] = h /\ request_served[hdisk[h]] # none
    BY <1>0 DEF HandlerFacts
  <2>5. op'[h] \in {"out", "V_wake"} /\ (op'[h] # "out" => sem'[h] \in Semaphores)
    BY <1>7, <2>2
  <2>6. hpc'[h] = "next"
    BY <1>6
  <2> QED
    BY <1>0, <2>1, <2>3, <2>4, <2>5, <2>6 DEF HandlerFacts
<1>19. DeviceFacts'
  <2>1. ASSUME NEW e \in Disks, dlock[e] # none
        PROVE  hpc'[dlock[e]] \in {"V", "next"} /\ hdisk[dlock[e]] = e
    <3>1. PICK g \in Handlers : g = dlock[e] /\ hpc[g] \in {"V", "next"} /\ hdisk[g] = e
      BY <2>1, LockHolder
    <3>2. hpc'[g] \in {"V", "next"}
      BY <1>6, <3>1
    <3> QED
      BY <3>1, <3>2
  <2> QED
    BY <1>0, <1>5, <2>1 DEF DeviceFacts
<1>20. DoneFacts'
  <2>1. ASSUME NEW u \in Threads, pc[u] \in {"wait", "waiting"}, u \notin Pending(disk[u])'
        PROVE  Done(u)'
    <3>1. CASE u = v
      <4>1. transferred[v] /\ return_value[v] = 0
        BY <1>0, <1>2 DEF DoneFacts
      <4>2. pc[v] = "wait" => value'[s] = 1
        BY <1>7 DEF InQueue
      <4> QED
        BY <1>4, <1>5, <3>1, <4>1, <4>2 DEF Done
    <3>2. CASE u # v
      <4>1. disk[u] \in Disks
        BY <1>0 DEF DiskTypes
      <4>2. u \notin Pending(disk[u])
        BY <1>5, <1>14, <1>16, <2>1, <3>2, <4>1
      <4>3. Done(u)
        BY <1>0, <2>1, <4>2 DEF DoneFacts
      <4>4. value'[rsem[u]] = value[rsem[u]]
        BY <1>9, <2>1, <3>2
      <4> QED
        BY <1>5, <4>3, <4>4 DEF Done
    <3> QED
      BY <3>1, <3>2
  <2>2. \A g \in Handlers : hpc'[g] = "V" => hpc[g] = "V"
    BY <1>6
  <2> QED
    BY <1>0, <1>5, <2>1, <2>2 DEF DoneFacts
<1>21. WakeFacts'
  <2>1. ASSUME NEW g \in Handlers, op'[g] = "V_wake", g # h
        PROVE  WakeFact(g)'
    <3>1. op[g] = "V_wake" /\ sem'[g] = sem[g]
      BY <1>6, <2>1, Basics
    <3> QED
      BY <1>5, <1>10, <3>1, WakeFrame
  <2>2. ASSUME op'[h] = "V_wake"
        PROVE  WakeFact(h)'
    <3>1. InQueue(v) /\ sem'[h] = s
      BY <1>0, <1>7, <2>2 DEF HandlerFacts
    <3>2. InQueue(v)'
      BY <1>10, <3>1
    <3> QED
      BY <1>2, <1>3, <1>4, <1>5, <3>1, <3>2 DEF WakeFact
  <2> QED
    BY <2>1, <2>2 DEF WakeFacts, WakeFact
<1>22. \A e \in Disks : \A u \in Pending(e) : u \in Pending(e)' \/ u = request_served[hdisk[h]]
  BY <1>2, <1>14, <1>16
<1> QED
  BY <1>8, <1>11, <1>12, <1>17, <1>18, <1>19, <1>20, <1>21, <1>22 DEF DiskInv

(* What the handler h of disk d does to the sleep queue of the semaphore s *)
(* of the thread v, whose request it has served.                           *)
Wakens(h, d, v, s) ==
  /\ d = hdisk[h] /\ v = request_served[d]
  /\ InQueue(v) /\ rsem[v] = sem[h] /\ disk[v] = d /\ v \notin Elements(request_queue[d])
  /\ s = rsem[v] /\ creator[s] = v
  /\ op' = [op EXCEPT ![h] = "V_release"] /\ waiters' = [waiters EXCEPT ![s] = <<>>]
  /\ UNCHANGED <<creator, value, slock, sem, request_queue, request_served, dlock, busy, irq,
                 pc, disk, rsem, return_value, hpc, hdisk, transferred>>

(* The handler empties the sleep queue of the semaphore it has raised.     *)
LEMMA SleepqWakeEffect ==
  ASSUME DiskInv, NEW h \in Handlers, SleepqWake(h), UNCHANGED diskVars
  PROVE  \E d \in Disks, v \in Threads, s \in Semaphores : Wakens(h, d, v, s)
<1>0. /\ DiskTypes /\ ThreadFacts /\ QueueFacts /\ HandlerFacts /\ DeviceFacts /\ WakeFacts
      /\ op[h] = "V_wake" /\ hpc[h] = "next" /\ h \in Actors
  BY Basics DEF DiskInv, SleepqWake, HandlerFacts
<1>1. PICK d \in Disks : d = hdisk[h]
  BY <1>0, ServedThread
<1>2. PICK v \in Threads : v = request_served[d]
  BY <1>0, <1>1, ServedThread DEF HandlerFacts
<1>3. InQueue(v) /\ rsem[v] = sem[h] /\ disk[v] = d /\ v \notin Elements(request_queue[d])
  BY <1>0, <1>1, <1>2 DEF WakeFacts, WakeFact, DeviceFacts
<1>4. PICK s \in Semaphores : s = rsem[v] /\ creator[s] = v /\ s = sem[h]
  <2>1. pc[v] = "waiting"
    BY <1>3 DEF InQueue
  <2> QED
    BY <1>0, <1>3, <2>1 DEF ThreadFacts, ThreadFact
<1>5. /\ op' = [op EXCEPT ![h] = "V_release"]
      /\ UNCHANGED <<creator, value, slock, sem, request_queue, request_served, dlock, busy, irq,
                     pc, disk, rsem, return_value, hpc, hdisk, transferred>>
  BY DEF SleepqWake, semaphore_table, diskVars, device, submit, handling
<1>6. waiters' = [waiters EXCEPT ![s] = <<>>]
  <2>1. CASE waiters[s] = <<>>
    <3>1. ~(Len(waiters[s]) > 0)
      BY <2>1, SMTT(30)
    <3>2. waiters' = waiters
      BY <1>4, <3>1 DEF SleepqWake
    <3> QED
      BY <1>0, <2>1, <3>2 DEF DiskTypes
  <2>2. CASE waiters[s] # <<>>
    <3>1. PICK u \in Threads : waiters[s] = <<u>>
      BY <1>0, <2>2 DEF QueueFacts, QueueFact
    <3>2. Len(waiters[s]) > 0 /\ Tail(waiters[s]) = <<>>
      BY <3>1, SMTT(30)
    <3> QED
      BY <1>4, <3>2 DEF SleepqWake
  <2> QED
    BY <2>1, <2>2
<1> QED
  BY <1>1, <1>2, <1>3, <1>4, <1>5, <1>6 DEF Wakens

(* The wake finds the thread of the request, or nobody. *)
LEMMA SleepqWakeInv ==
  ASSUME DiskInv, NEW h \in Handlers, SleepqWake(h), UNCHANGED diskVars
  PROVE  DiskInv'
<1>0. /\ DiskTypes /\ ThreadFacts /\ QueueFacts /\ HandlerFacts /\ DeviceFacts
      /\ PendingFacts /\ DoneFacts /\ WakeFacts /\ op[h] = "V_wake" /\ hpc[h] = "next"
      /\ h \in Actors
  BY Basics DEF DiskInv, SleepqWake, HandlerFacts
<1>1. PICK d \in Disks, v \in Threads, s \in Semaphores : Wakens(h, d, v, s)
  BY SleepqWakeEffect
<1>2. d = hdisk[h] /\ v = request_served[d]
  BY <1>1 DEF Wakens
<1>3. InQueue(v) /\ rsem[v] = sem[h] /\ disk[v] = d /\ v \notin Elements(request_queue[d])
  BY <1>1 DEF Wakens
<1>4. s = rsem[v] /\ creator[s] = v /\ s = sem[h]
  BY <1>1 DEF Wakens
<1>5. /\ op' = [op EXCEPT ![h] = "V_release"]
      /\ UNCHANGED <<creator, value, slock, sem, request_queue, request_served, dlock, busy, irq,
                     pc, disk, rsem, return_value, hpc, hdisk, transferred>>
  BY <1>1 DEF Wakens
<1>6. waiters' = [waiters EXCEPT ![s] = <<>>]
  BY <1>1 DEF Wakens
<1>7. /\ op'[h] = "V_release" /\ waiters'[s] = <<>>
      /\ \A a \in Actors : a # h => op'[a] = op[a]
      /\ \A t \in Threads : op'[t] = op[t]
      /\ \A r \in Semaphores : r # s => waiters'[r] = waiters[r]
  <2>1. \A t \in Threads : t \in Actors /\ t # h
    BY Basics
  <2>2. \A a \in Actors : a # h => op'[a] = op[a]
    BY <1>0, <1>5 DEF DiskTypes
  <2> QED
    BY <1>0, <1>5, <1>6, <2>1, <2>2 DEF DiskTypes
<1>8. DiskTypes'
  <2>1. waiters' \in [Semaphores -> Seq(Threads)]
    <3>1. <<>> \in Seq(Threads)
      BY SMTT(30)
    <3> QED
      BY <1>0, <1>6, <3>1 DEF DiskTypes
  <2>2. op' \in [Actors -> Ops]
    BY <1>0, <1>5 DEF DiskTypes, Ops
  <2> QED
    BY <1>0, <1>5, <2>1, <2>2 DEF DiskTypes
<1>9. ThreadFacts'
  <2> SUFFICES ASSUME NEW u \in Threads PROVE ThreadFact(u)'
    BY DEF ThreadFacts
  <2>1. ThreadFact(u) /\ op'[u] = op[u]
    BY <1>0, <1>7 DEF ThreadFacts
  <2> QED
    BY <1>5, <2>1 DEF ThreadFact
<1>10. QueueFacts'
  <2> SUFFICES ASSUME NEW r \in Semaphores PROVE QueueFact(r)'
    BY DEF QueueFacts
  <2>1. CASE r = s
    BY <1>7, <2>1 DEF QueueFact
  <2>2. CASE r # s
    <3>1. QueueFact(r) /\ waiters'[r] = waiters[r]
      BY <1>0, <1>7, <2>2 DEF QueueFacts
    <3> QED
      BY <1>5, <1>7, <3>1 DEF QueueFact
  <2> QED
    BY <2>1, <2>2
<1>11. ASSUME NEW u \in Threads, u # v
       PROVE  InQueue(u) => InQueue(u)'
  <2>1. pc[u] = "waiting" => rsem[u] \in Semaphores /\ creator[rsem[u]] = u
    BY <1>0 DEF ThreadFacts, ThreadFact
  <2>2. pc[u] = "waiting" => waiters'[rsem[u]] = waiters[rsem[u]]
    BY <1>4, <1>7, <1>11, <2>1
  <2> QED
    BY <1>5, <1>7, <2>2 DEF InQueue
<1>12. HandlerFacts'
  <2>1. \A g \in Handlers : g # h => op'[g] = op[g]
    BY <1>7, Basics
  <2> QED
    BY <1>0, <1>5, <1>7, <2>1 DEF HandlerFacts
<1>13. DeviceFacts'
  BY <1>0, <1>5 DEF DeviceFacts
<1>14. \A e : Pending(e)' = Pending(e)
  BY <1>5, SMTT(30) DEF Pending
<1>15. PendingFacts'
  <2> SUFFICES ASSUME NEW e \in Disks, NEW t \in Pending(e)
               PROVE  t \in Threads /\ disk[t] = e /\ Blocked(t)'
    BY <1>5, <1>14 DEF PendingFacts
  <2>1. t \in Threads /\ disk[t] = e /\ Blocked(t)
    BY <1>0 DEF PendingFacts
  <2>2. t # v
    <3>1. ~Unsignalled(d)
      BY <1>0, <1>2 DEF Unsignalled
    <3>2. v \notin Pending(d)
      BY <1>3, <3>1, PendingIs
    <3> QED
      BY <1>3, <2>1, <3>2
  <2>3. InQueue(t) => InQueue(t)'
    BY <1>11, <2>1, <2>2
  <2> QED
    BY <1>5, <2>1, <2>3 DEF Blocked
<1>16. DoneFacts'
  <2>1. \A t \in Threads : Done(t) => Done(t)'
    BY <1>5 DEF Done
  <2> QED
    BY <1>0, <1>5, <1>14, <2>1 DEF DoneFacts
<1>17. WakeFacts'
  <2>1. ASSUME NEW g \in Handlers, op'[g] = "V_wake"
        PROVE  WakeFact(g)'
    <3>1. g # h
      BY <1>7, <2>1
    <3>2. op[g] = "V_wake"
      BY <1>7, <2>1, <3>1, Basics
    <3>3. hpc[g] = "next"
      BY <1>0, <3>2 DEF HandlerFacts
    <3>4. v # request_served[hdisk[g]]
      <4> SUFFICES ASSUME v = request_served[hdisk[g]] PROVE FALSE
        OBVIOUS
      <4>1. hdisk[g] = d
        BY <1>0, <1>3, <3>2 DEF WakeFacts, WakeFact
      <4> QED
        BY <1>0, <1>2, <3>1, <3>3, <4>1, OneHandler
    <3> QED
      BY <1>5, <1>11, <3>2, <3>4, WakeFrame
  <2> QED
    BY <2>1 DEF WakeFacts, WakeFact
<1> QED
  BY <1>8, <1>9, <1>10, <1>12, <1>13, <1>15, <1>16, <1>17 DEF DiskInv

(* The handler releases the lock of the semaphore.                         *)
LEMMA ReleaseVInv ==
  ASSUME DiskInv, NEW h \in Handlers, ReleaseV(h), UNCHANGED diskVars
  PROVE  DiskInv'
<1>0. /\ DiskTypes /\ ThreadFacts /\ QueueFacts /\ HandlerFacts /\ DeviceFacts
      /\ PendingFacts /\ DoneFacts /\ WakeFacts /\ op[h] = "V_release" /\ sem[h] \in Semaphores
      /\ h \in Actors
  BY Basics DEF DiskInv, ReleaseV, HandlerFacts
<1>1. /\ op' = [op EXCEPT ![h] = "out"] /\ sem' = [sem EXCEPT ![h] = NONE]
      /\ slock' = [slock EXCEPT ![sem[h]] = "nobody"]
      /\ UNCHANGED <<creator, value, waiters, request_queue, request_served, dlock, busy, irq,
                     pc, disk, rsem, return_value, hpc, hdisk, transferred>>
  BY DEF ReleaseV, diskVars, device, submit, handling
<1>2. op'[h] = "out" /\ \A a \in Actors : a # h => op'[a] = op[a] /\ sem'[a] = sem[a]
  BY <1>0, <1>1 DEF DiskTypes
<1>3. \A t \in Threads : op'[t] = op[t] /\ sem'[t] = sem[t]
  BY <1>2, Basics
<1>4. DiskTypes'
  BY <1>0, <1>1 DEF DiskTypes, Ops
<1>5. /\ ThreadFacts' /\ QueueFacts'
      /\ \A t \in Threads : (InQueue(t)' <=> InQueue(t)) /\ (Blocked(t)' <=> Blocked(t))
  BY <1>1, <1>3, ThreadsFrame
<1>6. \A g \in Handlers : g # h => op'[g] = op[g] /\ sem'[g] = sem[g]
  BY <1>2, Basics
<1>7. HandlerFacts'
  BY <1>0, <1>1, <1>2, <1>6 DEF HandlerFacts
<1>8. DeviceFacts'
  BY <1>0, <1>1 DEF DeviceFacts
<1>9. \A e : Pending(e)' = Pending(e)
  BY <1>1, SMTT(30) DEF Pending
<1>10. PendingFacts'
  BY <1>0, <1>1, <1>5, <1>9 DEF PendingFacts
<1>11. DoneFacts'
  <2>1. \A t \in Threads : Done(t) => Done(t)'
    BY <1>1 DEF Done
  <2> QED
    BY <1>0, <1>1, <1>9, <2>1 DEF DoneFacts
<1>12. WakeFacts'
  <2>1. ASSUME NEW g \in Handlers, op'[g] = "V_wake"
        PROVE  WakeFact(g)'
    <3>1. op[g] = "V_wake" /\ sem'[g] = sem[g]
      BY <1>2, <1>6, <2>1
    <3> QED
      BY <1>1, <1>5, <3>1, WakeFrame
  <2> QED
    BY <2>1 DEF WakeFacts, WakeFact
<1> QED
  BY <1>4, <1>5, <1>7, <1>8, <1>10, <1>11, <1>12 DEF DiskInv

(* The queue of a disk. *)
LEMMA Appended ==
  ASSUME NEW q \in Seq(Threads), NEW t \in Threads
  PROVE  /\ Append(q, t) \in Seq(Threads) /\ Elements(Append(q, t)) = Elements(q) \cup {t}
         /\ t \notin Elements(q) /\ Distinct(q) => Distinct(Append(q, t))
<1>1. Append(q, t) \in Seq(Threads) /\ Len(Append(q, t)) = Len(q) + 1
  BY SMTT(30)
<1>2. \A i \in 1 .. Len(q) + 1 : Append(q, t)[i] = IF i \in 1 .. Len(q) THEN q[i] ELSE t
  BY SMTT(30)
<1>3. Len(q) \in Nat
  BY SMTT(30)
<1>4. Elements(Append(q, t)) = Elements(q) \cup {t}
  BY <1>1, <1>2, <1>3, SMTT(30) DEF Elements
<1>5. ASSUME t \notin Elements(q), Distinct(q)
      PROVE  Distinct(Append(q, t))
  BY <1>1, <1>2, <1>3, <1>5, SMTT(30) DEF Elements, Distinct
<1> QED
  BY <1>1, <1>4, <1>5

(* What disk_next_request leaves in the queue.                             *)
LEMMA Removed ==
  ASSUME NEW q \in Seq(Threads), Len(q) # 0, Distinct(q)
  PROVE  /\ q[1] \in Threads /\ Tail(q) \in Seq(Threads)
         /\ Elements(q) = Elements(Tail(q)) \cup {q[1]} /\ q[1] \notin Elements(Tail(q))
         /\ Distinct(Tail(q))
<1>1. q[1] \in Threads /\ Tail(q) \in Seq(Threads) /\ Len(Tail(q)) = Len(q) - 1 /\ Len(q) \in Nat
  BY SMTT(30)
<1>2. \A i \in 1 .. Len(q) - 1 : Tail(q)[i] = q[i + 1]
  BY SMTT(30)
<1>3. \A x : x \in Elements(Tail(q)) <=> \E i \in 2 .. Len(q) : x = q[i]
  <2>1. \A x : x \in Elements(Tail(q)) <=> \E i \in 1 .. Len(q) - 1 : x = q[i + 1]
    BY <1>1, <1>2, SMTT(30) DEF Elements
  <2>2. \A x : (\E i \in 1 .. Len(q) - 1 : x = q[i + 1]) <=> \E i \in 2 .. Len(q) : x = q[i]
    <3>1. \A i \in 1 .. Len(q) - 1 : i + 1 \in 2 .. Len(q)
      BY <1>1, SMTT(30)
    <3>2. \A i \in 2 .. Len(q) : i - 1 \in 1 .. Len(q) - 1 /\ (i - 1) + 1 = i
      BY <1>1, SMTT(30)
    <3> QED
      BY <3>1, <3>2, SMTT(30)
  <2> QED
    BY <2>1, <2>2
<1>4. Elements(q) = Elements(Tail(q)) \cup {q[1]}
  <2>1. \A x : x \in Elements(q) <=> \E i \in 1 .. Len(q) : x = q[i]
    BY DEF Elements
  <2>2. \A i : i \in 1 .. Len(q) <=> i = 1 \/ i \in 2 .. Len(q)
    BY <1>1, SMTT(30)
  <2> QED
    BY <1>3, <2>1, <2>2
<1>5. q[1] \notin Elements(Tail(q))
  <2>1. 1 \in 1 .. Len(q) /\ \A i \in 2 .. Len(q) : i \in 1 .. Len(q) /\ i # 1
    BY <1>1, SMTT(30)
  <2>2. \A i \in 2 .. Len(q) : q[i] # q[1]
    BY <2>1, SMTT(30) DEF Distinct
  <2> QED
    BY <1>3, <2>2
<1>6. Distinct(Tail(q))
  BY <1>1, <1>2, SMTT(30) DEF Distinct
<1> QED
  BY <1>1, <1>4, <1>5, <1>6

(* A request is put in the queue, or started if the disk is idle. *)
LEMMA EnqueueInv ==
  ASSUME DiskInv, NEW t \in Threads, Enqueue(t)
  PROVE  /\ DiskInv'
         /\ \A e \in Disks : \A u \in Pending(e) : u \in Pending(e)'
<1>0. /\ DiskTypes /\ ThreadFacts /\ QueueFacts /\ HandlerFacts /\ DeviceFacts
      /\ PendingFacts /\ DoneFacts /\ WakeFacts /\ pc[t] = "enqueue" /\ t \in Actors
  BY Basics DEF DiskInv, Enqueue
<1>1. PICK d \in Disks : d = disk[t] /\ dlock[d] = none
  BY <1>0 DEF DiskTypes, Enqueue
<1>2. PICK q \in Seq(Threads) : q = request_queue[d]
  BY <1>0 DEF DiskTypes
<1>3. \A e \in Disks : t \notin Pending(e)
  BY <1>0 DEF PendingFacts, Blocked, InQueue
<1>4. \A h \in Handlers : hpc[h] \in {"V", "next"} => hdisk[h] # d
  <2>1. \A h \in Handlers : hpc[h] \in {"V", "next"} => dlock[hdisk[h]] = h
    BY <1>0 DEF HandlerFacts
  <2>2. \A h \in Handlers : h # none
    BY Basics
  <2> QED
    BY <1>1, <2>1, <2>2
<1>5. /\ pc' = [pc EXCEPT ![t] = "wait"]
      /\ UNCHANGED <<creator, value, slock, waiters, op, sem, dlock, irq, disk, rsem,
                     return_value, hpc, hdisk, transferred>>
      /\ \/ /\ request_served[d] = none /\ q = <<>>
            /\ request_queue' = [request_queue EXCEPT ![d] = <<>>]
            /\ request_served' = [request_served EXCEPT ![d] = t]
            /\ busy' = [busy EXCEPT ![d] = TRUE]
         \/ /\ request_served[d] # none
            /\ request_queue' = [request_queue EXCEPT ![d] = Append(q, t)]
            /\ UNCHANGED <<request_served, busy>>
  <2>1. request_served[d] = none => q = <<>>
    BY <1>0, <1>2 DEF DeviceFacts
  <2>2. q = <<>> => /\ ~(Len(Append(q, t)) = 0) /\ Tail(Append(q, t)) = <<>>
                    /\ Append(q, t)[1] = t
    BY SMTT(30)
  <2>3. pc' = [pc EXCEPT ![t] = "wait"] /\
        UNCHANGED <<creator, value, slock, waiters, op, sem, dlock, irq, disk, rsem,
                    return_value, hpc, hdisk, transferred>>
    BY DEF Enqueue, vars, semaphore_table, handling
  <2>4. ASSUME request_served[d] = none
        PROVE  /\ request_queue' = [request_queue EXCEPT ![d] = <<>>]
               /\ request_served' = [request_served EXCEPT ![d] = t]
               /\ busy' = [busy EXCEPT ![d] = TRUE]
    <3>1. disk_next_request(d, Append(q, t))
      BY <1>1, <1>2, <2>4 DEF Enqueue
    <3> QED
      BY <2>1, <2>2, <2>4, <3>1 DEF disk_next_request
  <2>5. ASSUME request_served[d] # none
        PROVE  /\ request_queue' = [request_queue EXCEPT ![d] = Append(q, t)]
               /\ UNCHANGED <<request_served, busy>>
    BY <1>1, <1>2, <2>5 DEF Enqueue
  <2> QED
    BY <2>1, <2>3, <2>4, <2>5
<1>6. \A e \in Disks : e # d => /\ request_queue'[e] = request_queue[e]
                                /\ request_served'[e] = request_served[e] /\ busy'[e] = busy[e]
  BY <1>0, <1>5 DEF DiskTypes
<1>7. Pending(d) = Elements(q) \cup (IF request_served[d] # none THEN {request_served[d]} ELSE {})
  <2>1. Unsignalled(d) <=> request_served[d] # none
    BY <1>4 DEF Unsignalled
  <2> QED
    BY <1>2, <2>1, PendingIs
<1>8. /\ request_served' \in [Disks -> Threads \cup {none}] /\ busy' \in [Disks -> BOOLEAN]
      /\ request_queue' \in [Disks -> Seq(Threads)]
      /\ request_served'[d] \in Threads /\ request_served'[d] \notin Elements(request_queue'[d])
      /\ Elements(request_queue'[d]) \cup {request_served'[d]} = Pending(d) \cup {t}
      /\ Distinct(request_queue'[d])
      /\ ~ (busy'[d] /\ irq[d]) /\ (irq[d] => request_served'[d] = request_served[d])
  <2>1. CASE /\ request_served[d] = none /\ q = <<>>
             /\ request_queue' = [request_queue EXCEPT ![d] = <<>>]
             /\ request_served' = [request_served EXCEPT ![d] = t]
             /\ busy' = [busy EXCEPT ![d] = TRUE]
    <3>1. <<>> \in Seq(Threads) /\ Distinct(<<>>)
      BY SMTT(30) DEF Distinct
    <3>2. Elements(<<>>) = {}
      BY SMTT(30) DEF Elements
    <3>3. ~irq[d]
      BY <1>0, <2>1 DEF DeviceFacts
    <3>4. request_queue'[d] = <<>> /\ request_served'[d] = t
      BY <1>0, <2>1 DEF DiskTypes
    <3>5. /\ request_served' \in [Disks -> Threads \cup {none}] /\ busy' \in [Disks -> BOOLEAN]
          /\ request_queue' \in [Disks -> Seq(Threads)]
      BY <1>0, <2>1, <3>1 DEF DiskTypes
    <3>6. Pending(d) = {}
      BY <1>7, <2>1, <3>2
    <3> QED
      BY <3>1, <3>2, <3>3, <3>4, <3>5, <3>6
  <2>2. CASE /\ request_served[d] # none
             /\ request_queue' = [request_queue EXCEPT ![d] = Append(q, t)]
             /\ UNCHANGED <<request_served, busy>>
    <3>1. request_queue'[d] = Append(q, t)
      BY <1>0, <2>2 DEF DiskTypes
    <3>2. t \notin Elements(q) /\ t # request_served[d]
      BY <1>3, <1>7, <2>2
    <3>3. /\ request_served[d] \notin Elements(q) /\ ~ (busy[d] /\ irq[d])
          /\ Distinct(q)
      BY <1>0, <1>2 DEF DeviceFacts
    <3>4. /\ Append(q, t) \in Seq(Threads) /\ Elements(Append(q, t)) = Elements(q) \cup {t}
          /\ Distinct(Append(q, t))
      BY <3>2, <3>3, Appended
    <3>5. /\ request_served' \in [Disks -> Threads \cup {none}] /\ busy' \in [Disks -> BOOLEAN]
          /\ request_queue' \in [Disks -> Seq(Threads)]
      BY <1>0, <2>2, <3>4 DEF DiskTypes
    <3>6. request_served[d] \in Threads
      BY <1>0, <2>2 DEF DiskTypes
    <3>7. Elements(request_queue'[d]) \cup {request_served'[d]} = Pending(d) \cup {t}
      BY <1>7, <2>2, <3>1, <3>4
    <3> QED
      BY <2>2, <3>1, <3>2, <3>3, <3>4, <3>5, <3>6, <3>7
  <2> QED
    BY <1>5, <2>1, <2>2
<1>9. pc'[t] = "wait" /\ \A u \in Threads : u # t => pc'[u] = pc[u]
  BY <1>0, <1>5 DEF DiskTypes
<1>10. DiskTypes'
  <2>1. pc' \in [Threads -> {"idle", "create", "enqueue", "wait", "waiting"}]
    BY <1>0, <1>5 DEF DiskTypes
  <2>2. UNCHANGED <<creator, value, slock, waiters, op, sem, dlock, irq, disk, rsem,
                     return_value, hpc, hdisk, transferred>>
    BY <1>5
  <2> QED
    BY <1>0, <1>8, <2>1, <2>2 DEF DiskTypes
<1>11. ThreadFact(t) /\ ThreadFact(t)'
  <2>1. ThreadFact(t)
    BY <1>0 DEF ThreadFacts
  <2> QED
    BY <1>0, <1>5, <1>9, <2>1 DEF ThreadFact
<1>12. ThreadFacts'
  <2>1. UNCHANGED <<creator, value, op, sem, rsem>>
    BY <1>5
  <2>2. ASSUME NEW u \in Threads, u # t
        PROVE  ThreadFact(u)'
    BY <1>0, <1>9, <2>1, <2>2 DEF ThreadFacts, ThreadFact
  <2> QED
    BY <1>11, <2>2 DEF ThreadFacts
<1>13. \A u \in Threads : pc[u] = "waiting" => pc'[u] = "waiting"
  BY <1>0, <1>9
<1>14. QueueFacts'
  <2>1. UNCHANGED <<waiters, rsem, op>>
    BY <1>5
  <2> QED
    BY <1>0, <1>13, <2>1 DEF QueueFacts, QueueFact
<1>15. \A u \in Threads : InQueue(u) => InQueue(u)'
  <2>1. UNCHANGED <<waiters, rsem, op>>
    BY <1>5
  <2> QED
    BY <1>13, <2>1 DEF InQueue
<1>16. \A u \in Threads : u # t /\ Blocked(u) => Blocked(u)'
  <2>1. UNCHANGED <<value, rsem>>
    BY <1>5
  <2> QED
    BY <1>9, <1>15, <2>1 DEF Blocked
<1>17. HandlerFacts'
  <2>1. UNCHANGED <<op, hpc, sem, dlock, hdisk>>
    BY <1>5
  <2>2. \A h \in Handlers : hpc[h] \in {"V", "next"} =>
          request_served'[hdisk[h]] = request_served[hdisk[h]]
    BY <1>0, <1>4, <1>6, ServedThread
  <2> QED
    BY <1>0, <2>1, <2>2 DEF HandlerFacts
<1>18. DeviceFacts'
  <2>1. UNCHANGED <<dlock, irq, hpc, hdisk, transferred>>
    BY <1>5
  <2> SUFFICES ASSUME NEW e \in Disks
               PROVE  /\ busy'[e] \/ irq[e] => request_served'[e] # none /\ dlock[e] = none
                      /\ ~ (busy'[e] /\ irq[e])
                      /\ irq[e] => transferred[request_served'[e]]
                      /\ request_served'[e] = none => request_queue'[e] = <<>>
                      /\ request_served'[e] \notin Elements(request_queue'[e])
                      /\ Distinct(request_queue'[e])
    BY <1>0, <2>1 DEF DeviceFacts
  <2>2. CASE e = d
    <3>1. irq[e] => transferred[request_served'[e]]
      BY <1>0, <1>8, <2>2 DEF DeviceFacts
    <3> QED
      BY <1>1, <1>8, <2>2, <3>1, Basics
  <2>3. CASE e # d
    BY <1>0, <1>6, <2>3 DEF DeviceFacts
  <2> QED
    BY <2>2, <2>3
<1>19. Pending(d)' = Pending(d) \cup {t}
  <2>1. Unsignalled(d)'
    <3>1. UNCHANGED <<hpc, hdisk>>
      BY <1>5
    <3> QED
      BY <1>4, <1>8, <3>1, Basics DEF Unsignalled
  <2>2. Pending(d)' = Elements(request_queue'[d]) \cup {request_served'[d]}
    BY <2>1 DEF Pending, Unsignalled, Elements
  <2> QED
    BY <1>8, <2>2
<1>20. ASSUME NEW e \in Disks, e # d
       PROVE  Pending(e)' = Pending(e)
  <2>1. UNCHANGED <<hpc, hdisk>> /\ request_queue'[e] = request_queue[e]
        /\ request_served'[e] = request_served[e]
    BY <1>5, <1>6, <1>20
  <2>2. Unsignalled(e)' <=> Unsignalled(e)
    BY <2>1 DEF Unsignalled
  <2>3. Elements(request_queue'[e]) = Elements(request_queue[e])
    BY <2>1
  <2> QED
    BY <2>1, <2>2, <2>3 DEF Pending, Unsignalled, Elements
<1>21. PendingFacts'
  <2> SUFFICES ASSUME NEW e \in Disks, NEW u \in Pending(e)'
               PROVE  u \in Threads /\ disk[u] = e /\ Blocked(u)'
    BY <1>5 DEF PendingFacts
  <2>1. CASE u = t
    <3>1. e = d
      BY <1>3, <1>20, <2>1
    <3>2. pc'[t] = "wait" /\ value'[rsem'[t]] = 0
      BY <1>0, <1>5, <1>9, <1>11 DEF ThreadFact
    <3> QED
      BY <1>1, <2>1, <3>1, <3>2 DEF Blocked
  <2>2. CASE u # t
    <3>1. u \in Pending(e)
      BY <1>19, <1>20, <2>2
    <3> QED
      BY <1>0, <1>16, <2>2, <3>1 DEF PendingFacts
  <2> QED
    BY <2>1, <2>2
<1>22. DoneFacts'
  <2>1. UNCHANGED <<value, rsem, transferred, return_value, disk, hpc, hdisk>>
    BY <1>5
  <2>2. ASSUME NEW u \in Threads, pc'[u] \in {"wait", "waiting"}, u \notin Pending(disk[u])'
        PROVE  Done(u)'
    <3>1. disk[u] \in Disks
      BY <1>0 DEF DiskTypes
    <3>2. u # t
      BY <1>1, <1>19, <2>1, <2>2
    <3>3. u \notin Pending(disk[u]) /\ pc'[u] = pc[u]
      BY <1>9, <1>19, <1>20, <2>1, <2>2, <3>1, <3>2
    <3>4. Done(u)
      BY <1>0, <2>2, <3>3 DEF DoneFacts
    <3> QED
      BY <2>1, <3>3, <3>4 DEF Done
  <2>3. \A h \in Handlers : hpc[h] = "V" =>
          request_served'[hdisk[h]] = request_served[hdisk[h]]
    BY <1>0, <1>4, <1>6, ServedThread
  <2> QED
    BY <1>0, <2>1, <2>2, <2>3 DEF DoneFacts
<1>23. WakeFacts'
  <2>1. UNCHANGED <<op, sem, rsem, disk, hdisk>>
    BY <1>5
  <2>2. ASSUME NEW h \in Handlers, op'[h] = "V_wake"
        PROVE  WakeFact(h)'
    <3>1. op[h] = "V_wake" /\ hpc[h] = "next"
      BY <1>0, <2>1, <2>2 DEF HandlerFacts
    <3>2. request_served'[hdisk[h]] = request_served[hdisk[h]]
      BY <1>0, <1>4, <1>6, <3>1, ServedThread
    <3> QED
      BY <1>15, <2>1, <3>1, <3>2, WakeFrame
  <2> QED
    BY <2>2 DEF WakeFacts, WakeFact
<1>24. \A e \in Disks : \A u \in Pending(e) : u \in Pending(e)'
  BY <1>19, <1>20
<1> QED
  BY <1>10, <1>12, <1>14, <1>17, <1>18, <1>21, <1>22, <1>23, <1>24 DEF DiskInv

(* The handler starts the next request, if there is one, and gives the     *)
(* disk back.                                                              *)
LEMMA HandlerNextInv ==
  ASSUME DiskInv, NEW h \in Handlers, HandlerNext(h)
  PROVE  DiskInv' /\ \A e \in Disks : Pending(e)' = Pending(e)
<1>0. /\ DiskTypes /\ ThreadFacts /\ QueueFacts /\ HandlerFacts /\ DeviceFacts
      /\ PendingFacts /\ DoneFacts /\ WakeFacts /\ hpc[h] = "next" /\ op[h] = "out"
  BY DEF DiskInv, HandlerNext
<1>1. PICK d \in Disks : d = hdisk[h]
  BY <1>0, ServedThread
<1>2. PICK q \in Seq(Threads) : q = request_queue[d]
  BY <1>0 DEF DiskTypes
<1>3. dlock[d] = h /\ ~busy[d] /\ ~irq[d]
  <2>1. dlock[d] = h
    BY <1>0, <1>1 DEF HandlerFacts
  <2> QED
    BY <1>0, <2>1, Basics DEF DeviceFacts
<1>4. \A g \in Handlers : g # h /\ hpc[g] \in {"V", "next"} => hdisk[g] # d
  BY <1>0, <1>1, OneHandler
<1>5. Distinct(q)
  BY <1>0, <1>2 DEF DeviceFacts
<1>6. /\ dlock' = [dlock EXCEPT ![d] = none] /\ hpc' = [hpc EXCEPT ![h] = "none"]
      /\ UNCHANGED <<creator, value, slock, waiters, op, sem, irq, pc, disk, rsem, return_value,
                     hdisk, transferred>>
  BY <1>1 DEF HandlerNext, vars, semaphore_table, submit
<1>7. \/ /\ q = <<>> /\ request_queue' = [request_queue EXCEPT ![d] = <<>>]
         /\ request_served' = [request_served EXCEPT ![d] = none] /\ busy' = busy
      \/ /\ Len(q) # 0 /\ request_queue' = [request_queue EXCEPT ![d] = Tail(q)]
         /\ request_served' = [request_served EXCEPT ![d] = q[1]]
         /\ busy' = [busy EXCEPT ![d] = TRUE]
  <2>1. Len(q) = 0 => q = <<>>
    BY SMTT(30)
  <2>2. disk_next_request(d, q)
    BY <1>1, <1>2 DEF HandlerNext
  <2> QED
    BY <2>1, <2>2 DEF disk_next_request
<1>8. \A e \in Disks : e # d => /\ request_queue'[e] = request_queue[e] /\ dlock'[e] = dlock[e]
                                /\ request_served'[e] = request_served[e] /\ busy'[e] = busy[e]
  BY <1>0, <1>6, <1>7 DEF DiskTypes
<1>9. dlock'[d] = none /\ hpc'[h] = "none" /\ \A g \in Handlers : g # h => hpc'[g] = hpc[g]
  BY <1>0, <1>6 DEF DiskTypes
<1>10. /\ request_served' \in [Disks -> Threads \cup {none}] /\ busy' \in [Disks -> BOOLEAN]
       /\ request_queue' \in [Disks -> Seq(Threads)]
       /\ request_served'[d] \notin Elements(request_queue'[d])
       /\ request_served'[d] = none => request_queue'[d] = <<>> /\ ~busy'[d]
       /\ Elements(request_queue'[d]) \cup (IF request_served'[d] # none THEN {request_served'[d]}
                                                                         ELSE {}) = Elements(q)
       /\ Distinct(request_queue'[d])
  <2>1. CASE /\ q = <<>> /\ request_queue' = [request_queue EXCEPT ![d] = <<>>]
             /\ request_served' = [request_served EXCEPT ![d] = none] /\ busy' = busy
    <3>1. <<>> \in Seq(Threads) /\ Distinct(<<>>)
      BY SMTT(30) DEF Distinct
    <3>2. Elements(<<>>) = {}
      BY SMTT(30) DEF Elements
    <3>3. request_queue'[d] = <<>> /\ request_served'[d] = none
      BY <1>0, <2>1 DEF DiskTypes
    <3>4. /\ request_served' \in [Disks -> Threads \cup {none}] /\ busy' \in [Disks -> BOOLEAN]
          /\ request_queue' \in [Disks -> Seq(Threads)]
      BY <1>0, <2>1, <3>1 DEF DiskTypes
    <3> QED
      BY <1>3, <2>1, <3>1, <3>2, <3>3, <3>4
  <2>2. CASE /\ Len(q) # 0 /\ request_queue' = [request_queue EXCEPT ![d] = Tail(q)]
             /\ request_served' = [request_served EXCEPT ![d] = q[1]]
             /\ busy' = [busy EXCEPT ![d] = TRUE]
    <3>1. /\ q[1] \in Threads /\ Tail(q) \in Seq(Threads)
          /\ Elements(q) = Elements(Tail(q)) \cup {q[1]} /\ q[1] \notin Elements(Tail(q))
          /\ Distinct(Tail(q))
      BY <1>5, <2>2, Removed
    <3>2. request_queue'[d] = Tail(q) /\ request_served'[d] = q[1]
      BY <1>0, <2>2 DEF DiskTypes
    <3>3. /\ request_served' \in [Disks -> Threads \cup {none}] /\ busy' \in [Disks -> BOOLEAN]
          /\ request_queue' \in [Disks -> Seq(Threads)]
      BY <1>0, <2>2, <3>1 DEF DiskTypes
    <3> QED
      BY <3>1, <3>2, <3>3, Basics
  <2> QED
    BY <1>7, <2>1, <2>2
<1>11. DiskTypes'
  <2>1. /\ dlock' \in [Disks -> Handlers \cup {none}]
        /\ hpc' \in [Handlers -> {"none", "lock", "V", "next"}]
    BY <1>0, <1>6 DEF DiskTypes
  <2> QED
    BY <1>0, <1>6, <1>10, <2>1 DEF DiskTypes
<1>12. /\ ThreadFacts' /\ QueueFacts'
       /\ \A t \in Threads : (InQueue(t)' <=> InQueue(t)) /\ (Blocked(t)' <=> Blocked(t))
  BY <1>6, ThreadsFrame
<1>13. \A g \in Handlers : hpc'[g] \in {"V", "next"} =>
         /\ hpc'[g] = hpc[g] /\ g # h /\ hdisk[g] \in Disks
         /\ request_served'[hdisk[g]] = request_served[hdisk[g]]
         /\ dlock'[hdisk[g]] = dlock[hdisk[g]]
  BY <1>0, <1>4, <1>8, <1>9, ServedThread
<1>14. HandlerFacts'
  <2>1. \A g \in Handlers : op[g] # "out" => hpc'[g] = "next"
    BY <1>0, <1>9 DEF HandlerFacts
  <2>2. \A g \in Handlers : hpc'[g] \in {"V", "next"} =>
          dlock'[hdisk[g]] = g /\ request_served'[hdisk[g]] # none
    BY <1>0, <1>13 DEF HandlerFacts
  <2>3. UNCHANGED <<op, sem, hdisk>>
    BY <1>6
  <2> QED
    BY <1>0, <2>1, <2>2, <2>3 DEF HandlerFacts
<1>15. DeviceFacts'
  <2> SUFFICES ASSUME NEW e \in Disks
               PROVE  /\ dlock'[e] # none =>
                           hpc'[dlock'[e]] \in {"V", "next"} /\ hdisk[dlock'[e]] = e
                      /\ busy'[e] \/ irq[e] => request_served'[e] # none /\ dlock'[e] = none
                      /\ ~ (busy'[e] /\ irq[e])
                      /\ irq[e] => transferred[request_served'[e]]
                      /\ request_served'[e] = none => request_queue'[e] = <<>>
                      /\ request_served'[e] \notin Elements(request_queue'[e])
                      /\ Distinct(request_queue'[e])
    BY <1>6 DEF DeviceFacts
  <2>1. CASE e = d
    BY <1>3, <1>9, <1>10, <2>1
  <2>2. CASE e # d
    <3>1. ASSUME dlock[e] # none
          PROVE  hpc'[dlock[e]] \in {"V", "next"} /\ hdisk[dlock[e]] = e
      <4>1. PICK g \in Handlers : g = dlock[e] /\ hpc[g] \in {"V", "next"} /\ hdisk[g] = e
        BY <3>1, LockHolder
      <4>2. hpc'[g] = hpc[g]
        BY <1>1, <1>9, <2>2, <4>1
      <4> QED
        BY <4>1, <4>2
    <3> QED
      BY <1>0, <1>8, <2>2, <3>1 DEF DeviceFacts
  <2> QED
    BY <2>1, <2>2
<1>16. \A e \in Disks : Pending(e)' = Pending(e)
  <2> SUFFICES ASSUME NEW e \in Disks PROVE Pending(e)' = Pending(e)
    OBVIOUS
  <2>1. CASE e = d
    <3>1. ~Unsignalled(d)
      BY <1>0, <1>1 DEF Unsignalled
    <3>2. Pending(d) = Elements(q)
      BY <1>2, <3>1, PendingIs
    <3>3. Unsignalled(d)' <=> request_served'[d] # none
      BY <1>6, <1>4, <1>9 DEF Unsignalled
    <3>4. Pending(d)' = Elements(request_queue'[d]) \cup
            (IF request_served'[d] # none THEN {request_served'[d]} ELSE {})
      BY <3>3 DEF Pending, Unsignalled, Elements
    <3> QED
      BY <1>10, <2>1, <3>2, <3>4
  <2>2. CASE e # d
    <3>1. request_queue'[e] = request_queue[e] /\ request_served'[e] = request_served[e]
      BY <1>8, <2>2
    <3>2. Unsignalled(e)' <=> Unsignalled(e)
      BY <1>1, <1>6, <1>9, <2>2, <3>1 DEF Unsignalled
    <3>3. Elements(request_queue'[e]) = Elements(request_queue[e])
      BY <3>1
    <3> QED
      BY <3>1, <3>2, <3>3 DEF Pending, Unsignalled, Elements
  <2> QED
    BY <2>1, <2>2
<1>17. PendingFacts'
  BY <1>0, <1>6, <1>12, <1>16 DEF PendingFacts
<1>18. DoneFacts'
  <2>1. \A t \in Threads : disk[t] \in Disks /\ (Done(t) => Done(t)')
    BY <1>0, <1>6 DEF Done, DiskTypes
  <2> QED
    BY <1>0, <1>6, <1>13, <1>16, <2>1 DEF DoneFacts
<1>19. WakeFacts'
  <2>1. ASSUME NEW g \in Handlers, op'[g] = "V_wake"
        PROVE  WakeFact(g)'
    <3>1. op[g] = "V_wake" /\ hpc[g] = "next"
      BY <1>0, <1>6, <2>1 DEF HandlerFacts
    <3>2. g # h
      BY <1>0, <3>1
    <3>3. request_served'[hdisk[g]] = request_served[hdisk[g]]
      BY <1>9, <1>13, <3>1, <3>2
    <3> QED
      BY <1>6, <1>12, <3>1, <3>3, WakeFrame
  <2> QED
    BY <2>1 DEF WakeFacts, WakeFact
<1> QED
  BY <1>11, <1>12, <1>14, <1>15, <1>16, <1>17, <1>18, <1>19 DEF DiskInv

-----------------------------------------------------------------------------

(* At boot no disk, thread or handler is at work.                          *)
LEMMA DiskInitInv == DiskInit => DiskInv
<1> SUFFICES ASSUME DiskInit PROVE DiskInv
  OBVIOUS
<1>0. <<>> \in Seq(Threads) /\ 0 \in Int
  BY SMTT(30)
<1>1. /\ \A t \in Threads : pc[t] = "idle" /\ rsem[t] = NONE
      /\ \A a \in Actors : op[a] = "out"
      /\ \A s \in Semaphores : waiters[s] = <<>>
      /\ \A h \in Handlers : hpc[h] = "none"
      /\ \A d \in Disks : /\ request_queue[d] = <<>> /\ request_served[d] = none
                          /\ dlock[d] = none /\ ~busy[d] /\ ~irq[d]
  BY DEF DiskInit, Init
<1>2. DiskTypes
  BY <1>0 DEF DiskInit, Init, DiskTypes, Ops
<1>3. \A a \in Threads \cup Handlers : op[a] = "out"
  BY <1>1, Basics
<1>4. ThreadFacts
  BY <1>1, <1>3 DEF ThreadFacts, ThreadFact
<1>5. QueueFacts
  BY <1>1 DEF QueueFacts, QueueFact
<1>6. HandlerFacts
  BY <1>1, <1>3 DEF HandlerFacts
<1>7. Elements(<<>>) = {} /\ Distinct(<<>>)
  BY SMTT(30) DEF Elements, Distinct
<1>8. DeviceFacts
  BY <1>1, <1>7 DEF DeviceFacts
<1>9. \A d \in Disks : Pending(d) = {}
  BY <1>1, <1>7, PendingIs DEF Unsignalled
<1>10. PendingFacts
  BY <1>9 DEF PendingFacts
<1>11. DoneFacts
  BY <1>1 DEF DoneFacts
<1>12. WakeFacts
  BY <1>3 DEF WakeFacts, WakeFact
<1> QED
  BY <1>2, <1>4, <1>5, <1>6, <1>8, <1>10, <1>11, <1>12 DEF DiskInv

(* Nothing happens.                                                        *)
LEMMA DiskStutter ==
  ASSUME DiskInv, UNCHANGED allVars
  PROVE  DiskInv'
<1>0. /\ DiskTypes /\ ThreadFacts /\ QueueFacts /\ HandlerFacts /\ DeviceFacts
      /\ PendingFacts /\ DoneFacts /\ WakeFacts
  BY DEF DiskInv
<1>1. UNCHANGED <<creator, value, slock, waiters, op, sem, request_queue, request_served, dlock,
                  busy, irq, pc, disk, rsem, return_value, hpc, hdisk, transferred>>
  BY DEF allVars, vars, semaphore_table, diskVars, device, submit, handling
<1>2. DiskTypes'
  BY <1>0, <1>1 DEF DiskTypes
<1>3. /\ ThreadFacts' /\ QueueFacts'
      /\ \A t \in Threads : (InQueue(t)' <=> InQueue(t)) /\ (Blocked(t)' <=> Blocked(t))
  BY <1>1, ThreadsFrame
<1>4. HandlerFacts' /\ DeviceFacts'
  BY <1>0, <1>1 DEF HandlerFacts, DeviceFacts
<1>5. \A e : Pending(e)' = Pending(e)
  BY <1>1, SMTT(30) DEF Pending
<1>6. PendingFacts'
  BY <1>0, <1>1, <1>3, <1>5 DEF PendingFacts
<1>7. DoneFacts'
  <2>1. \A t \in Threads : Done(t) => Done(t)'
    BY <1>1 DEF Done
  <2> QED
    BY <1>0, <1>1, <1>5, <2>1 DEF DoneFacts
<1>8. WakeFacts'
  <2>1. \A h \in Handlers : op'[h] = "V_wake" => WakeFact(h)'
    BY <1>1, <1>3, WakeFrame
  <2> QED
    BY <2>1 DEF WakeFacts, WakeFact
<1> QED
  BY <1>2, <1>3, <1>4, <1>6, <1>7, <1>8 DEF DiskInv

(* The steps inside semaphore_P are of threads, those inside semaphore_V   *)
(* of handlers.                                                            *)
LEMMA InsideSteps ==
  ASSUME DiskInv
  PROVE  /\ \A t \in Threads : SemaphoreStep(t) => SleepqAdd(t) \/ ReleaseP(t) \/ Resume(t)
         /\ \A h \in Handlers : SemaphoreStep(h) => SleepqWake(h) \/ ReleaseV(h)
<1>1. ASSUME NEW t \in Threads
      PROVE  ~SleepqWake(t) /\ ~ReleaseV(t)
  BY InsideP DEF SleepqWake, ReleaseV
<1>2. ASSUME NEW h \in Handlers
      PROVE  ~SleepqAdd(h) /\ ~ReleaseP(h) /\ ~Resume(h)
  <2>1. op[h] \in {"out", "V_wake", "V_release"}
    BY DEF DiskInv, HandlerFacts
  <2> QED
    BY <2>1 DEF SleepqAdd, ReleaseP, Resume
<1> QED
  BY <1>1, <1>2 DEF SemaphoreStep

(* Every step of the driver keeps the invariant.                           *)
LEMMA DiskNextInv == DiskInv /\ [DiskNext]_allVars => DiskInv'
<1> SUFFICES ASSUME DiskInv, [DiskNext]_allVars PROVE DiskInv'
  OBVIOUS
<1>1. ASSUME NEW t \in Threads, Submitter(t)
      PROVE  DiskInv'
  BY <1>1, CreatedInv, EnqueueInv, WaitInv, ReturnInv DEF Submitter
<1>2. ASSUME NEW t \in Threads, Inside(t)
      PROVE  DiskInv'
  BY <1>2, InsideSteps, SleepqAddInv, ReleasePInv, ResumeInv DEF Inside
<1>3. ASSUME NEW t \in Threads, NEW d \in Disks, disk_submit_request(t, d)
      PROVE  DiskInv'
  BY <1>3, SubmitInv
<1>4. ASSUME NEW h \in Handlers, Handler(h)
      PROVE  DiskInv'
  BY <1>4, HandlerLockInv, HandlerVInv, HandlerNextInv DEF Handler
<1>5. ASSUME NEW h \in Handlers, Inside(h)
      PROVE  DiskInv'
  BY <1>5, InsideSteps, SleepqWakeInv, ReleaseVInv DEF Inside
<1>6. ASSUME NEW h \in Handlers, NEW d \in Disks, Interrupt(h, d)
      PROVE  DiskInv'
  BY <1>6, InterruptInv
<1>7. ASSUME NEW d \in Disks, Complete(d)
      PROVE  DiskInv'
  BY <1>7, CompleteInv
<1>8. CASE UNCHANGED allVars
  BY <1>8, DiskStutter
<1> QED
  BY <1>1, <1>2, <1>3, <1>4, <1>5, <1>6, <1>7, <1>8 DEF DiskNext

(* The inductive invariant of drivers/mips32/disk.c, with one disk. *)
THEOREM DiskInvariance ==
  ASSUME OneDisk
  PROVE  DiskSpec => []DiskInv
BY DiskInitInv, DiskNextInv, PTL DEF DiskSpec

(* The asserts of disk_interrupt_handle and disk_next_request never fail,  *)
(* with one disk.                                                          *)
THEOREM DeviceStaysInStep ==
  ASSUME OneDisk
  PROVE  DiskSpec => []DeviceInStep
<1>1. DiskInv => DeviceInStep
  <2> SUFFICES ASSUME DiskInv, NEW d \in Disks
               PROVE  /\ busy[d] \/ irq[d] =>
                           /\ request_served[d] # none
                           /\ \A h \in Handlers : hpc[h] \in {"V", "next"} => hdisk[h] # d
                      /\ ~ (busy[d] /\ irq[d])
                      /\ request_served[d] = none => Len(request_queue[d]) = 0
    BY DEF DeviceInStep
  <2>0. DeviceFacts /\ HandlerFacts
    BY DEF DiskInv
  <2>1. ASSUME busy[d] \/ irq[d], NEW h \in Handlers, hpc[h] \in {"V", "next"}, hdisk[h] = d
        PROVE  FALSE
    <3>1. dlock[d] = none
      BY <2>0, <2>1 DEF DeviceFacts
    <3>2. dlock[d] = h
      BY <2>0, <2>1 DEF HandlerFacts
    <3> QED
      BY <3>1, <3>2, Basics
  <2>2. request_served[d] = none => Len(request_queue[d]) = 0
    <3>1. request_served[d] = none => request_queue[d] = <<>>
      BY <2>0 DEF DeviceFacts
    <3>2. Len(<<>>) = 0
      BY SMTT(30)
    <3> QED
      BY <3>1, <3>2
  <2> QED
    BY <2>0, <2>1, <2>2 DEF DeviceFacts
<1> QED
  BY <1>1, DiskInvariance, PTL

(* disk_interrupt_handle only touches requests, which live on the stacks   *)
(* of their threads, of threads still in disk_submit_request, with one     *)
(* disk.                                                                   *)
THEOREM RequestsStayAlive ==
  ASSUME OneDisk
  PROVE  DiskSpec => []RequestsAlive
<1>1. DiskInv => RequestsAlive
  <2> SUFFICES ASSUME DiskInv, NEW d \in Disks, NEW t \in Pending(d)
               PROVE  /\ pc[t] \in {"wait", "waiting"} /\ disk[t] = d
                      /\ rsem[t] \in Semaphores /\ creator[rsem[t]] = t
    BY DEF RequestsAlive
  <2>1. t \in Threads /\ disk[t] = d /\ Blocked(t)
    BY DEF DiskInv, PendingFacts
  <2>2. pc[t] \in {"wait", "waiting"}
    BY <2>1 DEF Blocked, InQueue
  <2> QED
    BY <2>1, <2>2 DEF DiskInv, ThreadFacts, ThreadFact
<1> QED
  BY <1>1, DiskInvariance, PTL

(* disk_submit_request returns only with the request done by the device    *)
(* and return_value 0, with one disk.                                      *)
THEOREM DoneWhenReturned ==
  ASSUME OneDisk
  PROVE  DiskSpec => ReturnsWhenDone
<1>1. DiskInv /\ [DiskNext]_allVars => SubmitReturnStep
  <2> SUFFICES ASSUME DiskInv, [DiskNext]_allVars, NEW t \in Threads,
                      pc[t] = "waiting", pc'[t] = "idle"
               PROVE  transferred[t] /\ return_value[t] = 0
    BY DEF SubmitReturnStep
  <2>0. DiskTypes
    BY DEF DiskInv
  <2>1. op[t] = "out"
    <3>1. ASSUME NEW u \in Threads, Submitter(u)
          PROVE  op[t] = "out"
      <4>1. CASE Return(u)
        BY <2>0, <4>1 DEF Return, semaphore_destroy, DiskTypes
      <4>2. CASE Created(u) \/ Enqueue(u) \/ Wait(u)
        BY <2>0, <4>2 DEF Created, Enqueue, Wait, DiskTypes
      <4> QED
        BY <3>1, <4>1, <4>2 DEF Submitter
    <3>2. ASSUME NEW u \in Threads, NEW d \in Disks, disk_submit_request(u, d)
          PROVE  op[t] = "out"
      BY <2>0, <3>2 DEF disk_submit_request, DiskTypes
    <3>3. ASSUME NEW h \in Handlers, Handler(h)
          PROVE  FALSE
      BY <3>3 DEF Handler, HandlerLock, HandlerV, HandlerNext, submit
    <3>4. ASSUME NEW a, Inside(a)
          PROVE  FALSE
      BY <3>4 DEF Inside, diskVars, submit
    <3>5. ASSUME NEW h \in Handlers, NEW d \in Disks, Interrupt(h, d)
          PROVE  FALSE
      BY <3>5 DEF Interrupt, submit
    <3>6. ASSUME NEW d \in Disks, Complete(d)
          PROVE  FALSE
      BY <3>6 DEF Complete, submit
    <3>7. ASSUME UNCHANGED allVars
          PROVE  FALSE
      BY <3>7 DEF allVars, diskVars, submit
    <3> QED
      BY <3>1, <3>2, <3>3, <3>4, <3>5, <3>6, <3>7 DEF DiskNext
  <2>2. ~Blocked(t)
    BY <2>1 DEF Blocked, InQueue
  <2>3. disk[t] \in Disks
    BY <2>0 DEF DiskTypes
  <2>4. t \notin Pending(disk[t])
    BY <2>2, <2>3 DEF DiskInv, PendingFacts
  <2> QED
    BY <2>4 DEF DiskInv, DoneFacts, Done
<1>2. DiskInv /\ [DiskNext]_allVars => [SubmitReturnStep]_allVars
  BY <1>1
<1> QED
  BY <1>2, DiskInvariance, PTL DEF DiskSpec, ReturnsWhenDone

-----------------------------------------------------------------------------
(* One disk.                                                               *)


(* The three conjuncts of SlockFacts, of one actor. *)
Holds(t) == op[t] \in {"P_add", "P_release"} => slock[rsem[t]] = t
Wakes(h) == op[h] = "V_wake" => slock[sem[h]] = h
Apart(h, t) ==
  op[h] # "out" /\ rsem[t] = sem[h] =>
    pc[t] = "enqueue" \/ (pc[t] = "waiting" /\ op[t] \in {"P_sleep", "out"})

(* SlockFacts, actor by actor.                                             *)
LEMMA SlockIs ==
  SlockFacts <=> /\ \A t \in Threads : Holds(t)
                 /\ \A h \in Handlers : Wakes(h)
                 /\ \A h \in Handlers, t \in Threads : Apart(h, t)
BY DEF SlockFacts, Holds, Wakes, Apart

(* A step of thread t, which leaves locks and sleep queues alone but those *)
(* of its own semaphore s, and that one too when a handler is about to     *)
(* wake somebody there.                                                    *)
Alone(t, s) ==
  /\ UNCHANGED <<request_queue, request_served, hpc, hdisk>>
  /\ \A u \in Threads : u # t => pc'[u] = pc[u] /\ disk'[u] = disk[u] /\ rsem'[u] = rsem[u]
  /\ \A a \in Actors : a # t => op'[a] = op[a] /\ sem'[a] = sem[a]
  /\ \A r \in Semaphores : r # s => slock'[r] = slock[r] /\ waiters'[r] = waiters[r]
  /\ \/ UNCHANGED <<slock, waiters>>
     \/ creator[s] = t /\ \A h \in Handlers : op[h] = "V_wake" => sem[h] # s

(* What such a step has to give for t itself. *)
Own(t) ==
  /\ Holds(t)' /\ \A h \in Handlers : Apart(h, t)'
  /\ InQueue(t)' => disk'[t] = disk[t] /\ (InQueue(t) \/ t \in Pending(disk[t]))

(* Such a step keeps the rest of the invariant.                            *)
LEMMA AloneInv ==
  ASSUME OneDiskInv, NEW t \in Threads, NEW s \in Semaphores, Alone(t, s), Own(t)
  PROVE  SlockFacts' /\ SleepFacts'
<1>0. DiskInv /\ SlockFacts /\ SleepFacts /\ ThreadFacts /\ HandlerFacts
  BY DEF OneDiskInv, DiskInv
<1>1. /\ UNCHANGED <<request_queue, request_served, hpc, hdisk>>
      /\ \A u \in Threads : u # t => pc'[u] = pc[u] /\ disk'[u] = disk[u] /\ rsem'[u] = rsem[u]
      /\ \A u \in Threads : u # t => op'[u] = op[u]
      /\ \A h \in Handlers : op'[h] = op[h] /\ sem'[h] = sem[h]
  <2>1. \A h \in Handlers : h \in Actors /\ h # t
    BY Basics
  <2>2. \A u \in Threads : u \in Actors
    BY Basics
  <2> QED
    BY <2>1, <2>2 DEF Alone
<1>2. ASSUME NEW u \in Threads, u # t, pc[u] = "waiting"
      PROVE  slock'[rsem[u]] = slock[rsem[u]] /\ waiters'[rsem[u]] = waiters[rsem[u]]
  <2>1. rsem[u] \in Semaphores /\ creator[rsem[u]] = u
    BY <1>0, <1>2 DEF ThreadFacts, ThreadFact
  <2> QED
    BY <1>2, <2>1 DEF Alone
<1>3. ASSUME NEW u \in Threads
      PROVE  Holds(u)'
  <2>1. CASE u = t
    BY <2>1 DEF Own
  <2>2. CASE u # t
    <3>1. Holds(u)
      BY <1>0, SlockIs
    <3>2. op[u] \in {"P_add", "P_release"} => pc[u] = "waiting"
      BY <1>0, InsideP
    <3> QED
      BY <1>1, <1>2, <2>2, <3>1, <3>2 DEF Holds
  <2> QED
    BY <2>1, <2>2
<1>4. ASSUME NEW h \in Handlers
      PROVE  Wakes(h)'
  <2>1. Wakes(h)
    BY <1>0, SlockIs
  <2>2. op[h] = "V_wake" => sem[h] \in Semaphores
    BY <1>0 DEF HandlerFacts
  <2>3. op[h] = "V_wake" => slock'[sem[h]] = slock[sem[h]]
    BY <2>2 DEF Alone
  <2> QED
    BY <1>1, <2>1, <2>3 DEF Wakes
<1>5. ASSUME NEW h \in Handlers, NEW u \in Threads
      PROVE  Apart(h, u)'
  <2>1. CASE u = t
    BY <2>1 DEF Own
  <2>2. CASE u # t
    <3>1. Apart(h, u)
      BY <1>0, SlockIs
    <3> QED
      BY <1>1, <2>2, <3>1 DEF Apart
  <2> QED
    BY <2>1, <2>2
<1>6. SlockFacts'
  <2>1. SlockFacts' <=> /\ \A u \in Threads : Holds(u)'
                        /\ \A h \in Handlers : Wakes(h)'
                        /\ \A h \in Handlers, u \in Threads : Apart(h, u)'
    BY DEF SlockFacts, Holds, Wakes, Apart
  <2> QED
    BY <1>3, <1>4, <1>5, <2>1
<1>7. \A e : Pending(e)' = Pending(e)
  BY <1>1, SMTT(30) DEF Pending
<1>8. \A u : Signalling(u)' <=> Signalling(u)
  BY <1>1 DEF Signalling
<1>9. SleepFacts'
  <2> SUFFICES ASSUME NEW u \in Threads, InQueue(u)'
               PROVE  (u \in Pending(disk[u]) \/ Signalling(u))'
    BY DEF SleepFacts
  <2>1. disk'[u] = disk[u] /\ (InQueue(u) \/ u \in Pending(disk[u]))
    <3>1. CASE u = t
      BY <3>1 DEF Own
    <3>2. CASE u # t
      <4>1. pc[u] = "waiting"
        BY <1>1, <3>2 DEF InQueue
      <4> QED
        BY <1>1, <1>2, <3>2, <4>1 DEF InQueue
    <3> QED
      BY <3>1, <3>2
  <2>2. u \in Pending(disk[u]) \/ Signalling(u)
    BY <1>0, <2>1 DEF SleepFacts
  <2> QED
    BY <1>7, <1>8, <2>1, <2>2
<1> QED
  BY <1>6, <1>9

(* disk_submit_request begins.                                             *)
LEMMA SubmitOne ==
  ASSUME OneDiskInv, NEW t \in Threads, NEW d \in Disks, disk_submit_request(t, d)
  PROVE  SlockFacts' /\ SleepFacts'
<1>0. DiskTypes /\ ThreadFacts /\ HandlerFacts /\ t \in Actors
  BY Basics DEF OneDiskInv, DiskInv
<1>1. PICK s \in Semaphores : sem' = [sem EXCEPT ![t] = s]
  BY DEF disk_submit_request, semaphore_create, Free
<1>2. /\ pc[t] = "idle" /\ op' = [op EXCEPT ![t] = "create"] /\ pc' = [pc EXCEPT ![t] = "create"]
      /\ disk' = [disk EXCEPT ![t] = d]
      /\ UNCHANGED <<request_queue, request_served, hpc, hdisk, rsem, slock, waiters>>
  BY DEF disk_submit_request, semaphore_create, device, handling
<1>3. Alone(t, s)
  BY <1>0, <1>1, <1>2 DEF Alone, DiskTypes
<1>4. pc'[t] = "create" /\ op'[t] = "create" /\ rsem[t] = NONE
  BY <1>0, <1>2 DEF DiskTypes, ThreadFacts, ThreadFact
<1>5. \A h \in Handlers : op'[h] # "out" => sem'[h] \in Semaphores
  <2>1. \A h \in Handlers : h \in Actors /\ h # t
    BY Basics
  <2> QED
    BY <1>0, <1>3, <2>1 DEF Alone, HandlerFacts
<1>6. Own(t)
  BY <1>2, <1>4, <1>5, Basics DEF Own, Holds, Apart, InQueue
<1> QED
  BY <1>3, <1>6, AloneInv

(* semaphore_create resets the lock of a semaphore nobody is woken on.     *)
LEMMA CreatedOne ==
  ASSUME OneDiskInv, NEW t \in Threads, Created(t)
  PROVE  SlockFacts' /\ SleepFacts'
<1>0. /\ DiskTypes /\ ThreadFact(t) /\ HandlerFacts /\ WakeFacts /\ ThreadFacts
      /\ t \in Actors /\ pc[t] = "create"
  BY Basics DEF OneDiskInv, DiskInv, ThreadFacts, Created
<1>1. PICK s \in Semaphores : s = sem[t] /\ creator[s] = t
  BY <1>0 DEF ThreadFact
<1>2. /\ op' = [op EXCEPT ![t] = "out"] /\ pc' = [pc EXCEPT ![t] = "enqueue"]
      /\ sem' = [sem EXCEPT ![t] = NONE] /\ rsem' = [rsem EXCEPT ![t] = s]
      /\ slock' = [slock EXCEPT ![s] = "nobody"]
      /\ UNCHANGED <<request_queue, request_served, hpc, hdisk, waiters, disk>>
  BY <1>1 DEF Created, SetValue, device, handling
<1>3. \A h \in Handlers : op[h] = "V_wake" => sem[h] # s
  <2> SUFFICES ASSUME NEW h \in Handlers, op[h] = "V_wake" PROVE sem[h] # s
    OBVIOUS
  <2>1. PICK v \in Threads : v = request_served[hdisk[h]]
    BY <1>0, ServedThread DEF HandlerFacts
  <2>2. InQueue(v) /\ rsem[v] = sem[h]
    BY <1>0, <2>1 DEF WakeFacts, WakeFact
  <2>3. creator[rsem[v]] = v /\ v # t
    BY <1>0, <2>2 DEF InQueue, ThreadFacts, ThreadFact
  <2> QED
    BY <1>1, <2>2, <2>3
<1>4. Alone(t, s)
  BY <1>0, <1>1, <1>2, <1>3 DEF Alone, DiskTypes
<1>5. pc'[t] = "enqueue" /\ op'[t] = "out"
  BY <1>0, <1>2 DEF DiskTypes
<1>6. Own(t)
  BY <1>5 DEF Own, Holds, Apart, InQueue
<1> QED
  BY <1>4, <1>6, AloneInv

(* A thread goes to sleep only when its request is not done yet. *)
LEMMA WaitOne ==
  ASSUME OneDiskInv, NEW t \in Threads, Wait(t)
  PROVE  SlockFacts' /\ SleepFacts'
<1>0. /\ DiskTypes /\ ThreadFact(t) /\ DoneFacts /\ SlockFacts /\ HandlerFacts
      /\ t \in Actors /\ pc[t] = "wait"
  BY Basics DEF OneDiskInv, DiskInv, ThreadFacts, Wait
<1>1. PICK s \in Semaphores : s = rsem[t] /\ creator[s] = t
  BY <1>0 DEF ThreadFact
<1>2. /\ pc' = [pc EXCEPT ![t] = "waiting"] /\ slock[s] = "nobody" /\ op[t] = "out"
      /\ UNCHANGED <<request_queue, request_served, hpc, hdisk, waiters, disk, rsem>>
      /\ \/ /\ value[s] - 1 < 0 /\ slock' = [slock EXCEPT ![s] = t]
            /\ op' = [op EXCEPT ![t] = "P_add"] /\ sem' = [sem EXCEPT ![t] = s]
         \/ UNCHANGED <<slock, op, sem>>
  BY <1>1 DEF Wait, semaphore_P, device, handling
<1>3. \A h \in Handlers : op[h] = "V_wake" => sem[h] # s
  BY <1>0, <1>2, Basics DEF SlockFacts, none
<1>4. Alone(t, s)
  BY <1>0, <1>1, <1>2, <1>3 DEF Alone, DiskTypes
<1>5. /\ pc'[t] = "waiting" /\ rsem'[t] = s
      /\ \/ value[s] - 1 < 0 /\ op'[t] = "P_add" /\ slock'[s] = t
         \/ op'[t] = "out"
  BY <1>0, <1>1, <1>2 DEF DiskTypes
<1>6. op'[t] = "P_add" => t \in Pending(disk[t])
  <2>1. value[s] - 1 < 0 => value[s] # 1
    BY SMTT(30)
  <2> QED
    BY <1>0, <1>1, <1>5, <2>1 DEF DoneFacts, Done
<1>7. \A h \in Handlers : ~ (op[h] # "out" /\ rsem[t] = sem[h])
  BY <1>0 DEF SlockFacts
<1>8. \A h \in Handlers : op'[h] = op[h] /\ sem'[h] = sem[h]
  <2>1. \A h \in Handlers : h \in Actors /\ h # t
    BY Basics
  <2> QED
    BY <1>4, <2>1 DEF Alone
<1>9. Own(t)
  <2>1. Holds(t)'
    BY <1>5 DEF Holds
  <2>2. \A h \in Handlers : Apart(h, t)'
    BY <1>2, <1>7, <1>8 DEF Apart
  <2>3. InQueue(t)' => op'[t] = "P_add"
    BY <1>5 DEF InQueue
  <2> QED
    BY <1>2, <1>6, <2>1, <2>2, <2>3 DEF Own
<1> QED
  BY <1>4, <1>9, AloneInv

(* The thread destroys its semaphore and returns.                          *)
LEMMA ReturnOne ==
  ASSUME OneDiskInv, NEW t \in Threads, Return(t)
  PROVE  SlockFacts' /\ SleepFacts'
<1>0. /\ DiskTypes /\ ThreadFact(t) /\ HandlerFacts /\ t \in Actors
      /\ pc[t] = "waiting" /\ op[t] = "out"
  BY Basics DEF OneDiskInv, DiskInv, ThreadFacts, Return, semaphore_destroy
<1>1. PICK s \in Semaphores : s = rsem[t]
  BY <1>0 DEF ThreadFact
<1>2. /\ rsem' = [rsem EXCEPT ![t] = NONE] /\ pc' = [pc EXCEPT ![t] = "idle"]
      /\ UNCHANGED <<request_queue, request_served, hpc, hdisk, slock, waiters, op, sem, disk>>
  BY <1>1 DEF Return, semaphore_destroy, device, handling
<1>3. Alone(t, s)
  BY <1>0, <1>2 DEF Alone, DiskTypes
<1>4. pc'[t] = "idle" /\ op'[t] = "out" /\ rsem'[t] = NONE
  BY <1>0, <1>2 DEF DiskTypes
<1>5. \A h \in Handlers : op'[h] # "out" => sem'[h] \in Semaphores
  BY <1>0, <1>2 DEF HandlerFacts
<1>6. Own(t)
  BY <1>4, <1>5, Basics DEF Own, Holds, Apart, InQueue
<1> QED
  BY <1>3, <1>6, AloneInv

(* No handler is in semaphore_V on the semaphore of a thread that holds    *)
(* its lock in semaphore_P.                                                *)
LEMMA NotWithP ==
  ASSUME OneDiskInv, NEW t \in Threads, op[t] \in {"P_add", "P_release"}
  PROVE  \A h \in Handlers : op[h] # "out" => sem[h] # rsem[t]
<1>1. SlockFacts /\ pc[t] = "waiting"
  BY InsideP DEF OneDiskInv
<1> QED
  BY <1>1 DEF SlockFacts

(* The thread enters the sleep queue, holding the lock.                    *)
LEMMA SleepqAddOne ==
  ASSUME OneDiskInv, NEW t \in Threads, SleepqAdd(t), UNCHANGED diskVars
  PROVE  SlockFacts' /\ SleepFacts'
<1>0. /\ DiskTypes /\ SlockFacts /\ t \in Actors /\ op[t] = "P_add" /\ DiskInv
  BY Basics DEF OneDiskInv, DiskInv, SleepqAdd
<1>1. PICK s \in Semaphores : s = rsem[t] /\ creator[s] = t /\ s = sem[t] /\ pc[t] = "waiting"
  BY <1>0, InsideP
<1>2. /\ waiters' = [waiters EXCEPT ![s] = Append(@, t)] /\ op' = [op EXCEPT ![t] = "P_release"]
      /\ UNCHANGED <<request_queue, request_served, hpc, hdisk, slock, rsem, pc, sem, disk>>
  BY <1>1 DEF SleepqAdd, semaphore_table, diskVars, device, submit, handling
<1>3. \A h \in Handlers : op[h] # "out" => sem[h] # s
  BY <1>0, <1>1, NotWithP
<1>4. Alone(t, s)
  <2>1. \A h \in Handlers : op[h] = "V_wake" => sem[h] # s
    BY <1>3
  <2> QED
    BY <1>0, <1>1, <1>2, <2>1 DEF Alone, DiskTypes
<1>5. op'[t] = "P_release" /\ \A h \in Handlers : op'[h] = op[h]
  BY <1>0, <1>2, Basics DEF DiskTypes
<1>6. Own(t)
  <2>1. Holds(t)'
    BY <1>0, <1>2 DEF Holds, SlockFacts
  <2>2. \A h \in Handlers : Apart(h, t)'
    BY <1>1, <1>2, <1>3, <1>5 DEF Apart
  <2>3. InQueue(t)
    BY <1>0, <1>1 DEF InQueue
  <2> QED
    BY <1>2, <2>1, <2>2, <2>3 DEF Own
<1> QED
  BY <1>4, <1>6, AloneInv

(* The thread releases the lock, which is its own.                         *)
LEMMA ReleasePOne ==
  ASSUME OneDiskInv, NEW t \in Threads, ReleaseP(t), UNCHANGED diskVars
  PROVE  SlockFacts' /\ SleepFacts'
<1>0. /\ DiskTypes /\ SlockFacts /\ t \in Actors /\ op[t] = "P_release" /\ DiskInv
  BY Basics DEF OneDiskInv, DiskInv, ReleaseP
<1>1. PICK s \in Semaphores : s = rsem[t] /\ creator[s] = t /\ s = sem[t] /\ pc[t] = "waiting"
  BY <1>0, InsideP
<1>2. /\ slock' = [slock EXCEPT ![s] = "nobody"] /\ op' = [op EXCEPT ![t] = "P_sleep"]
      /\ UNCHANGED <<request_queue, request_served, hpc, hdisk, waiters, rsem, pc, sem, disk>>
  BY <1>1 DEF ReleaseP, diskVars, device, submit, handling
<1>3. \A h \in Handlers : op[h] # "out" => sem[h] # s
  BY <1>0, <1>1, NotWithP
<1>4. Alone(t, s)
  <2>1. \A h \in Handlers : op[h] = "V_wake" => sem[h] # s
    BY <1>3
  <2> QED
    BY <1>0, <1>1, <1>2, <2>1 DEF Alone, DiskTypes
<1>5. op'[t] = "P_sleep" /\ \A h \in Handlers : op'[h] = op[h]
  BY <1>0, <1>2, Basics DEF DiskTypes
<1>6. Own(t)
  <2>1. Holds(t)'
    BY <1>5 DEF Holds
  <2>2. \A h \in Handlers : Apart(h, t)'
    BY <1>1, <1>2, <1>5 DEF Apart
  <2>3. InQueue(t)' => InQueue(t)
    BY <1>0, <1>1, <1>2, <1>5 DEF InQueue
  <2> QED
    BY <1>2, <2>1, <2>2, <2>3 DEF Own
<1> QED
  BY <1>4, <1>6, AloneInv

(* The thread goes on.                                                     *)
LEMMA ResumeOne ==
  ASSUME OneDiskInv, NEW t \in Threads, Resume(t), UNCHANGED diskVars
  PROVE  SlockFacts' /\ SleepFacts'
<1>0. /\ DiskTypes /\ t \in Actors /\ op[t] = "P_sleep" /\ DiskInv
  BY Basics DEF OneDiskInv, DiskInv, Resume
<1>1. PICK s \in Semaphores : s = rsem[t] /\ pc[t] = "waiting"
  BY <1>0, InsideP
<1>2. /\ sem' = [sem EXCEPT ![t] = NONE] /\ op' = [op EXCEPT ![t] = "out"]
      /\ UNCHANGED <<request_queue, request_served, hpc, hdisk, slock, waiters, rsem, pc, disk>>
  BY <1>1 DEF Resume, semaphore_table, diskVars, device, submit, handling
<1>3. Alone(t, s)
  BY <1>0, <1>2 DEF Alone, DiskTypes
<1>4. op'[t] = "out"
  BY <1>0, <1>2 DEF DiskTypes
<1>5. Own(t)
  BY <1>1, <1>2, <1>4 DEF Own, Holds, Apart, InQueue
<1> QED
  BY <1>3, <1>5, AloneInv

(* A step of the device or of a handler outside semaphore_V, which takes   *)
(* no request away.                                                        *)
LEMMA QuietOne ==
  ASSUME OneDiskInv, UNCHANGED <<op, sem, slock, waiters, pc, rsem, disk>>,
         \A e \in Disks : \A u \in Pending(e) : u \in Pending(e)',
         \A h \in Handlers : hpc[h] = "next" /\ op[h] = "V_wake" =>
           /\ hpc'[h] = "next" /\ hdisk'[h] = hdisk[h]
           /\ request_served'[hdisk[h]] = request_served[hdisk[h]]
  PROVE  SlockFacts' /\ SleepFacts'
<1>0. SlockFacts /\ SleepFacts /\ DiskTypes
  BY DEF OneDiskInv, DiskInv
<1>1. SlockFacts'
  BY <1>0 DEF SlockFacts
<1>2. \A u \in Threads : InQueue(u)' <=> InQueue(u)
  BY DEF InQueue
<1>3. \A u \in Threads : Signalling(u) => Signalling(u)'
  BY DEF Signalling
<1>4. SleepFacts'
  <2> SUFFICES ASSUME NEW u \in Threads, InQueue(u)'
               PROVE  (u \in Pending(disk[u]) \/ Signalling(u))'
    BY DEF SleepFacts
  <2>1. u \in Pending(disk[u]) \/ Signalling(u)
    BY <1>0, <1>2 DEF SleepFacts
  <2>2. disk[u] \in Disks /\ disk' = disk
    BY <1>0 DEF DiskTypes
  <2> QED
    BY <1>3, <2>1, <2>2
<1> QED
  BY <1>1, <1>4

(* The device finishes its command.                                        *)
LEMMA CompleteOne ==
  ASSUME OneDiskInv, NEW d \in Disks, Complete(d)
  PROVE  SlockFacts' /\ SleepFacts'
<1>1. UNCHANGED <<op, sem, slock, waiters, pc, rsem, disk, request_queue, request_served, hpc,
                  hdisk>>
  BY DEF Complete, vars, semaphore_table, submit, handling
<1>2. \A e : Pending(e)' = Pending(e)
  BY <1>1, SMTT(30) DEF Pending
<1>3. \A e \in Disks : \A u \in Pending(e) : u \in Pending(e)'
  BY <1>2
<1> QED
  BY <1>1, <1>3, QuietOne

(* The interrupt is taken by a processor, which looks at the disk.         *)
LEMMA InterruptOne ==
  ASSUME OneDiskInv, NEW h \in Handlers, NEW d \in Disks, Interrupt(h, d) \/ HandlerLock(h)
  PROVE  SlockFacts' /\ SleepFacts'
<1>0. DiskTypes
  BY DEF OneDiskInv, DiskInv
<1>1. UNCHANGED <<op, sem, slock, waiters, pc, rsem, disk, request_queue, request_served>>
  <2>1. CASE Interrupt(h, d)
    BY <2>1 DEF Interrupt, vars, semaphore_table, device, submit
  <2>2. CASE HandlerLock(h)
    BY <2>2 DEF HandlerLock, vars, semaphore_table
  <2> QED
    BY <2>1, <2>2
<1>2. \A g \in Handlers : /\ hpc'[g] = "next" <=> hpc[g] = "next"
                          /\ hpc[g] = "next" => hdisk'[g] = hdisk[g]
  <2>1. CASE Interrupt(h, d)
    BY <1>0, <2>1 DEF Interrupt, DiskTypes
  <2>2. CASE HandlerLock(h)
    <3>1. /\ hpc[h] = "lock" /\ UNCHANGED hdisk
          /\ hpc' = [hpc EXCEPT ![h] = "V"] \/ hpc' = [hpc EXCEPT ![h] = "none"]
      BY <2>2 DEF HandlerLock
    <3> QED
      BY <1>0, <3>1 DEF DiskTypes
  <2> QED
    BY <2>1, <2>2
<1>3. ASSUME NEW e \in Disks, NEW u \in Pending(e)
      PROVE  u \in Pending(e)'
  <2>1. Unsignalled(e)' <=> Unsignalled(e)
    BY <1>1, <1>2 DEF Unsignalled
  <2>2. Elements(request_queue'[e]) = Elements(request_queue[e])
    BY <1>1
  <2>3. Pending(e)' = Pending(e)
    BY <1>1, <2>1, <2>2 DEF Pending, Unsignalled, Elements
  <2> QED
    BY <1>3, <2>3
<1> QED
  BY <1>1, <1>2, <1>3, QuietOne

(* The handler starts the next request.                                    *)
LEMMA HandlerNextOne ==
  ASSUME OneDiskInv, NEW h \in Handlers, HandlerNext(h)
  PROVE  SlockFacts' /\ SleepFacts'
<1>0. DiskTypes /\ hpc[h] = "next" /\ op[h] = "out" /\ DiskInv
  BY DEF OneDiskInv, DiskInv, HandlerNext
<1>1. PICK d \in Disks : d = hdisk[h]
  BY <1>0, ServedThread
<1>2. /\ hpc' = [hpc EXCEPT ![h] = "none"]
      /\ UNCHANGED <<op, sem, slock, waiters, pc, rsem, disk, hdisk>>
  BY DEF HandlerNext, vars, semaphore_table, submit
<1>3. \A e \in Disks : e # d => request_served'[e] = request_served[e]
  <2>1. disk_next_request(d, request_queue[d])
    BY <1>1 DEF HandlerNext
  <2>2. \/ request_served' = [request_served EXCEPT ![d] = none]
        \/ request_served' = [request_served EXCEPT ![d] = request_queue[d][1]]
    BY <2>1 DEF disk_next_request
  <2> QED
    BY <1>0, <2>2 DEF DiskTypes
<1>4. ASSUME NEW g \in Handlers, hpc[g] = "next", op[g] = "V_wake"
      PROVE  /\ hpc'[g] = "next" /\ hdisk'[g] = hdisk[g]
             /\ request_served'[hdisk[g]] = request_served[hdisk[g]]
  <2>1. g # h /\ hdisk[g] \in Disks
    BY <1>0, <1>4, ServedThread
  <2>2. hdisk[g] # d
    BY <1>0, <1>1, <1>4, <2>1, OneHandler
  <2> QED
    BY <1>0, <1>2, <1>3, <1>4, <2>1, <2>2 DEF DiskTypes
<1>5. \A e \in Disks : Pending(e)' = Pending(e)
  BY <1>0, HandlerNextInv
<1>6. \A e \in Disks : \A u \in Pending(e) : u \in Pending(e)'
  BY <1>5
<1> QED
  BY <1>2, <1>4, <1>6, QuietOne

(* A request is put in the queue only while no handler is in semaphore_V:  *)
(* the handler holds the lock of the only disk.                            *)
LEMMA EnqueueOne ==
  ASSUME OneDisk, OneDiskInv, NEW t \in Threads, Enqueue(t)
  PROVE  SlockFacts' /\ SleepFacts'
<1>0. /\ DiskTypes /\ HandlerFacts /\ SlockFacts /\ SleepFacts /\ pc[t] = "enqueue" /\ DiskInv
  BY DEF OneDiskInv, DiskInv, Enqueue
<1>1. PICK d \in Disks : d = disk[t] /\ dlock[d] = none
  BY <1>0 DEF DiskTypes, Enqueue
<1>2. \A h \in Handlers : op[h] = "out"
  <2> SUFFICES ASSUME NEW h \in Handlers, op[h] # "out" PROVE FALSE
    OBVIOUS
  <2>1. dlock[hdisk[h]] = h
    BY <1>0 DEF HandlerFacts
  <2>2. hdisk[h] = d
    BY <1>0, ServedThread DEF OneDisk
  <2> QED
    BY <1>1, <2>1, <2>2, Basics
<1>3. /\ pc' = [pc EXCEPT ![t] = "wait"]
      /\ UNCHANGED <<slock, waiters, op, sem, disk, rsem>>
  BY DEF Enqueue, vars, semaphore_table
<1>4. SlockFacts'
  BY <1>0, <1>2, <1>3 DEF SlockFacts
<1>5. ASSUME NEW u \in Threads, InQueue(u)'
      PROVE  (u \in Pending(disk[u]) \/ Signalling(u))'
  <2>1. u # t
    BY <1>0, <1>3, <1>5 DEF InQueue, DiskTypes
  <2>2. pc'[u] = pc[u]
    BY <1>0, <1>3, <2>1 DEF DiskTypes
  <2>3. InQueue(u)
    BY <1>3, <1>5, <2>2 DEF InQueue
  <2>4. ~Signalling(u)
    BY <1>2 DEF Signalling
  <2>5. u \in Pending(disk[u]) /\ disk[u] \in Disks
    BY <1>0, <2>3, <2>4 DEF SleepFacts, DiskTypes
  <2>6. \A e \in Disks : u \in Pending(e) => u \in Pending(e)'
    BY <1>0, EnqueueInv
  <2> QED
    BY <1>3, <2>5, <2>6
<1>6. SleepFacts'
  BY <1>5 DEF SleepFacts
<1> QED
  BY <1>4, <1>6

(* A sleeping thread whose semaphore is raised is about to be woken. *)
LEMMA HandlerVOne ==
  ASSUME OneDiskInv, NEW h \in Handlers, HandlerV(h)
  PROVE  SlockFacts' /\ SleepFacts'
<1>0. /\ DiskTypes /\ ThreadFacts /\ HandlerFacts /\ SlockFacts /\ SleepFacts /\ DiskInv
      /\ hpc[h] = "V" /\ h \in Actors
  BY Basics DEF OneDiskInv, DiskInv, HandlerV
<1>1. PICK d \in Disks, v \in Threads, s \in Semaphores : Raises(h, d, v, s)
  BY <1>0, HandlerVEffect
<1>2. /\ d = hdisk[h] /\ v = request_served[d] /\ s = rsem[v] /\ creator[s] = v
      /\ slock[s] = "nobody" /\ hpc' = [hpc EXCEPT ![h] = "next"]
      /\ UNCHANGED <<waiters, request_served, pc, disk, rsem, hdisk>>
  BY <1>1 DEF Raises
<1>3. \/ pc[v] = "wait" /\ UNCHANGED <<slock, op, sem>>
      \/ /\ InQueue(v) /\ slock' = [slock EXCEPT ![s] = h]
         /\ op' = [op EXCEPT ![h] = "V_wake"] /\ sem' = [sem EXCEPT ![h] = s]
  BY <1>1 DEF Raises
<1>4. /\ hpc'[h] = "next" /\ \A g \in Handlers : g # h => hpc'[g] = hpc[g]
      /\ \A a \in Actors : a # h => op'[a] = op[a] /\ sem'[a] = sem[a]
  BY <1>0, <1>2, <1>3 DEF DiskTypes
<1>5. /\ \A t \in Threads : op'[t] = op[t]
      /\ \A g \in Handlers : g # h => op'[g] = op[g] /\ sem'[g] = sem[g]
  BY <1>4, Basics
<1>6. SlockFacts'
  <2>1. CASE UNCHANGED <<slock, op, sem>>
    BY <1>0, <1>2, <2>1 DEF SlockFacts
  <2>2. CASE /\ InQueue(v) /\ slock' = [slock EXCEPT ![s] = h]
             /\ op' = [op EXCEPT ![h] = "V_wake"] /\ sem' = [sem EXCEPT ![h] = s]
    <3>1. /\ slock'[s] = h /\ sem'[h] = s /\ op'[h] = "V_wake"
          /\ \A r \in Semaphores : r # s => slock'[r] = slock[r]
      BY <1>0, <2>2 DEF DiskTypes
    <3>2. ASSUME NEW u \in Threads
          PROVE  Holds(u)'
      <4>1. Holds(u)
        BY <1>0, SlockIs
      <4>2. op[u] \in {"P_add", "P_release"} => rsem[u] \in Semaphores
        BY <1>0, InsideP
      <4>3. op[u] \in {"P_add", "P_release"} => rsem[u] # s
        BY <1>2, <4>1, Basics DEF Holds, none
      <4> QED
        BY <1>2, <1>5, <3>1, <4>1, <4>2, <4>3 DEF Holds
    <3>3. ASSUME NEW g \in Handlers
          PROVE  Wakes(g)'
      <4>1. CASE g = h
        BY <3>1, <4>1 DEF Wakes
      <4>2. CASE g # h
        <5>1. Wakes(g)
          BY <1>0, SlockIs
        <5>2. op[g] = "V_wake" => sem[g] \in Semaphores /\ sem[g] # s
          <6>1. op[g] = "V_wake" => sem[g] \in Semaphores
            BY <1>0 DEF HandlerFacts
          <6>2. g # "nobody"
            BY Basics DEF none
          <6> QED
            BY <1>2, <5>1, <6>1, <6>2 DEF Wakes
        <5> QED
          BY <1>5, <3>1, <4>2, <5>1, <5>2 DEF Wakes
      <4> QED
        BY <4>1, <4>2
    <3>4. ASSUME NEW g \in Handlers, NEW u \in Threads
          PROVE  Apart(g, u)'
      <4>1. CASE g = h
        <5>1. rsem[u] = s => u = v
          <6>1. pc[u] \in {"idle", "create", "enqueue", "wait", "waiting"}
            BY <1>0 DEF DiskTypes
          <6>2. ThreadFact(u) /\ NONE \notin Semaphores
            BY <1>0, Basics DEF ThreadFacts
          <6>3. rsem[u] \in Semaphores => creator[rsem[u]] = u
            BY <6>1, <6>2 DEF ThreadFact
          <6> QED
            BY <1>2, <6>3
        <5>2. op[v] = "P_sleep" /\ pc[v] = "waiting"
          <6>1. Holds(v)
            BY <1>0, SlockIs
          <6> QED
            BY <1>2, <2>2, <6>1, Basics DEF Holds, InQueue, none
        <5> QED
          BY <1>2, <1>5, <3>1, <4>1, <5>1, <5>2 DEF Apart
      <4>2. CASE g # h
        <5>1. Apart(g, u)
          BY <1>0, SlockIs
        <5> QED
          BY <1>2, <1>5, <4>2, <5>1 DEF Apart
      <4> QED
        BY <4>1, <4>2
    <3> QED
      BY <3>2, <3>3, <3>4 DEF SlockFacts, Holds, Wakes, Apart
  <2> QED
    BY <1>3, <2>1, <2>2
<1>7. ASSUME NEW u \in Threads, InQueue(u)'
      PROVE  (u \in Pending(disk[u]) \/ Signalling(u))'
  <2>1. InQueue(u)
    BY <1>2, <1>5, <1>7 DEF InQueue
  <2>2. CASE u = v
    <3>1. op'[h] = "V_wake"
      BY <1>0, <1>3, <2>1, <2>2 DEF InQueue, DiskTypes
    <3> QED
      BY <1>2, <1>4, <2>2, <3>1 DEF Signalling
  <2>3. CASE u # v /\ u \in Pending(disk[u])
    <3>1. disk[u] \in Disks
      BY <1>0 DEF DiskTypes
    <3>2. \A e \in Disks : u \in Pending(e) => u \in Pending(e)' \/ u = request_served[hdisk[h]]
      BY <1>0, HandlerVInv
    <3> QED
      BY <1>2, <2>3, <3>1, <3>2
  <2>4. CASE Signalling(u)
    <3>1. PICK g \in Handlers : /\ hpc[g] = "next" /\ op[g] = "V_wake"
                                /\ request_served[hdisk[g]] = u
      BY <2>4 DEF Signalling
    <3>2. g # h
      BY <1>0, <3>1
    <3> QED
      BY <1>2, <1>4, <1>5, <3>1, <3>2 DEF Signalling
  <2> QED
    BY <1>0, <2>1, <2>2, <2>3, <2>4 DEF SleepFacts
<1>8. SleepFacts'
  BY <1>7 DEF SleepFacts
<1> QED
  BY <1>6, <1>8

(* The thread whose semaphore is raised has left sleepq_add behind: the    *)
(* wake finds it.                                                          *)
LEMMA SleepqWakeOne ==
  ASSUME OneDiskInv, NEW h \in Handlers, SleepqWake(h), UNCHANGED diskVars
  PROVE  SlockFacts' /\ SleepFacts'
<1>0. /\ DiskTypes /\ ThreadFacts /\ SlockFacts /\ SleepFacts /\ DiskInv
      /\ op[h] = "V_wake" /\ h \in Actors
  BY Basics DEF OneDiskInv, DiskInv, SleepqWake
<1>1. PICK d \in Disks, v \in Threads, s \in Semaphores : Wakens(h, d, v, s)
  BY <1>0, SleepqWakeEffect
<1>2. /\ d = hdisk[h] /\ v = request_served[d] /\ InQueue(v) /\ rsem[v] = sem[h]
      /\ s = rsem[v] /\ creator[s] = v
      /\ op' = [op EXCEPT ![h] = "V_release"] /\ waiters' = [waiters EXCEPT ![s] = <<>>]
      /\ UNCHANGED <<slock, sem, request_queue, request_served, pc, disk, rsem, hpc, hdisk>>
  BY <1>1 DEF Wakens
<1>3. /\ op'[h] = "V_release" /\ waiters'[s] = <<>>
      /\ \A a \in Actors : a # h => op'[a] = op[a]
      /\ \A r \in Semaphores : r # s => waiters'[r] = waiters[r]
  BY <1>0, <1>2 DEF DiskTypes
<1>4. /\ \A t \in Threads : op'[t] = op[t]
      /\ \A g \in Handlers : g # h => op'[g] = op[g]
  BY <1>3, Basics
<1>5. SlockFacts'
  <2>1. \A g \in Handlers : /\ op'[g] = "V_wake" => op[g] = "V_wake"
                            /\ op'[g] # "out" => op[g] # "out"
    BY <1>0, <1>3, <1>4
  <2>2. UNCHANGED <<slock, sem, pc, rsem>>
    BY <1>2
  <2> QED
    BY <1>0, <1>4, <2>1, <2>2 DEF SlockFacts
<1>6. ASSUME NEW u \in Threads, InQueue(u)'
      PROVE  (u \in Pending(disk[u]) \/ Signalling(u))'
  <2>1. u # v
    <3> SUFFICES ASSUME u = v PROVE FALSE
      OBVIOUS
    <3>1. op[v] # "P_add"
      BY <1>0, <1>2, NotWithP
    <3>2. waiters'[s] = <<v>>
      BY <1>2, <1>4, <1>6, <3>1 DEF InQueue
    <3>3. <<v>> # <<>>
      BY SMTT(30)
    <3> QED
      BY <1>3, <3>2, <3>3
  <2>2. pc[u] = "waiting"
    BY <1>2, <1>6 DEF InQueue
  <2>3. rsem[u] \in Semaphores /\ rsem[u] # s
    BY <1>0, <1>2, <2>1, <2>2 DEF ThreadFacts, ThreadFact
  <2>4. waiters'[rsem[u]] = waiters[rsem[u]]
    BY <1>3, <2>3
  <2>5. InQueue(u)
    BY <1>2, <1>4, <1>6, <2>4 DEF InQueue
  <2>6. \A e : Pending(e)' = Pending(e)
    BY <1>2, SMTT(30) DEF Pending
  <2>7. ASSUME Signalling(u)
        PROVE  Signalling(u)'
    <3>1. PICK g \in Handlers : /\ hpc[g] = "next" /\ op[g] = "V_wake"
                                /\ request_served[hdisk[g]] = u
      BY <2>7 DEF Signalling
    <3>2. g # h
      BY <1>2, <2>1, <3>1
    <3> QED
      BY <1>2, <1>4, <3>1, <3>2 DEF Signalling
  <2>8. u \in Pending(disk[u]) \/ Signalling(u)
    BY <1>0, <2>5 DEF SleepFacts
  <2> QED
    BY <1>2, <2>6, <2>7, <2>8
<1>7. SleepFacts'
  BY <1>6 DEF SleepFacts
<1> QED
  BY <1>5, <1>7

(* The handler releases the lock; no other handler is in semaphore_V.      *)
LEMMA ReleaseVOne ==
  ASSUME OneDisk, OneDiskInv, NEW h \in Handlers, ReleaseV(h), UNCHANGED diskVars
  PROVE  SlockFacts' /\ SleepFacts'
<1>0. /\ DiskTypes /\ HandlerFacts /\ SlockFacts /\ SleepFacts /\ DiskInv
      /\ op[h] = "V_release" /\ h \in Actors
  BY Basics DEF OneDiskInv, DiskInv, ReleaseV
<1>1. PICK s \in Semaphores : s = sem[h] /\ hpc[h] = "next"
  BY <1>0 DEF HandlerFacts
<1>2. /\ slock' = [slock EXCEPT ![s] = "nobody"] /\ op' = [op EXCEPT ![h] = "out"]
      /\ sem' = [sem EXCEPT ![h] = NONE]
      /\ UNCHANGED <<waiters, request_queue, request_served, pc, disk, rsem, hpc, hdisk>>
  BY <1>1 DEF ReleaseV, diskVars, device, submit, handling
<1>3. /\ op'[h] = "out" /\ \A a \in Actors : a # h => op'[a] = op[a] /\ sem'[a] = sem[a]
      /\ \A r \in Semaphores : r # s => slock'[r] = slock[r]
  BY <1>0, <1>2 DEF DiskTypes
<1>4. /\ \A t \in Threads : op'[t] = op[t]
      /\ \A g \in Handlers : g # h => op'[g] = op[g] /\ sem'[g] = sem[g]
  BY <1>3, Basics
<1>5. \A g \in Handlers : op[g] # "V_wake"
  <2> SUFFICES ASSUME NEW g \in Handlers, op[g] = "V_wake" PROVE FALSE
    OBVIOUS
  <2>1. hpc[g] = "next"
    BY <1>0 DEF HandlerFacts
  <2>2. hdisk[g] = hdisk[h]
    BY <1>0, ServedThread DEF OneDisk
  <2>3. g = h
    BY <1>0, <1>1, <2>1, <2>2, OneHandler
  <2> QED
    BY <1>0, <2>3
<1>6. SlockFacts'
  <2>1. ASSUME NEW u \in Threads
        PROVE  Holds(u)'
    <3>1. Holds(u)
      BY <1>0, SlockIs
    <3>2. op[u] \in {"P_add", "P_release"} => rsem[u] \in Semaphores
      BY <1>0, InsideP
    <3>3. op[u] \in {"P_add", "P_release"} => rsem[u] # s
      BY <1>0, <1>1, NotWithP
    <3> QED
      BY <1>2, <1>3, <1>4, <3>1, <3>2, <3>3 DEF Holds
  <2>2. ASSUME NEW g \in Handlers
        PROVE  Wakes(g)'
    BY <1>3, <1>4, <1>5 DEF Wakes
  <2>3. ASSUME NEW g \in Handlers, NEW u \in Threads
        PROVE  Apart(g, u)'
    <3>1. CASE g = h
      BY <1>3, <3>1 DEF Apart
    <3>2. CASE g # h
      <4>1. Apart(g, u)
        BY <1>0, SlockIs
      <4> QED
        BY <1>2, <1>4, <3>2, <4>1 DEF Apart
    <3> QED
      BY <3>1, <3>2
  <2> QED
    BY <2>1, <2>2, <2>3 DEF SlockFacts, Holds, Wakes, Apart
<1>7. SleepFacts'
  <2> SUFFICES ASSUME NEW u \in Threads, InQueue(u)'
               PROVE  (u \in Pending(disk[u]) \/ Signalling(u))'
    BY DEF SleepFacts
  <2>1. InQueue(u)
    BY <1>2, <1>4 DEF InQueue
  <2>2. ~Signalling(u)
    BY <1>5 DEF Signalling
  <2>3. u \in Pending(disk[u])
    BY <1>0, <2>1, <2>2 DEF SleepFacts
  <2>4. \A e : Pending(e)' = Pending(e)
    BY <1>2, SMTT(30) DEF Pending
  <2> QED
    BY <1>2, <2>3, <2>4
<1> QED
  BY <1>6, <1>7

(* At boot nobody is in a call.                                            *)
LEMMA OneDiskInitInv == DiskInit => OneDiskInv
<1> SUFFICES ASSUME DiskInit PROVE OneDiskInv
  OBVIOUS
<1>1. /\ \A t \in Threads : pc[t] = "idle"
      /\ \A a \in Actors : op[a] = "out"
  BY DEF DiskInit, Init
<1>2. \A a \in Threads \cup Handlers : op[a] = "out"
  BY <1>1, Basics
<1>3. SlockFacts
  BY <1>2 DEF SlockFacts
<1>4. SleepFacts
  BY <1>1 DEF SleepFacts, InQueue
<1> QED
  BY <1>3, <1>4, DiskInitInv DEF OneDiskInv

(* Every step of the driver with one disk keeps the invariant.             *)
LEMMA OneDiskNextInv == OneDisk /\ OneDiskInv /\ [DiskNext]_allVars => OneDiskInv'
<1> SUFFICES ASSUME OneDisk, OneDiskInv, [DiskNext]_allVars PROVE OneDiskInv'
  OBVIOUS
<1>0. DiskInv /\ DiskInv'
  BY DiskNextInv DEF OneDiskInv
<1>1. ASSUME NEW t \in Threads, Submitter(t)
      PROVE  SlockFacts' /\ SleepFacts'
  BY <1>1, CreatedOne, EnqueueOne, WaitOne, ReturnOne DEF Submitter
<1>2. ASSUME NEW t \in Threads, Inside(t)
      PROVE  SlockFacts' /\ SleepFacts'
  BY <1>0, <1>2, InsideSteps, SleepqAddOne, ReleasePOne, ResumeOne DEF Inside
<1>3. ASSUME NEW t \in Threads, NEW d \in Disks, disk_submit_request(t, d)
      PROVE  SlockFacts' /\ SleepFacts'
  BY <1>3, SubmitOne
<1>4. ASSUME NEW h \in Handlers, Handler(h)
      PROVE  SlockFacts' /\ SleepFacts'
  <2>1. hdisk[h] \in Disks
    BY <1>0 DEF DiskInv, DiskTypes
  <2> QED
    BY <1>4, <2>1, InterruptOne, HandlerVOne, HandlerNextOne DEF Handler
<1>5. ASSUME NEW h \in Handlers, Inside(h)
      PROVE  SlockFacts' /\ SleepFacts'
  BY <1>0, <1>5, InsideSteps, SleepqWakeOne, ReleaseVOne DEF Inside
<1>6. ASSUME NEW h \in Handlers, NEW d \in Disks, Interrupt(h, d)
      PROVE  SlockFacts' /\ SleepFacts'
  BY <1>6, InterruptOne
<1>7. ASSUME NEW d \in Disks, Complete(d)
      PROVE  SlockFacts' /\ SleepFacts'
  BY <1>7, CompleteOne
<1>8. ASSUME UNCHANGED allVars
      PROVE  SlockFacts' /\ SleepFacts'
  <2>1. UNCHANGED <<op, sem, slock, waiters, pc, rsem, disk, request_queue, request_served,
                    hpc, hdisk>>
    BY <1>8 DEF allVars, vars, semaphore_table, diskVars, device, submit, handling
  <2>2. \A e : Pending(e)' = Pending(e)
    BY <2>1, SMTT(30) DEF Pending
  <2>3. \A e \in Disks : \A u \in Pending(e) : u \in Pending(e)'
    BY <2>2
  <2> QED
    BY <2>1, <2>3, QuietOne
<1>9. SlockFacts' /\ SleepFacts'
  BY <1>1, <1>2, <1>3, <1>4, <1>5, <1>6, <1>7, <1>8 DEF DiskNext
<1> QED
  BY <1>0, <1>9 DEF OneDiskInv

(* With one disk no wake-up is lost: a thread asleep in                    *)
(* disk_submit_request has a request that the handler still has to signal, *)
(* or is just signalling.                                                  *)
THEOREM SleepersArePending ==
  ASSUME OneDisk
  PROVE  DiskSpec => []SleepersPending
<1>2. OneDiskInv => SleepersPending
  <2> SUFFICES ASSUME OneDiskInv, NEW t \in Threads, op[t] = "P_sleep", Waits(t)
               PROVE  t \in Pending(disk[t]) \/ Signalling(t)
    BY DEF SleepersPending
  <2>0. DiskInv /\ ThreadFacts /\ QueueFacts /\ SleepFacts
    BY DEF OneDiskInv, DiskInv
  <2>1. PICK s \in Semaphores : s = rsem[t] /\ s = sem[t] /\ creator[s] = t /\ pc[t] = "waiting"
    BY <2>0, InsideP
  <2>2. waiters[s] # <<>>
    <3>1. PICK i \in 1 .. Len(waiters[s]) : waiters[s][i] = t
      BY <2>1 DEF Waits
    <3> QED
      BY <3>1, SMTT(30)
  <2>3. PICK u \in Threads : waiters[s] = <<u>> /\ pc[u] = "waiting" /\ rsem[u] = s
    BY <2>0, <2>2 DEF QueueFacts, QueueFact
  <2>4. u = t
    BY <2>0, <2>1, <2>3 DEF ThreadFacts, ThreadFact
  <2>5. InQueue(t)
    BY <2>1, <2>3, <2>4 DEF InQueue
  <2> QED
    BY <2>0, <2>5 DEF SleepFacts
<1>3. OneDiskInv /\ [DiskNext]_allVars => OneDiskInv'
  BY OneDiskNextInv
<1> QED
  BY <1>2, <1>3, OneDiskInitInv, PTL DEF DiskSpec
=============================================================================
