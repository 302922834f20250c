-------------------------------- MODULE Disk --------------------------------
(***************************************************************************)
(* The disk driver of the KUDOS kernel (drivers/mips32/disk.c with         *)
(* drivers/disksched.c) over the semaphores of module Semaphore: threads   *)
(* submit synchronous requests and sleep, the interrupt handler, running   *)
(* on any processor, wakes them.                                           *)
(*                                                                         *)
(* A request lives on the stack of the thread that submits it, so requests *)
(* are named by their threads.  Calls of semaphore_create, _P, _V and      *)
(* _destroy are the actions of module Semaphore, taken together with the   *)
(* step of the driver that makes the call; the steps inside P and V then   *)
(* interleave with everything else.                                        *)
(*                                                                         *)
(* A thread destroys its semaphore when it is woken, although the handler  *)
(* has still to release the lock in it.  With one disk that handler also   *)
(* holds the lock of the disk, so nobody uses the semaphore's next life    *)
(* before it is through, and the lock of a semaphore excludes as module    *)
(* Semaphore needs it (SlockFacts in DiskProofs).  With more disks it does *)
(* not: the run with two shows one behaviour that follows, and nothing is  *)
(* claimed for all of them.                                                *)
(***************************************************************************)
EXTENDS Semaphore

CONSTANT Disks

VARIABLES
  request_queue, request_served, dlock,  \* disk_real_device_t of each disk
  busy, irq,                   \* its status register
  pc, disk, rsem, return_value,  \* each thread in disk_submit_request
  hpc, hdisk,                  \* each handler in disk_interrupt_handle
  transferred                  \* history: the hardware has done the request

device == <<request_queue, request_served, dlock, busy, irq>>
submit == <<pc, disk, rsem, return_value>>
handling == <<hpc, hdisk>>
diskVars == <<device, submit, handling, transferred>>

none == "nobody"

DiskInit ==
  /\ Init
  /\ request_queue = [d \in Disks |-> <<>>]
  /\ request_served = [d \in Disks |-> none]
  /\ dlock = [d \in Disks |-> none]
  /\ busy = [d \in Disks |-> FALSE]
  /\ irq = [d \in Disks |-> FALSE]
  /\ pc = [t \in Threads |-> "idle"]
  /\ disk \in [Threads -> Disks]
  /\ rsem = [t \in Threads |-> NONE]
  /\ return_value = [t \in Threads |-> -1]
  /\ hpc = [h \in Handlers |-> "none"]
  /\ hdisk \in [Handlers -> Disks]
  /\ transferred = [t \in Threads |-> FALSE]

-----------------------------------------------------------------------------
(* Mutant: the head of the queue is served but stays in the queue.         *)
NextRequestKeepsHead(d, q) ==
  IF Len(q) = 0
    THEN /\ request_queue' = [request_queue EXCEPT ![d] = q]
         /\ request_served' = [request_served EXCEPT ![d] = none]
         /\ UNCHANGED busy
    ELSE /\ request_queue' = [request_queue EXCEPT ![d] = q]
         /\ request_served' = [request_served EXCEPT ![d] = q[1]]
         /\ busy' = [busy EXCEPT ![d] = TRUE]

(* disk_next_request on disk d with queue q: the first request, if any,    *)
(* becomes the served one and its command is written to the device.        *)
disk_next_request(d, q) ==
  IF Len(q) = 0
    THEN /\ request_queue' = [request_queue EXCEPT ![d] = q]
         /\ request_served' = [request_served EXCEPT ![d] = none]
         /\ UNCHANGED busy
    ELSE /\ request_queue' = [request_queue EXCEPT ![d] = Tail(q)]
         /\ request_served' = [request_served EXCEPT ![d] = q[1]]
         /\ busy' = [busy EXCEPT ![d] = TRUE]

(* disk_submit_request, synchronous: it creates a semaphore (and returns 0 *)
(* if there is none), ...                                                  *)
disk_submit_request(t, d) ==
  /\ pc[t] = "idle"
  /\ semaphore_create(t)
  /\ disk' = [disk EXCEPT ![t] = d]
  /\ return_value' = [return_value EXCEPT ![t] = -1]
  /\ transferred' = [transferred EXCEPT ![t] = FALSE]
  /\ pc' = [pc EXCEPT ![t] = "create"]
  /\ UNCHANGED <<device, rsem, handling>>

(* Mutant: the semaphore is created with the value 1.                      *)
CreatedOpen(t) ==
  /\ pc[t] = "create"
  /\ SetValue(t, 1)
  /\ rsem' = [rsem EXCEPT ![t] = sem[t]]
  /\ pc' = [pc EXCEPT ![t] = "enqueue"]
  /\ UNCHANGED <<device, disk, return_value, handling, transferred>>

Created(t) ==
  /\ pc[t] = "create"
  /\ SetValue(t, 0)
  /\ rsem' = [rsem EXCEPT ![t] = sem[t]]
  /\ pc' = [pc EXCEPT ![t] = "enqueue"]
  /\ UNCHANGED <<device, disk, return_value, handling, transferred>>

(* Mutants: every request is started at once; a request is only queued,    *)
(* even when the disk is idle.                                             *)
EnqueueStart(t) ==
  LET d == disk[t] IN
  /\ pc[t] = "enqueue" /\ dlock[d] = none
  /\ disk_next_request(d, Append(request_queue[d], t))
  /\ pc' = [pc EXCEPT ![t] = "wait"]
  /\ UNCHANGED <<vars, dlock, irq, disk, rsem, return_value, handling,
                 transferred>>
EnqueueOnly(t) ==
  LET d == disk[t] IN
  /\ pc[t] = "enqueue" /\ dlock[d] = none
  /\ request_queue' = [request_queue EXCEPT ![d] = Append(@, t)]
  /\ pc' = [pc EXCEPT ![t] = "wait"]
  /\ UNCHANGED <<vars, request_served, busy, dlock, irq, disk, rsem,
                 return_value, handling, transferred>>

(* ... under the lock of the disk appends the request (disksched_schedule) *)
(* and starts it if the disk is idle, ...                                  *)
Enqueue(t) ==
  LET d == disk[t]
      q == Append(request_queue[d], t)
  IN /\ pc[t] = "enqueue" /\ dlock[d] = none
     /\ IF request_served[d] = none
          THEN disk_next_request(d, q)
          ELSE /\ request_queue' = [request_queue EXCEPT ![d] = q]
               /\ UNCHANGED <<request_served, busy>>
     /\ pc' = [pc EXCEPT ![t] = "wait"]
     /\ UNCHANGED <<vars, dlock, irq, disk, rsem, return_value, handling,
                    transferred>>

(* ... waits for the handler, ...                                          *)
Wait(t) ==
  /\ pc[t] = "wait"
  /\ semaphore_P(t, rsem[t])
  /\ pc' = [pc EXCEPT ![t] = "waiting"]
  /\ UNCHANGED <<device, disk, rsem, return_value, handling, transferred>>

(* ... destroys the semaphore and returns.                                 *)
Return(t) ==
  /\ pc[t] = "waiting"
  /\ semaphore_destroy(t, rsem[t])
  /\ rsem' = [rsem EXCEPT ![t] = NONE]
  /\ pc' = [pc EXCEPT ![t] = "idle"]
  /\ UNCHANGED <<device, disk, return_value, handling, transferred>>

-----------------------------------------------------------------------------
(* The device finishes its command and raises its interrupt (external).    *)
Complete(d) ==
  /\ busy[d]
  /\ busy' = [busy EXCEPT ![d] = FALSE]
  /\ irq' = [irq EXCEPT ![d] = TRUE]
  /\ transferred' = [transferred EXCEPT ![request_served[d]] = TRUE]
  /\ UNCHANGED <<vars, request_queue, request_served, dlock, submit, handling>>

(* disk_interrupt_handle is called on some processor, ...                  *)
Interrupt(h, d) ==
  /\ hpc[h] = "none" /\ irq[d]
  /\ hpc' = [hpc EXCEPT ![h] = "lock"]
  /\ hdisk' = [hdisk EXCEPT ![h] = d]
  /\ UNCHANGED <<vars, device, submit, transferred>>

(* ... returns if another processor has served the interrupt meanwhile, or *)
(* resets it, ...                                                          *)
HandlerLock(h) ==
  LET d == hdisk[h] IN
  /\ hpc[h] = "lock" /\ dlock[d] = none
  /\ IF irq[d]
       THEN /\ dlock' = [dlock EXCEPT ![d] = h]
            /\ irq' = [irq EXCEPT ![d] = FALSE]
            /\ return_value' = [return_value EXCEPT ![request_served[d]] = 0]
            /\ hpc' = [hpc EXCEPT ![h] = "V"]
       ELSE /\ hpc' = [hpc EXCEPT ![h] = "none"]
            /\ UNCHANGED <<dlock, irq, return_value>>
  /\ UNCHANGED <<vars, request_queue, request_served, busy, pc, disk, rsem,
                 hdisk, transferred>>

(* Mutant: the request is signalled only if its thread sleeps already.     *)
HandlerVIfAsleep(h) ==
  LET s == rsem[request_served[hdisk[h]]] IN
  /\ hpc[h] = "V"
  /\ IF value[s] < 0 THEN semaphore_V(h, s) ELSE UNCHANGED vars
  /\ hpc' = [hpc EXCEPT ![h] = "next"]
  /\ UNCHANGED <<device, submit, hdisk, transferred>>

(* ... raises the semaphore of the request, ...                            *)
HandlerV(h) ==
  /\ hpc[h] = "V"
  /\ semaphore_V(h, rsem[request_served[hdisk[h]]])
  /\ hpc' = [hpc EXCEPT ![h] = "next"]
  /\ UNCHANGED <<device, submit, hdisk, transferred>>

(* ... and starts the next request.                                        *)
HandlerNext(h) ==
  LET d == hdisk[h] IN
  /\ hpc[h] = "next" /\ op[h] = "out"
  /\ disk_next_request(d, request_queue[d])
  /\ dlock' = [dlock EXCEPT ![d] = none]
  /\ hpc' = [hpc EXCEPT ![h] = "none"]
  /\ UNCHANGED <<vars, irq, submit, hdisk, transferred>>

-----------------------------------------------------------------------------
Submitter(t) ==
  Created(t) \/ Enqueue(t) \/ Wait(t) \/ Return(t)
Handler(h) ==
  HandlerLock(h) \/ HandlerV(h) \/ HandlerNext(h)
Inside(a) == SemaphoreStep(a) /\ UNCHANGED diskVars

DiskNext ==
  \/ \E t \in Threads :
       Submitter(t) \/ Inside(t) \/ \E d \in Disks : disk_submit_request(t, d)
  \/ \E h \in Handlers :
       Handler(h) \/ Inside(h) \/ \E d \in Disks : Interrupt(h, d)
  \/ \E d \in Disks : Complete(d)

allVars == <<vars, diskVars>>

(* The device finishes what it has begun, its interrupt is taken by a      *)
(* processor, and threads and handlers inside the driver go on.            *)
DiskFairness ==
  /\ \A t \in Threads : WF_allVars(Submitter(t)) /\ WF_allVars(Inside(t))
  /\ \A h \in Handlers : WF_allVars(Handler(h)) /\ WF_allVars(Inside(h))
  /\ \A d \in Disks :
       /\ WF_allVars(Complete(d))
       /\ WF_allVars(\E h \in Handlers : Interrupt(h, d))

DiskSpec == DiskInit /\ [][DiskNext]_allVars
FairDiskSpec == DiskSpec /\ DiskFairness

-----------------------------------------------------------------------------
(* The asserts of disk_interrupt_handle and disk_next_request: the device  *)
(* works on, or reports, the served request and nothing else, and it is    *)
(* idle whenever a new command is given.                                   *)
DeviceInStep ==
  \A d \in Disks :
    /\ busy[d] \/ irq[d] =>
         /\ request_served[d] # none
         /\ \A h \in Handlers : hpc[h] \in {"V", "next"} => hdisk[h] # d
    /\ ~ (busy[d] /\ irq[d])
    /\ request_served[d] = none => Len(request_queue[d]) = 0

(* The handler works on requests that still exist: a request in the queue, *)
(* or served and not yet signalled, belongs to a thread that has not left  *)
(* disk_submit_request and whose semaphore is its own.                     *)
Pending(d) ==
  {request_queue[d][i] : i \in 1 .. Len(request_queue[d])}
    \cup (IF request_served[d] # none
             /\ \A h \in Handlers : hpc[h] = "next" => hdisk[h] # d
          THEN {request_served[d]} ELSE {})
RequestsAlive ==
  \A d \in Disks : \A t \in Pending(d) :
    /\ pc[t] \in {"wait", "waiting"} /\ disk[t] = d
    /\ rsem[t] \in Semaphores /\ creator[rsem[t]] = t

(* "Wait here until the interrupt handler has handled the request"         *)
(* (disk_submit_request): a thread asleep there has a request that the     *)
(* handler still has to signal, or is just signalling.                     *)
Signalling(t) ==
  \E h \in Handlers :
    /\ hpc[h] = "next" /\ op[h] = "V_wake"
    /\ request_served[hdisk[h]] = t
SleepersPending ==
  \A t \in Threads :
    op[t] = "P_sleep" /\ Waits(t) => t \in Pending(disk[t]) \/ Signalling(t)

(* disk_submit_request returns only after the device has done the request, *)
(* with return_value 0: it reports success and the data is there.          *)
SubmitReturnStep ==
  \A t \in Threads :
    pc[t] = "waiting" /\ pc'[t] = "idle" => transferred[t] /\ return_value[t] = 0
ReturnsWhenDone == [][SubmitReturnStep]_allVars

(* Every request put in the queue is done and its thread goes on.          *)
RequestsFinish == \A t \in Threads : pc[t] = "wait" ~> pc[t] = "idle"
=============================================================================
