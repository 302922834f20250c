------------------------- MODULE CountingSemaphore -------------------------
(***************************************************************************)
(* What the semaphores of kernel/semaphore.c promise: a semaphore is a     *)
(* number of free permits and a queue of waiting threads, never both.  A P *)
(* takes a free permit or joins the queue; a V hands its permit to the     *)
(* thread that has waited longest, or adds it to the free ones.            *)
(***************************************************************************)
EXTENDS Naturals, Sequences

CONSTANTS Semaphores, Threads,
  Values    \* the numbers of permits a semaphore may be created with

VARIABLES
  free,    \* free permits of each semaphore
  queue    \* its waiting threads, longest waiting first

Init ==
  /\ free = [s \in Semaphores |-> 0]
  /\ queue = [s \in Semaphores |-> << >>]

Open(s, n) ==
  /\ Len(queue[s]) = 0
  /\ free' = [free EXCEPT ![s] = n]
  /\ UNCHANGED queue

Take(s) ==
  /\ free[s] > 0
  /\ free' = [free EXCEPT ![s] = @ - 1]
  /\ UNCHANGED queue

Join(s, t) ==
  /\ free[s] = 0
  /\ queue' = [queue EXCEPT ![s] = Append(@, t)]
  /\ UNCHANGED free

Give(s) ==
  /\ Len(queue[s]) = 0
  /\ free' = [free EXCEPT ![s] = @ + 1]
  /\ UNCHANGED queue

HandOver(s) ==
  /\ Len(queue[s]) > 0
  /\ queue' = [queue EXCEPT ![s] = Tail(@)]
  /\ UNCHANGED free

Next ==
  \E s \in Semaphores :
    \/ \E n \in Values : Open(s, n)
    \/ Take(s) \/ Give(s) \/ HandOver(s)
    \/ \E t \in Threads : Join(s, t)

Spec == Init /\ [][Next]_<<free, queue>>
=============================================================================
