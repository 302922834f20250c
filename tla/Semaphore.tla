----------------------------- MODULE Semaphore -----------------------------
(***************************************************************************)
(* The semaphores of the KUDOS kernel (kernel/semaphore.c): a table of     *)
(* semaphores that are created, lowered, raised and destroyed by threads   *)
(* and raised by interrupt handlers, on several processors.                *)
(*                                                                         *)
(* The sleep queue is taken at its interface, which module Threads         *)
(* establishes: sleepq_add puts the caller at the end of the waiters of a  *)
(* resource, sleepq_wake removes the first of them, and a thread that has  *)
(* called sleepq_add goes on only after it has been removed.               *)
(*                                                                         *)
(* A call that takes and releases sem->slock without calling anything in   *)
(* between is one step.  When it sleeps or wakes, the acquisition, the     *)
(* call of the sleep queue and the release are steps of their own, because *)
(* semaphore_create and semaphore_destroy do not take sem->slock, and a    *)
(* woken thread goes on before the waker releases it.                      *)
(*                                                                         *)
(* P and V change the value and then read it again.  These are one step    *)
(* here, which is right as long as sem->slock keeps everybody else out in  *)
(* between.  It does under the contract of Next (LockFacts, proved in      *)
(* SemaphoreProofs).  A caller that destroys a semaphore while a V on it   *)
(* is not through can have a lock released under its holder: what is shown *)
(* of module Disk, which does so, is shown where the lock excludes all the *)
(* same, or else is a behaviour, which is one of the code as well.         *)
(***************************************************************************)
EXTENDS Integers, Sequences

CONSTANTS
  MaxSemaphores,  \* CONFIG_MAX_SEMAPHORES
  Threads,
  Handlers,       \* interrupt handlers, that only ever raise semaphores
  Values,         \* initial values
  MaxPermits      \* bound: initial value and raises of one semaphore

ASSUME MaxSemaphoresAssumption == MaxSemaphores \in Nat \ {0}
ASSUME ActorsAssumption ==
  "nobody" \notin Threads \cup Handlers /\ Threads \cap Handlers = {}
ASSUME ValuesAssumption == Values \subseteq Nat
ASSUME MaxPermitsAssumption == MaxPermits \in Nat

Semaphores == 0 .. MaxSemaphores - 1
Actors == Threads \cup Handlers
NONE == -1

VARIABLES
  creator, value, slock,  \* the fields of semaphore_table
  next,                   \* static next of semaphore_create
  waiters,                \* the sleep queue: who waits for each semaphore
  op, sem,                \* where each actor is in a call, and on which one
  permits, passed         \* history: permits issued, and calls of P let through

semaphore_table == <<creator, value, slock>>
history == <<permits, passed>>
vars == <<semaphore_table, next, waiters, op, sem, history>>

(***************************************************************************)
(* An actor is                                                             *)
(*   out        not in a call                                              *)
(*   create     in semaphore_create, past the release of the table lock    *)
(*   P_add, P_release   in semaphore_P, before / after sleepq_add          *)
(*   P_sleep    in semaphore_P, in thread_switch                           *)
(*   V_wake, V_release  in semaphore_V, before / after sleepq_wake         *)
(***************************************************************************)
Ops == {"out", "create", "P_add", "P_release", "P_sleep", "V_wake",
        "V_release"}

Init ==
  /\ creator = [s \in Semaphores |-> "nobody"]
  /\ value = [s \in Semaphores |-> 0]
  /\ slock = [s \in Semaphores |-> "nobody"]
  /\ next = 0
  /\ waiters = [s \in Semaphores |-> <<>>]
  /\ op = [a \in Actors |-> "out"]
  /\ sem = [a \in Actors |-> NONE]
  /\ permits = [s \in Semaphores |-> 0]
  /\ passed = [s \in Semaphores |-> 0]

-----------------------------------------------------------------------------
Free == {s \in Semaphores : creator[s] = "nobody"}
Distance(s) == (s + MaxSemaphores - next) % MaxSemaphores

(* Mutant: next is not taken modulo the size of the table.                 *)
CreateNoWrap(a) ==
  /\ op[a] = "out"
  /\ \E s \in Free :
       /\ \A r \in Free : Distance(s) <= Distance(r)
       /\ creator' = [creator EXCEPT ![s] = a]
       /\ next' = s + 1
       /\ sem' = [sem EXCEPT ![a] = s]
  /\ op' = [op EXCEPT ![a] = "create"]
  /\ UNCHANGED <<value, slock, waiters, history>>

(* semaphore_create up to the release of the table lock.  With no free     *)
(* semaphore it returns NULL; the search has then gone round once and left *)
(* next where it was.                                                      *)
semaphore_create(a) ==
  /\ op[a] = "out"
  /\ \E s \in Free :
       /\ \A r \in Free : Distance(s) <= Distance(r)
       /\ creator' = [creator EXCEPT ![s] = a]
       /\ next' = (s + 1) % MaxSemaphores
       /\ sem' = [sem EXCEPT ![a] = s]
  /\ op' = [op EXCEPT ![a] = "create"]
  /\ UNCHANGED <<value, slock, waiters, history>>

(* The rest of semaphore_create, without any lock.                         *)
SetValue(a, v) ==
  /\ op[a] = "create"
  /\ value' = [value EXCEPT ![sem[a]] = v]
  /\ slock' = [slock EXCEPT ![sem[a]] = "nobody"]
  /\ op' = [op EXCEPT ![a] = "out"]
  /\ sem' = [sem EXCEPT ![a] = NONE]
  /\ permits' = [permits EXCEPT ![sem[a]] = v]
  /\ passed' = [passed EXCEPT ![sem[a]] = 0]
  /\ UNCHANGED <<creator, next, waiters>>

semaphore_destroy(a, s) ==
  /\ op[a] = "out"
  /\ creator' = [creator EXCEPT ![s] = "nobody"]
  /\ UNCHANGED <<value, slock, next, waiters, op, sem, history>>

-----------------------------------------------------------------------------
(* Mutant: the value is tested before it is lowered.                       *)
PTestFirst(a, s) ==
  /\ op[a] = "out" /\ slock[s] = "nobody"
  /\ value' = [value EXCEPT ![s] = @ - 1]
  /\ IF value[s] < 0
       THEN /\ slock' = [slock EXCEPT ![s] = a]
            /\ op' = [op EXCEPT ![a] = "P_add"]
            /\ sem' = [sem EXCEPT ![a] = s]
            /\ UNCHANGED passed
       ELSE /\ passed' = [passed EXCEPT ![s] = @ + 1]
            /\ UNCHANGED <<slock, op, sem>>
  /\ UNCHANGED <<creator, next, waiters, permits>>

(* semaphore_P: lower the value; done if it is not negative.               *)
semaphore_P(a, s) ==
  /\ op[a] = "out" /\ slock[s] = "nobody"
  /\ value' = [value EXCEPT ![s] = @ - 1]
  /\ IF value[s] - 1 < 0
       THEN /\ slock' = [slock EXCEPT ![s] = a]
            /\ op' = [op EXCEPT ![a] = "P_add"]
            /\ sem' = [sem EXCEPT ![a] = s]
            /\ UNCHANGED passed
       ELSE /\ passed' = [passed EXCEPT ![s] = @ + 1]
            /\ UNCHANGED <<slock, op, sem>>
  /\ UNCHANGED <<creator, next, waiters, permits>>

(* Otherwise sleepq_add, ...                                               *)
SleepqAdd(a) ==
  /\ op[a] = "P_add"
  /\ waiters' = [waiters EXCEPT ![sem[a]] = Append(@, a)]
  /\ op' = [op EXCEPT ![a] = "P_release"]
  /\ UNCHANGED <<semaphore_table, next, sem, history>>

(* ... the release of the lock, ...                                        *)
ReleaseP(a) ==
  /\ op[a] = "P_release"
  /\ slock' = [slock EXCEPT ![sem[a]] = "nobody"]
  /\ op' = [op EXCEPT ![a] = "P_sleep"]
  /\ UNCHANGED <<creator, value, next, waiters, sem, history>>

(* The thread is still in the queue. *)
Waits(a) == \E i \in 1 .. Len(waiters[sem[a]]) : waiters[sem[a]][i] = a

(* ... and the return from thread_switch, once the thread has been woken.  *)
Resume(a) ==
  /\ op[a] = "P_sleep" /\ ~ Waits(a)
  /\ op' = [op EXCEPT ![a] = "out"]
  /\ sem' = [sem EXCEPT ![a] = NONE]
  /\ UNCHANGED <<semaphore_table, next, waiters, history>>

-----------------------------------------------------------------------------
(* Mutants: a waiter is woken only if there are more of them; the lock is  *)
(* released before the wake.                                               *)
VWakeOffByOne(a, s) ==
  /\ op[a] = "out" /\ slock[s] = "nobody"
  /\ value' = [value EXCEPT ![s] = @ + 1]
  /\ permits' = [permits EXCEPT ![s] = @ + 1]
  /\ IF value[s] + 1 < 0
       THEN /\ slock' = [slock EXCEPT ![s] = a]
            /\ op' = [op EXCEPT ![a] = "V_wake"]
            /\ sem' = [sem EXCEPT ![a] = s]
       ELSE UNCHANGED <<slock, op, sem>>
  /\ UNCHANGED <<creator, next, waiters, passed>>
VUnlocked(a, s) ==
  /\ op[a] = "out" /\ slock[s] = "nobody"
  /\ value' = [value EXCEPT ![s] = @ + 1]
  /\ permits' = [permits EXCEPT ![s] = @ + 1]
  /\ IF value[s] + 1 <= 0
       THEN /\ op' = [op EXCEPT ![a] = "V_wake"]
            /\ sem' = [sem EXCEPT ![a] = s]
       ELSE UNCHANGED <<op, sem>>
  /\ UNCHANGED <<creator, slock, next, waiters, passed>>

(* semaphore_V: raise the value; done if there was no waiter.              *)
semaphore_V(a, s) ==
  /\ op[a] = "out" /\ slock[s] = "nobody"
  /\ value' = [value EXCEPT ![s] = @ + 1]
  /\ permits' = [permits EXCEPT ![s] = @ + 1]
  /\ IF value[s] + 1 <= 0
       THEN /\ slock' = [slock EXCEPT ![s] = a]
            /\ op' = [op EXCEPT ![a] = "V_wake"]
            /\ sem' = [sem EXCEPT ![a] = s]
       ELSE UNCHANGED <<slock, op, sem>>
  /\ UNCHANGED <<creator, next, waiters, passed>>

(* Mutant: the thread that came last is woken.                             *)
WakeLast(a) ==
  LET s == sem[a] IN
  /\ op[a] = "V_wake"
  /\ waiters' = [waiters EXCEPT ![s] = SubSeq(@, 1, Len(@) - 1)]
  /\ passed' = [passed EXCEPT ![s] = @ + 1]
  /\ op' = [op EXCEPT ![a] = "V_release"]
  /\ UNCHANGED <<semaphore_table, next, sem, permits>>

(* Otherwise sleepq_wake, which may find nobody, and the release.          *)
SleepqWake(a) ==
  LET s == sem[a] IN
  /\ op[a] = "V_wake"
  /\ IF Len(waiters[s]) > 0
       THEN /\ waiters' = [waiters EXCEPT ![s] = Tail(@)]
            /\ passed' = [passed EXCEPT ![s] = @ + 1]
       ELSE UNCHANGED <<waiters, passed>>
  /\ op' = [op EXCEPT ![a] = "V_release"]
  /\ UNCHANGED <<semaphore_table, next, sem, permits>>

ReleaseV(a) ==
  /\ op[a] = "V_release"
  /\ slock' = [slock EXCEPT ![sem[a]] = "nobody"]
  /\ op' = [op EXCEPT ![a] = "out"]
  /\ sem' = [sem EXCEPT ![a] = NONE]
  /\ UNCHANGED <<creator, value, next, waiters, history>>

(* What an actor does inside a call.                                       *)
SemaphoreStep(a) ==
  \/ SleepqAdd(a) \/ ReleaseP(a) \/ Resume(a) \/ SleepqWake(a) \/ ReleaseV(a)

-----------------------------------------------------------------------------
(* The callers' side of the contract: they use a semaphore only between    *)
(* the return of semaphore_create and semaphore_destroy, and destroy it    *)
(* only when nobody is in a call on it.                                    *)
Exists(s) ==
  /\ creator[s] # "nobody"
  /\ \A a \in Actors : op[a] = "create" => sem[a] # s
Unused(s) == \A a \in Actors : op[a] # "out" => sem[a] # s

Next ==
  \/ \E a \in Threads :
       \/ semaphore_create(a)
       \/ \E v \in Values : SetValue(a, v)
       \/ \E s \in Semaphores :
            \/ Exists(s) /\ semaphore_P(a, s)
            \/ Exists(s) /\ Unused(s) /\ semaphore_destroy(a, s)
  \/ \E a \in Actors :
       \/ SemaphoreStep(a)
       \/ \E s \in Semaphores :
            Exists(s) /\ permits[s] < MaxPermits /\ semaphore_V(a, s)

Spec == Init /\ [][Next]_vars

-----------------------------------------------------------------------------
(* The fields of semaphore_table hold values of their types; next stays  *)
(* an index of the table.                                                *)
TypeOK ==
  /\ creator \in [Semaphores -> Threads \cup {"nobody"}]
  /\ value \in [Semaphores -> Int]
  /\ slock \in [Semaphores -> Actors \cup {"nobody"}]
  /\ next \in Semaphores
  /\ waiters \in [Semaphores -> Seq(Threads)]
  /\ op \in [Actors -> Ops]
  /\ sem \in [Actors -> Semaphores \cup {NONE}]
  /\ permits \in [Semaphores -> Nat]
  /\ passed \in [Semaphores -> Nat]

(* The one that holds slock is at the call of the sleep queue, or after it. *)
At(s, o) == slock[s] # "nobody" /\ op[slock[s]] = o

Adding(s) == IF At(s, "P_add") THEN 1 ELSE 0
Waking(s) == IF At(s, "V_wake") THEN 1 ELSE 0

(* A negative value counts the waiting threads (kernel/semaphore.c): while *)
(* the lock is free there are exactly -value of them, and the one that     *)
(* holds the lock in P or V is about to make that true again.  So the wake *)
(* in semaphore_V always finds a thread to wake.                           *)
ValueCountsWaiters ==
  \A s \in Semaphores :
    /\ Len(waiters[s]) + Adding(s) - Waking(s) =
         IF value[s] < 0 THEN - value[s] ELSE 0
    /\ At(s, "V_wake") => Len(waiters[s]) > 0

(* No call of semaphore_P is let through without a permit, and no permit   *)
(* is kept back while a thread waits and nobody is in the locked section.  *)
PermitsConserved ==
  \A s \in Semaphores :
    /\ passed[s] <= permits[s]
    /\ Len(waiters[s]) > 0 /\ slock[s] = "nobody" => passed[s] = permits[s]

(* A spinlock is released only by the actor that acquired it, whatever     *)
(* semaphore_create resets (kernel/semaphore.c, spinlock_release).         *)
ReleaseStep ==
  \A a \in Actors :
    op[a] \in {"P_release", "V_release"} /\ op'[a] # op[a] => slock[sem[a]] = a
ReleasedByHolder == [][ReleaseStep]_vars

(* The semaphores of kernel/semaphore.c are counting semaphores with a     *)
(* queue.                                                                  *)
Abstract == INSTANCE CountingSemaphore WITH
  free <- [s \in Semaphores |-> IF value[s] > 0 THEN value[s] ELSE 0],
  queue <- waiters
Refines == Abstract!Spec

-----------------------------------------------------------------------------
(* The rest of the inductive invariant.                                    *)

Locked == {"P_add", "P_release", "V_wake", "V_release"}

LockFacts ==
  /\ \A a \in Actors : op[a] \in Locked => slock[sem[a]] = a
  /\ \A s \in Semaphores :
       slock[s] # "nobody" => op[slock[s]] \in Locked /\ sem[slock[s]] = s

(* A call is on a semaphore that exists, and the thread that creates one   *)
(* is alone with it.                                                       *)
CallFacts ==
  \A a \in Actors : op[a] # "out" =>
    /\ sem[a] \in Semaphores /\ creator[sem[a]] # "nobody"
    /\ op[a] \in {"P_add", "P_release", "P_sleep"} => a \in Threads
    /\ op[a] = "create" =>
         \A b \in Actors : op[b] # "out" /\ sem[b] = sem[a] => b = a

(* A thread in the sleep queue is in a call of semaphore_P on that very    *)
(* semaphore.                                                              *)
WaiterFacts ==
  \A s \in Semaphores : \A i \in 1 .. Len(waiters[s]) :
    op[waiters[s][i]] \in {"P_release", "P_sleep"} /\ sem[waiters[s][i]] = s

(* Every permit is free, taken, or still owed to the thread at sleepq_add. *)
Accounts ==
  \A s \in Semaphores :
    permits[s] = passed[s] + value[s] + Len(waiters[s]) + Adding(s)

(* The inductive invariant of kernel/semaphore.c: the value counts the     *)
(* waiters, the lock is held by the actor inside the locked section, every *)
(* waiter is inside semaphore_P and all permits are accounted for.         *)
IInv ==
  /\ TypeOK /\ ValueCountsWaiters /\ LockFacts /\ CallFacts /\ WaiterFacts
  /\ Accounts
=============================================================================
