-------------------------- MODULE SemaphoreProofs --------------------------
(***************************************************************************)
(* Proofs about module Semaphore, for any number of semaphores, threads    *)
(* and interrupt handlers.  Every action is shown to preserve the          *)
(* inductive invariant IInv by a lemma of its own.  The action that takes  *)
(* or uses the lock is the only one at that semaphore, because LockFacts   *)
(* ties the holder to its place in the code; that is what keeps the value  *)
(* and the number of waiters in step.                                      *)
(***************************************************************************)
EXTENDS Semaphore, TLAPS

(* Zenon proves the leaves, but those with arithmetic or sequences.        *)
USE ZenonT(30)

(* Semaphores are numbers, and "nobody" is not an actor.                   *)
LEMMA Basics ==
  /\ Semaphores \subseteq Int /\ NONE \notin Semaphores
  /\ 0 \in Semaphores
  /\ "nobody" \notin Actors /\ Threads \subseteq Actors
  /\ \A s \in Semaphores : (s + 1) % MaxSemaphores \in Semaphores
BY MaxSemaphoresAssumption, ActorsAssumption, SMTT(30) DEF Semaphores, NONE, Actors

(* The counts of a semaphore that a step leaves alone still agree.         *)
LEMMA CountsFrame ==
  ASSUME IInv, NEW r \in Semaphores,
         value'[r] = value[r], waiters'[r] = waiters[r],
         permits'[r] = permits[r], passed'[r] = passed[r],
         At(r, "P_add")' = At(r, "P_add"), At(r, "V_wake")' = At(r, "V_wake")
  PROVE  /\ Len(waiters'[r]) + Adding(r)' - Waking(r)' =
              IF value'[r] < 0 THEN - value'[r] ELSE 0
         /\ At(r, "V_wake")' => Len(waiters'[r]) > 0
         /\ permits'[r] = passed'[r] + value'[r] + Len(waiters'[r]) + Adding(r)'
<1>1. Adding(r)' = Adding(r) /\ Waking(r)' = Waking(r)
  BY DEF Adding, Waking
<1> QED
  BY <1>1 DEF IInv, ValueCountsWaiters, Accounts

(* The invariant holds when the kernel starts.                             *)
LEMMA InitInv == Init => IInv
<1> SUFFICES ASSUME Init PROVE IInv
  OBVIOUS
<1>1. TypeOK
  BY Basics, SMTT(30) DEF Init, TypeOK, Ops
<1>2. \A s \in Semaphores : /\ Len(waiters[s]) = 0 /\ value[s] = 0
                            /\ slock[s] = "nobody" /\ passed[s] = 0 /\ permits[s] = 0
  BY DEF Init
<1>3. \A s \in Semaphores :
        ~ At(s, "V_wake") /\ Adding(s) = 0 /\ Waking(s) = 0
  BY <1>2 DEF At, Adding, Waking
<1>5. ValueCountsWaiters
  BY <1>2, <1>3, SMTT(30) DEF ValueCountsWaiters
<1>6. Accounts
  BY <1>2, <1>3, SMTT(30) DEF Accounts
<1>4. LockFacts /\ CallFacts /\ WaiterFacts
  BY <1>2, SMTT(30) DEF Init, LockFacts, CallFacts, WaiterFacts, Locked
<1> QED
  BY <1>1, <1>4, <1>5, <1>6 DEF IInv

(* semaphore_create takes a semaphore nobody is using.                     *)
LEMMA CreateInv ==
  ASSUME IInv, NEW a \in Threads, semaphore_create(a)
  PROVE  IInv'
<1> USE DEF IInv
<1>1. PICK s \in Semaphores :
        /\ creator[s] = "nobody" /\ op[a] = "out"
        /\ creator' = [creator EXCEPT ![s] = a]
        /\ next' = (s + 1) % MaxSemaphores
        /\ sem' = [sem EXCEPT ![a] = s]
        /\ op' = [op EXCEPT ![a] = "create"]
        /\ UNCHANGED <<value, slock, waiters, history>>
  BY DEF semaphore_create, Free
<1>2. a \in Actors /\ a # "nobody"
  BY Basics
<1>3. TypeOK'
  BY <1>1, <1>2, Basics DEF TypeOK, Ops, history
<1>4. \A r \in Semaphores : slock[r] # a
  BY <1>1, <1>2 DEF LockFacts, Locked
<1>5. \A r \in Semaphores, o \in Ops : At(r, o)' = At(r, o)
  BY <1>1, <1>2, <1>4 DEF At, TypeOK
<1>6. ValueCountsWaiters' /\ Accounts'
  BY <1>1, <1>5, CountsFrame DEF ValueCountsWaiters, Accounts, history, Ops
<1>7. LockFacts'
  BY <1>1, <1>2, <1>4, SMTT(30) DEF LockFacts, TypeOK, Locked
<1>8. CallFacts'
  BY <1>1, <1>2, SMTT(30) DEF CallFacts, TypeOK
<1>9. WaiterFacts'
  BY <1>1, <1>2, SMTT(30) DEF WaiterFacts, TypeOK
<1> QED
  BY <1>3, <1>6, <1>7, <1>8, <1>9

(* The thread that creates a semaphore is alone with it: nobody holds its  *)
(* lock or waits for it when semaphore_create resets them.                 *)
LEMMA SetValueInv ==
  ASSUME IInv, NEW a \in Threads, NEW v \in Values, SetValue(a, v)
  PROVE  IInv'
<1> USE DEF IInv
<1>1. PICK s \in Semaphores :
        /\ s = sem[a] /\ op[a] = "create"
        /\ value' = [value EXCEPT ![s] = v]
        /\ slock' = [slock EXCEPT ![s] = "nobody"]
        /\ permits' = [permits EXCEPT ![s] = v]
        /\ passed' = [passed EXCEPT ![s] = 0]
        /\ op' = [op EXCEPT ![a] = "out"]
        /\ sem' = [sem EXCEPT ![a] = NONE]
        /\ UNCHANGED <<creator, next, waiters>>
  BY Basics DEF SetValue, CallFacts
<1>2. a \in Actors /\ a # "nobody" /\ v \in Nat /\ v \in Int
  BY Basics, ValuesAssumption, SMTT(30)
<1>3. TypeOK'
  BY <1>1, <1>2, Basics DEF TypeOK, Ops
<1>4. \A r \in Semaphores : slock[r] # a
  BY <1>1, <1>2 DEF LockFacts, Locked
<1>5. slock[s] = "nobody"
  <2>1. slock[s] \in Actors \cup {"nobody"}
    BY <1>1 DEF TypeOK
  <2> QED
    BY <1>1, <1>2, <1>4, <2>1 DEF LockFacts, CallFacts, Locked
<1>6. Len(waiters[s]) = 0
  <2>1. waiters[s] \in Seq(Threads)
    BY <1>1 DEF TypeOK
  <2>2. ASSUME Len(waiters[s]) # 0 PROVE FALSE
    <3>1. 1 \in 1 .. Len(waiters[s]) /\ waiters[s][1] \in Threads
      BY <2>1, <2>2, SMTT(30)
    <3>2. op[waiters[s][1]] \in {"P_release", "P_sleep"} /\ sem[waiters[s][1]] = s
      BY <1>1, <3>1 DEF WaiterFacts
    <3> QED
      BY <1>1, <1>2, <3>1, <3>2, Basics DEF CallFacts
  <2> QED
    BY <2>2
<1>7. \A r \in Semaphores, o \in Ops : At(r, o)' = At(r, o)
  BY <1>1, <1>2, <1>4, <1>5 DEF At, TypeOK
<1>8. ~ At(s, "V_wake")' /\ Adding(s)' = 0 /\ Waking(s)' = 0
  BY <1>1, <1>5, <1>7 DEF At, Adding, Waking, TypeOK
<1>9. value'[s] = v /\ permits'[s] = v /\ passed'[s] = 0 /\ Len(waiters'[s]) = 0
  BY <1>1, <1>6 DEF TypeOK
<1>10. ASSUME NEW r \in Semaphores, r # s
       PROVE  /\ value'[r] = value[r] /\ waiters'[r] = waiters[r]
              /\ permits'[r] = permits[r] /\ passed'[r] = passed[r]
              /\ At(r, "P_add")' = At(r, "P_add") /\ At(r, "V_wake")' = At(r, "V_wake")
  BY <1>1, <1>7, <1>10 DEF TypeOK, Ops
<1>14. ValueCountsWaiters' /\ Accounts'
  BY <1>2, <1>8, <1>9, <1>10, CountsFrame, SMTT(30) DEF ValueCountsWaiters, Accounts
<1>11. LockFacts'
  BY <1>1, <1>2, <1>4, <1>5, SMTT(30) DEF LockFacts, TypeOK, Locked
<1>12. CallFacts'
  BY <1>1, <1>2 DEF CallFacts, TypeOK
<1>13. WaiterFacts'
  BY <1>1, <1>2, SMTT(30) DEF WaiterFacts, TypeOK
<1> QED
  BY <1>3, <1>11, <1>12, <1>13, <1>14

(* semaphore_destroy gives up a semaphore nobody is using.                 *)
LEMMA DestroyInv ==
  ASSUME IInv, NEW a \in Threads, NEW s \in Semaphores, Unused(s),
         semaphore_destroy(a, s)
  PROVE  IInv'
<1> USE DEF IInv, semaphore_destroy
<1>1. TypeOK'
  BY DEF TypeOK, history
<1>2. \A r \in Semaphores, o \in Ops : At(r, o)' = At(r, o)
  BY DEF At
<1>3. ValueCountsWaiters' /\ Accounts'
  BY <1>2, CountsFrame DEF ValueCountsWaiters, Accounts, history, Ops
<1>4. LockFacts' /\ WaiterFacts'
  BY DEF LockFacts, WaiterFacts
<1>5. CallFacts'
  BY DEF CallFacts, TypeOK, Unused
<1> QED
  BY <1>1, <1>3, <1>4, <1>5

-----------------------------------------------------------------------------
(* A step of actor a at semaphore s leaves every other semaphore as it was. *)
LEMMA OthersFrame ==
  ASSUME IInv, NEW a \in Actors, NEW s \in Semaphores,
         op[a] = "out" \/ sem[a] = s,
         \A b \in Actors : b # a => op'[b] = op[b],
         \A r \in Semaphores : r # s =>
           /\ value'[r] = value[r] /\ waiters'[r] = waiters[r]
           /\ permits'[r] = permits[r] /\ passed'[r] = passed[r]
           /\ slock'[r] = slock[r]
  PROVE  \A r \in Semaphores : r # s =>
           /\ Len(waiters'[r]) + Adding(r)' - Waking(r)' =
                IF value'[r] < 0 THEN - value'[r] ELSE 0
           /\ At(r, "V_wake")' => Len(waiters'[r]) > 0
           /\ permits'[r] = passed'[r] + value'[r] + Len(waiters'[r]) + Adding(r)'
<1> SUFFICES ASSUME NEW r \in Semaphores, r # s
             PROVE  /\ Len(waiters'[r]) + Adding(r)' - Waking(r)' =
                         IF value'[r] < 0 THEN - value'[r] ELSE 0
                    /\ At(r, "V_wake")' => Len(waiters'[r]) > 0
                    /\ permits'[r] = passed'[r] + value'[r] + Len(waiters'[r]) + Adding(r)'
  OBVIOUS
<1>1. slock[r] # a
  <2>1. a # "nobody"
    BY Basics
  <2>2. slock[r] = a => op[a] \in Locked /\ sem[a] = r
    BY <2>1 DEF IInv, LockFacts
  <2> QED
    BY <2>2 DEF Locked
<1>2. slock[r] \in Actors \cup {"nobody"}
  BY DEF IInv, TypeOK
<1>3. At(r, "P_add")' = At(r, "P_add") /\ At(r, "V_wake")' = At(r, "V_wake")
  BY <1>1, <1>2 DEF At
<1> QED
  BY <1>3, CountsFrame

(* Taking the free lock of a semaphore, and releasing it, keep the holder  *)
(* tied to its place in the code.                                          *)
LEMMA AcquireLock ==
  ASSUME IInv, NEW a \in Actors, NEW s \in Semaphores, NEW o \in Locked,
         op[a] = "out", slock[s] = "nobody",
         slock' = [slock EXCEPT ![s] = a], op' = [op EXCEPT ![a] = o],
         sem' = [sem EXCEPT ![a] = s]
  PROVE  LockFacts'
<1> USE DEF IInv
<1>1. a # "nobody" /\ \A r \in Semaphores : slock[r] # a
  BY Basics, SMTT(30) DEF LockFacts, Locked
<1>2. ASSUME NEW b \in Actors, op'[b] \in Locked
      PROVE  slock'[sem'[b]] = b
  <2>1. CASE b = a
    BY <2>1 DEF TypeOK
  <2>2. CASE b # a
    <3>1. op[b] \in Locked /\ sem'[b] = sem[b] /\ op[b] # "out"
      BY <1>2, <2>2 DEF TypeOK, Locked
    <3>2. slock[sem[b]] = b /\ sem[b] \in Semaphores /\ b # "nobody"
      BY <3>1, Basics DEF LockFacts, CallFacts
    <3> QED
      BY <3>1, <3>2 DEF TypeOK
  <2> QED
    BY <2>1, <2>2
<1>3. ASSUME NEW r \in Semaphores, slock'[r] # "nobody"
      PROVE  op'[slock'[r]] \in Locked /\ sem'[slock'[r]] = r
  <2>1. CASE r = s
    BY <2>1 DEF TypeOK
  <2>2. CASE r # s
    BY <1>1, <1>3, <2>2, SMTT(30) DEF LockFacts, TypeOK
  <2> QED
    BY <2>1, <2>2
<1> QED
  BY <1>2, <1>3 DEF LockFacts

(* A step that releases slock keeps every lock tied to its place in the code. *)
LEMMA ReleaseLock ==
  ASSUME IInv, NEW a \in Actors, op[a] \in Locked, NEW o \in Ops \ Locked,
         slock' = [slock EXCEPT ![sem[a]] = "nobody"],
         op' = [op EXCEPT ![a] = o],
         \A b \in Actors : b # a => sem'[b] = sem[b]
  PROVE  LockFacts'
<1> USE DEF IInv
<1>1. PICK s \in Semaphores : s = sem[a] /\ slock[s] = a
  BY DEF LockFacts, CallFacts, Locked
<1>2. ASSUME NEW b \in Actors, op'[b] \in Locked
      PROVE  slock'[sem'[b]] = b
  <2>1. b # a /\ op[b] \in Locked /\ op[b] # "out" /\ sem'[b] = sem[b]
    BY <1>2 DEF TypeOK, Locked
  <2>2. sem[b] \in Semaphores /\ slock[sem[b]] = b
    BY <2>1 DEF LockFacts, CallFacts
  <2> QED
    BY <1>1, <2>1, <2>2 DEF TypeOK
<1>3. ASSUME NEW r \in Semaphores, slock'[r] # "nobody"
      PROVE  op'[slock'[r]] \in Locked /\ sem'[slock'[r]] = r
  <2>1. r # s /\ slock'[r] = slock[r] /\ slock[r] \in Actors
    BY <1>1, <1>3 DEF TypeOK
  <2>2. op[slock[r]] \in Locked /\ sem[slock[r]] = r /\ slock[r] # a
    BY <1>1, <1>3, <2>1 DEF LockFacts
  <2> QED
    BY <2>1, <2>2 DEF TypeOK
<1> QED
  BY <1>2, <1>3 DEF LockFacts

(* semaphore_P keeps the count: the caller is let through with a permit,   *)
(* or is on its way into the queue.                                        *)
LEMMA PInv ==
  ASSUME IInv, NEW a \in Threads, NEW s \in Semaphores, Exists(s),
         semaphore_P(a, s)
  PROVE  IInv'
<1> USE DEF IInv
<1>1. a \in Actors /\ a # "nobody"
  BY Basics
<1>2. /\ op[a] = "out" /\ slock[s] = "nobody"
      /\ value' = [value EXCEPT ![s] = @ - 1]
      /\ UNCHANGED <<creator, next, waiters, permits>>
      /\ value[s] \in Int /\ passed[s] \in Nat
      /\ value'[s] = value[s] - 1
      /\ creator[s] # "nobody"
      /\ \A b \in Actors : op[b] = "create" => sem[b] # s
  BY DEF semaphore_P, TypeOK, Exists
<1>3. ~ At(s, "P_add") /\ ~ At(s, "V_wake") /\ Adding(s) = 0 /\ Waking(s) = 0
  BY <1>2 DEF At, Adding, Waking
<1>4. /\ Len(waiters[s]) = IF value[s] < 0 THEN - value[s] ELSE 0
      /\ permits[s] = passed[s] + value[s] + Len(waiters[s])
      /\ Len(waiters[s]) \in Nat
  BY <1>3, SMTT(30) DEF ValueCountsWaiters, Accounts, TypeOK
<1>5. \A r \in Semaphores : slock[r] # a
  BY <1>1, <1>2 DEF LockFacts, Locked
<1>6. CASE value[s] - 1 < 0
  <2>1. /\ slock' = [slock EXCEPT ![s] = a]
        /\ op' = [op EXCEPT ![a] = "P_add"]
        /\ sem' = [sem EXCEPT ![a] = s]
        /\ UNCHANGED passed
    BY <1>6 DEF semaphore_P
  <2>2. TypeOK'
    BY <1>1, <1>2, <2>1, SMTT(30) DEF TypeOK, Ops
  <2>3. At(s, "P_add")' /\ ~ At(s, "V_wake")' /\ Adding(s)' = 1 /\ Waking(s)' = 0
    BY <1>1, <1>2, <2>1 DEF At, Adding, Waking, TypeOK
  <2>4. ValueCountsWaiters' /\ Accounts'
    <3>1. \A r \in Semaphores : r # s =>
             /\ value'[r] = value[r] /\ waiters'[r] = waiters[r]
             /\ permits'[r] = permits[r] /\ passed'[r] = passed[r]
             /\ slock'[r] = slock[r]
      BY <1>2, <2>1 DEF TypeOK
    <3>2. \A b \in Actors : b # a => op'[b] = op[b]
      BY <2>1 DEF TypeOK
    <3>3. /\ Len(waiters'[s]) + 1 - 0 = IF value'[s] < 0 THEN - value'[s] ELSE 0
          /\ permits'[s] = passed'[s] + value'[s] + Len(waiters'[s]) + 1
      BY <1>2, <1>4, <1>6, <2>1, SMTT(30)
    <3>4. \A r \in Semaphores : r # s =>
            /\ Len(waiters'[r]) + Adding(r)' - Waking(r)' =
                 IF value'[r] < 0 THEN - value'[r] ELSE 0
            /\ At(r, "V_wake")' => Len(waiters'[r]) > 0
            /\ permits'[r] = passed'[r] + value'[r] + Len(waiters'[r]) + Adding(r)'
      BY <1>1, <1>2, <3>1, <3>2, OthersFrame
    <3> QED
      BY <1>1, <2>3, <3>3, <3>4 DEF ValueCountsWaiters, Accounts
  <2>5. LockFacts'
    BY <1>1, <1>2, <2>1, AcquireLock DEF Locked
  <2>6. CallFacts'
    BY <1>1, <1>2, <2>1 DEF CallFacts, TypeOK
  <2>7. WaiterFacts'
    BY <1>1, <1>2, <2>1, SMTT(30) DEF WaiterFacts, TypeOK
  <2> QED
    BY <2>2, <2>4, <2>5, <2>6, <2>7
<1>7. CASE ~ (value[s] - 1 < 0)
  <2>1. /\ passed' = [passed EXCEPT ![s] = @ + 1]
        /\ UNCHANGED <<slock, op, sem>>
    BY <1>7 DEF semaphore_P
  <2>2. TypeOK'
    BY <1>1, <1>2, <2>1, SMTT(30) DEF TypeOK, Ops
  <2>3. ~ At(s, "V_wake")' /\ Adding(s)' = 0 /\ Waking(s)' = 0
    BY <1>3, <2>1 DEF At, Adding, Waking
  <2>4. ValueCountsWaiters' /\ Accounts'
    <3>1. \A r \in Semaphores : r # s =>
             /\ value'[r] = value[r] /\ waiters'[r] = waiters[r]
             /\ permits'[r] = permits[r] /\ passed'[r] = passed[r]
             /\ slock'[r] = slock[r]
      BY <1>2, <2>1 DEF TypeOK
    <3>2. passed'[s] = passed[s] + 1
      BY <2>1 DEF TypeOK
    <3>3. /\ Len(waiters'[s]) + 0 - 0 = IF value'[s] < 0 THEN - value'[s] ELSE 0
          /\ permits'[s] = passed'[s] + value'[s] + Len(waiters'[s]) + 0
      BY <1>2, <1>4, <1>7, <2>1, <3>2, SMTT(30)
    <3>4. \A r \in Semaphores : r # s =>
            /\ Len(waiters'[r]) + Adding(r)' - Waking(r)' =
                 IF value'[r] < 0 THEN - value'[r] ELSE 0
            /\ At(r, "V_wake")' => Len(waiters'[r]) > 0
            /\ permits'[r] = passed'[r] + value'[r] + Len(waiters'[r]) + Adding(r)'
      BY <1>1, <1>2, <2>1, <3>1, OthersFrame
    <3> QED
      BY <1>1, <2>3, <3>3, <3>4 DEF ValueCountsWaiters, Accounts
  <2>5. LockFacts' /\ CallFacts' /\ WaiterFacts'
    BY <1>2, <2>1, SMTT(30) DEF LockFacts, CallFacts, WaiterFacts
  <2> QED
    BY <2>2, <2>4, <2>5
<1> QED
  BY <1>6, <1>7

(* sleepq_add makes good for the value that semaphore_P has lowered.       *)
LEMMA SleepqAddInv ==
  ASSUME IInv, NEW a \in Actors, SleepqAdd(a)
  PROVE  IInv'
<1> USE DEF IInv
<1>1. PICK s \in Semaphores : s = sem[a] /\ slock[s] = a
  BY DEF SleepqAdd, LockFacts, CallFacts, Locked
<1>2. /\ op[a] = "P_add" /\ a \in Threads /\ a # "nobody"
      /\ waiters' = [waiters EXCEPT ![s] = Append(@, a)]
      /\ op' = [op EXCEPT ![a] = "P_release"]
      /\ UNCHANGED <<creator, value, slock, next, sem, permits, passed>>
  BY <1>1, Basics DEF SleepqAdd, CallFacts, semaphore_table, history
<1>3. TypeOK'
  BY <1>2, SMTT(30) DEF TypeOK, Ops
<1>4. waiters[s] \in Seq(Threads) /\ waiters'[s] = Append(waiters[s], a)
  BY <1>1, <1>2 DEF TypeOK
<1>5. Len(waiters'[s]) = Len(waiters[s]) + 1 /\ Len(waiters[s]) \in Nat
  BY <1>2, <1>4, SMTT(30)
<1>6. ValueCountsWaiters' /\ Accounts'
  <2>1. At(s, "P_add") /\ ~ At(s, "V_wake") /\ Adding(s) = 1 /\ Waking(s) = 0
    BY <1>1, <1>2 DEF At, Adding, Waking
  <2>2. ~ At(s, "V_wake")' /\ Adding(s)' = 0 /\ Waking(s)' = 0
    BY <1>1, <1>2 DEF At, Adding, Waking, TypeOK
  <2>3. \A r \in Semaphores : r # s =>
           /\ value'[r] = value[r] /\ waiters'[r] = waiters[r]
           /\ permits'[r] = permits[r] /\ passed'[r] = passed[r]
           /\ slock'[r] = slock[r]
    BY <1>2 DEF TypeOK
  <2>4. \A b \in Actors : b # a => op'[b] = op[b]
    BY <1>2 DEF TypeOK
  <2>5. /\ Len(waiters[s]) + 1 - 0 = IF value[s] < 0 THEN - value[s] ELSE 0
        /\ permits[s] = passed[s] + value[s] + Len(waiters[s]) + 1
        /\ value[s] \in Int /\ passed[s] \in Nat
    BY <2>1 DEF ValueCountsWaiters, Accounts, TypeOK
  <2>6. /\ Len(waiters'[s]) + 0 - 0 = IF value'[s] < 0 THEN - value'[s] ELSE 0
        /\ permits'[s] = passed'[s] + value'[s] + Len(waiters'[s]) + 0
    BY <1>2, <1>5, <2>5, SMTT(30)
  <2> QED
    BY <1>1, <2>2, <2>3, <2>4, <2>6, OthersFrame, SMTT(30) DEF ValueCountsWaiters, Accounts
<1>7. LockFacts'
  BY <1>2, SMTT(30) DEF LockFacts, TypeOK, Locked
<1>8. CallFacts'
  BY <1>2 DEF CallFacts, TypeOK
<1>9. WaiterFacts'
  <2> SUFFICES ASSUME NEW r \in Semaphores, NEW i \in 1 .. Len(waiters'[r])
               PROVE  /\ op'[waiters'[r][i]] \in {"P_release", "P_sleep"}
                      /\ sem'[waiters'[r][i]] = r
    BY DEF WaiterFacts
  <2>1. CASE r # s
    BY <1>2, <2>1, SMTT(30) DEF WaiterFacts, TypeOK
  <2>2. CASE r = s /\ i <= Len(waiters[s])
    <3>1. i \in 1 .. Len(waiters[s]) /\ waiters'[r][i] = waiters[s][i]
      BY <1>4, <1>5, <2>2, SMTT(30)
    <3>2. waiters[s][i] \in Actors
      BY <1>4, <3>1, Basics, SMTT(30)
    <3>3. op[waiters[s][i]] \in {"P_release", "P_sleep"} /\ sem[waiters[s][i]] = s
      BY <3>1 DEF WaiterFacts
    <3>4. op'[waiters[s][i]] = op[waiters[s][i]]
      BY <1>2, <3>2, <3>3 DEF TypeOK
    <3> QED
      BY <1>2, <2>2, <3>1, <3>3, <3>4
  <2>3. CASE r = s /\ ~ (i <= Len(waiters[s]))
    <3>1. waiters'[r][i] = a
      BY <1>2, <1>4, <1>5, <2>3, SMTT(30)
    <3> QED
      BY <1>1, <1>2, <2>3, <3>1 DEF TypeOK
  <2> QED
    BY <2>1, <2>2, <2>3
<1> QED
  BY <1>3, <1>6, <1>7, <1>8, <1>9

(* Releasing the lock and returning from semaphore_P change no count.      *)
LEMMA ReleasePInv ==
  ASSUME IInv, NEW a \in Actors, ReleaseP(a)
  PROVE  IInv'
<1> USE DEF IInv
<1>1. PICK s \in Semaphores : s = sem[a] /\ slock[s] = a
  BY DEF ReleaseP, LockFacts, CallFacts, Locked
<1>2. /\ op[a] = "P_release" /\ a # "nobody"
      /\ slock' = [slock EXCEPT ![s] = "nobody"]
      /\ op' = [op EXCEPT ![a] = "P_sleep"]
      /\ UNCHANGED <<creator, value, next, waiters, sem, permits, passed>>
  BY <1>1, Basics DEF ReleaseP, history
<1>3. TypeOK'
  BY <1>2 DEF TypeOK, Ops
<1>4. ValueCountsWaiters' /\ Accounts'
  <2>1. ASSUME NEW r \in Semaphores
        PROVE  At(r, "P_add")' = At(r, "P_add") /\ At(r, "V_wake")' = At(r, "V_wake")
    BY <1>1, <1>2 DEF At, TypeOK
  <2> QED
    BY <1>2, <2>1, CountsFrame DEF ValueCountsWaiters, Accounts
<1>5. LockFacts'
  BY <1>1, <1>2, ReleaseLock DEF Locked, Ops
<1>6. CallFacts'
  BY <1>2 DEF CallFacts, TypeOK
<1>7. WaiterFacts'
  BY <1>2, SMTT(30) DEF WaiterFacts, TypeOK
<1> QED
  BY <1>3, <1>4, <1>5, <1>6, <1>7

(* The return from thread_switch keeps the invariant. *)
LEMMA ResumeInv ==
  ASSUME IInv, NEW a \in Actors, Resume(a)
  PROVE  IInv'
<1> USE DEF IInv
<1>1. PICK s \in Semaphores : s = sem[a]
  BY DEF Resume, CallFacts
<1>2. /\ op[a] = "P_sleep" /\ a # "nobody"
      /\ \A i \in 1 .. Len(waiters[s]) : waiters[s][i] # a
      /\ op' = [op EXCEPT ![a] = "out"]
      /\ sem' = [sem EXCEPT ![a] = NONE]
      /\ UNCHANGED <<creator, value, slock, next, waiters, permits, passed>>
  BY <1>1, Basics DEF Resume, Waits, semaphore_table, history
<1>3. TypeOK'
  BY <1>2 DEF TypeOK, Ops
<1>4. \A r \in Semaphores : slock[r] # a
  BY <1>2 DEF LockFacts, Locked
<1>5. ValueCountsWaiters' /\ Accounts'
  <2>1. ASSUME NEW r \in Semaphores
        PROVE  At(r, "P_add")' = At(r, "P_add") /\ At(r, "V_wake")' = At(r, "V_wake")
    BY <1>2, <1>4 DEF At, TypeOK
  <2> QED
    BY <1>2, <2>1, CountsFrame DEF ValueCountsWaiters, Accounts
<1>6. LockFacts'
  BY <1>2, <1>4, SMTT(30) DEF LockFacts, TypeOK, Locked
<1>7. CallFacts'
  BY <1>2 DEF CallFacts, TypeOK
<1>8. WaiterFacts'
  <2> SUFFICES ASSUME NEW r \in Semaphores, NEW i \in 1 .. Len(waiters[r])
               PROVE  /\ op'[waiters[r][i]] \in {"P_release", "P_sleep"}
                      /\ sem'[waiters[r][i]] = r
    BY <1>2, SMTT(30) DEF WaiterFacts
  <2>0. waiters[r] \in Seq(Threads)
    BY DEF TypeOK
  <2>1. waiters[r][i] \in Actors
    BY <2>0, Basics, SMTT(30)
  <2>2. op[waiters[r][i]] \in {"P_release", "P_sleep"} /\ sem[waiters[r][i]] = r
    BY DEF WaiterFacts
  <2>3. waiters[r][i] # a
    BY <1>1, <1>2, <2>2
  <2> QED
    BY <1>2, <2>1, <2>2, <2>3 DEF TypeOK
<1> QED
  BY <1>3, <1>5, <1>6, <1>7, <1>8

(* The release at the end of semaphore_V keeps the invariant. *)
LEMMA ReleaseVInv ==
  ASSUME IInv, NEW a \in Actors, ReleaseV(a)
  PROVE  IInv'
<1> USE DEF IInv
<1>1. PICK s \in Semaphores : s = sem[a] /\ slock[s] = a
  BY DEF ReleaseV, LockFacts, CallFacts, Locked
<1>2. /\ op[a] = "V_release" /\ a # "nobody"
      /\ slock' = [slock EXCEPT ![s] = "nobody"]
      /\ op' = [op EXCEPT ![a] = "out"]
      /\ sem' = [sem EXCEPT ![a] = NONE]
      /\ UNCHANGED <<creator, value, next, waiters, permits, passed>>
  BY <1>1, Basics DEF ReleaseV, history
<1>3. TypeOK'
  BY <1>2 DEF TypeOK, Ops
<1>4. ValueCountsWaiters' /\ Accounts'
  <2>1. ASSUME NEW r \in Semaphores
        PROVE  At(r, "P_add")' = At(r, "P_add") /\ At(r, "V_wake")' = At(r, "V_wake")
    <3>1. r # s => slock[r] # a
      BY <1>1, <1>2 DEF LockFacts
    <3> QED
      BY <1>1, <1>2, <3>1 DEF At, TypeOK
  <2> QED
    BY <1>2, <2>1, CountsFrame DEF ValueCountsWaiters, Accounts
<1>5. LockFacts'
  BY <1>1, <1>2, ReleaseLock DEF Locked, Ops, TypeOK
<1>6. CallFacts'
  BY <1>2 DEF CallFacts, TypeOK
<1>7. WaiterFacts'
  BY <1>2, SMTT(30) DEF WaiterFacts, TypeOK
<1> QED
  BY <1>3, <1>4, <1>5, <1>6, <1>7

(* semaphore_V issues a permit: it is free, or owed to the first waiter.   *)
LEMMA VInv ==
  ASSUME IInv, NEW a \in Actors, NEW s \in Semaphores, Exists(s),
         semaphore_V(a, s)
  PROVE  IInv'
<1> USE DEF IInv
<1>1. /\ op[a] = "out" /\ slock[s] = "nobody"
      /\ value' = [value EXCEPT ![s] = @ + 1]
      /\ permits' = [permits EXCEPT ![s] = @ + 1]
      /\ UNCHANGED <<creator, next, waiters, passed>>
      /\ value[s] \in Int /\ permits[s] \in Nat /\ passed[s] \in Nat
      /\ value'[s] = value[s] + 1 /\ permits'[s] = permits[s] + 1
      /\ creator[s] # "nobody" /\ a # "nobody"
      /\ \A b \in Actors : op[b] = "create" => sem[b] # s
  BY Basics DEF semaphore_V, TypeOK, Exists
<1>2. ~ At(s, "P_add") /\ ~ At(s, "V_wake") /\ Adding(s) = 0 /\ Waking(s) = 0
  BY <1>1 DEF At, Adding, Waking
<1>3. /\ Len(waiters[s]) = IF value[s] < 0 THEN - value[s] ELSE 0
      /\ permits[s] = passed[s] + value[s] + Len(waiters[s])
      /\ Len(waiters[s]) \in Nat
  BY <1>2, SMTT(30) DEF ValueCountsWaiters, Accounts, TypeOK
<1>4. CASE value[s] + 1 <= 0
  <2>1. /\ slock' = [slock EXCEPT ![s] = a]
        /\ op' = [op EXCEPT ![a] = "V_wake"]
        /\ sem' = [sem EXCEPT ![a] = s]
    BY <1>4 DEF semaphore_V
  <2>2. TypeOK'
    BY <1>1, <2>1, SMTT(30) DEF TypeOK, Ops
  <2>3. ~ At(s, "P_add")' /\ At(s, "V_wake")' /\ Adding(s)' = 0 /\ Waking(s)' = 1
    BY <1>1, <2>1 DEF At, Adding, Waking, TypeOK
  <2>4. ValueCountsWaiters' /\ Accounts'
    <3>1. \A r \in Semaphores : r # s =>
             /\ value'[r] = value[r] /\ waiters'[r] = waiters[r]
             /\ permits'[r] = permits[r] /\ passed'[r] = passed[r]
             /\ slock'[r] = slock[r]
      BY <1>1, <2>1 DEF TypeOK
    <3>2. \A b \in Actors : b # a => op'[b] = op[b]
      BY <2>1 DEF TypeOK
    <3>3. /\ Len(waiters'[s]) + 0 - 1 = IF value'[s] < 0 THEN - value'[s] ELSE 0
          /\ Len(waiters'[s]) > 0
          /\ permits'[s] = passed'[s] + value'[s] + Len(waiters'[s]) + 0
      <4>1. waiters'[s] = waiters[s] /\ passed'[s] = passed[s]
        BY <1>1
      <4>2. value[s] < 0 /\ Len(waiters[s]) = - value[s]
        BY <1>1, <1>3, <1>4, SMTT(30)
      <4>3. Len(waiters[s]) + 0 - 1 = - (value[s] + 1) /\ Len(waiters[s]) > 0
        BY <1>1, <4>2, SMTT(30)
      <4>4. permits[s] + 1 = passed[s] + (value[s] + 1) + Len(waiters[s]) + 0
        BY <1>1, <1>3, SMTT(30)
      <4> QED
        BY <1>1, <1>4, <4>1, <4>3, <4>4, SMTT(30)
    <3>4. \A r \in Semaphores : r # s =>
            /\ Len(waiters'[r]) + Adding(r)' - Waking(r)' =
                 IF value'[r] < 0 THEN - value'[r] ELSE 0
            /\ At(r, "V_wake")' => Len(waiters'[r]) > 0
            /\ permits'[r] = passed'[r] + value'[r] + Len(waiters'[r]) + Adding(r)'
      BY <1>1, <3>1, <3>2, OthersFrame
    <3> QED
      BY <2>3, <3>3, <3>4 DEF ValueCountsWaiters, Accounts
  <2>5. LockFacts'
    BY <1>1, <2>1, AcquireLock DEF Locked
  <2>6. CallFacts'
    BY <1>1, <2>1 DEF CallFacts, TypeOK
  <2>7. WaiterFacts'
    BY <1>1, <2>1, SMTT(30) DEF WaiterFacts, TypeOK
  <2> QED
    BY <2>2, <2>4, <2>5, <2>6, <2>7
<1>5. CASE ~ (value[s] + 1 <= 0)
  <2>1. UNCHANGED <<slock, op, sem>>
    BY <1>5 DEF semaphore_V
  <2>2. TypeOK'
    BY <1>1, <2>1, SMTT(30) DEF TypeOK, Ops
  <2>3. ~ At(s, "V_wake")' /\ Adding(s)' = 0 /\ Waking(s)' = 0
    BY <1>2, <2>1 DEF At, Adding, Waking
  <2>4. ValueCountsWaiters' /\ Accounts'
    <3>1. \A r \in Semaphores : r # s =>
             /\ value'[r] = value[r] /\ waiters'[r] = waiters[r]
             /\ permits'[r] = permits[r] /\ passed'[r] = passed[r]
             /\ slock'[r] = slock[r]
      BY <1>1, <2>1 DEF TypeOK
    <3>2. /\ Len(waiters'[s]) + 0 - 0 = IF value'[s] < 0 THEN - value'[s] ELSE 0
          /\ permits'[s] = passed'[s] + value'[s] + Len(waiters'[s]) + 0
      BY <1>1, <1>3, <1>5, SMTT(30)
    <3> QED
      BY <1>1, <2>1, <2>3, <3>1, <3>2, OthersFrame DEF ValueCountsWaiters, Accounts
  <2>5. LockFacts'
    BY <1>1, <2>1 DEF LockFacts
  <2>6. CallFacts'
    BY <1>1, <2>1 DEF CallFacts, TypeOK
  <2>7. WaiterFacts'
    BY <1>1, <2>1 DEF WaiterFacts, TypeOK
  <2> QED
    BY <2>2, <2>4, <2>5, <2>6, <2>7
<1> QED
  BY <1>4, <1>5

(* The wake finds a waiter and hands it the permit.                        *)
LEMMA SleepqWakeInv ==
  ASSUME IInv, NEW a \in Actors, SleepqWake(a)
  PROVE  IInv'
<1> USE DEF IInv
<1>1. PICK s \in Semaphores : s = sem[a] /\ slock[s] = a
  BY DEF SleepqWake, LockFacts, CallFacts, Locked
<1>2. op[a] = "V_wake" /\ a # "nobody"
  BY Basics DEF SleepqWake
<1>3. At(s, "V_wake") /\ ~ At(s, "P_add") /\ Adding(s) = 0 /\ Waking(s) = 1
  BY <1>1, <1>2 DEF At, Adding, Waking
<1>4. /\ Len(waiters[s]) > 0
      /\ Len(waiters[s]) + 0 - 1 = IF value[s] < 0 THEN - value[s] ELSE 0
      /\ permits[s] = passed[s] + value[s] + Len(waiters[s]) + 0
      /\ value[s] \in Int /\ passed[s] \in Nat /\ waiters[s] \in Seq(Threads)
  BY <1>3 DEF ValueCountsWaiters, Accounts, TypeOK
<1>5. /\ waiters' = [waiters EXCEPT ![s] = Tail(@)]
      /\ passed' = [passed EXCEPT ![s] = @ + 1]
      /\ op' = [op EXCEPT ![a] = "V_release"]
      /\ UNCHANGED <<creator, value, slock, next, sem, permits>>
  BY <1>1, <1>4 DEF SleepqWake, semaphore_table
<1>6. /\ waiters'[s] = Tail(waiters[s]) /\ passed'[s] = passed[s] + 1
      /\ waiters'[s] \in Seq(Threads) /\ Len(waiters'[s]) = Len(waiters[s]) - 1
      /\ \A i \in 1 .. Len(waiters'[s]) :
           i + 1 \in 1 .. Len(waiters[s]) /\ waiters'[s][i] = waiters[s][i + 1]
  BY <1>4, <1>5, SMTT(30) DEF TypeOK
<1>7. TypeOK'
  BY <1>4, <1>5, <1>6, SMTT(30) DEF TypeOK, Ops
<1>8. ValueCountsWaiters' /\ Accounts'
  <2>1. ~ At(s, "V_wake")' /\ Adding(s)' = 0 /\ Waking(s)' = 0
    BY <1>1, <1>5 DEF At, Adding, Waking, TypeOK
  <2>2. \A r \in Semaphores : r # s =>
           /\ value'[r] = value[r] /\ waiters'[r] = waiters[r]
           /\ permits'[r] = permits[r] /\ passed'[r] = passed[r]
           /\ slock'[r] = slock[r]
    BY <1>5 DEF TypeOK
  <2>3. \A b \in Actors : b # a => op'[b] = op[b]
    BY <1>5 DEF TypeOK
  <2>4. /\ Len(waiters'[s]) + 0 - 0 = IF value'[s] < 0 THEN - value'[s] ELSE 0
        /\ permits'[s] = passed'[s] + value'[s] + Len(waiters'[s]) + 0
    BY <1>4, <1>5, <1>6, SMTT(30)
  <2> QED
    BY <1>1, <2>1, <2>2, <2>3, <2>4, OthersFrame, SMTT(30) DEF ValueCountsWaiters, Accounts
<1>9. LockFacts'
  BY <1>2, <1>5, SMTT(30) DEF LockFacts, TypeOK, Locked
<1>10. CallFacts'
  BY <1>2, <1>5 DEF CallFacts, TypeOK
<1>11. WaiterFacts'
  <2> SUFFICES ASSUME NEW r \in Semaphores, NEW i \in 1 .. Len(waiters'[r])
               PROVE  /\ op'[waiters'[r][i]] \in {"P_release", "P_sleep"}
                      /\ sem'[waiters'[r][i]] = r
    BY DEF WaiterFacts
  <2>1. PICK j \in 1 .. Len(waiters[r]) : waiters'[r][i] = waiters[r][j]
    <3>1. CASE r = s
      BY <1>6, <3>1
    <3>2. CASE r # s
      BY <1>5, <3>2 DEF TypeOK
    <3> QED
      BY <3>1, <3>2
  <2>2. waiters[r] \in Seq(Threads)
    BY DEF TypeOK
  <2>3. waiters[r][j] \in Actors
    BY <2>2, Basics, SMTT(30)
  <2>4. op[waiters[r][j]] \in {"P_release", "P_sleep"} /\ sem[waiters[r][j]] = r
    BY DEF WaiterFacts
  <2> QED
    BY <1>2, <1>5, <2>1, <2>3, <2>4 DEF TypeOK
<1> QED
  BY <1>7, <1>8, <1>9, <1>10, <1>11

-----------------------------------------------------------------------------
(* Every step of kernel/semaphore.c preserves the invariant.               *)
LEMMA NextInv == IInv /\ [Next]_vars => IInv'
<1> SUFFICES ASSUME IInv, [Next]_vars PROVE IInv'
  OBVIOUS
<1>1. CASE UNCHANGED vars
  <2>1. \A r \in Semaphores, o \in Ops : At(r, o)' = At(r, o)
    BY <1>1 DEF vars, semaphore_table, At
  <2>2. ValueCountsWaiters' /\ Accounts'
    BY <1>1, <2>1, CountsFrame
       DEF vars, semaphore_table, history, ValueCountsWaiters, Accounts, Ops
  <2> QED
    BY <1>1, <2>2, SMTT(30) DEF vars, semaphore_table, history, IInv, TypeOK, LockFacts,
       CallFacts, WaiterFacts
<1>2. CASE Next
  <2>1. ASSUME NEW a \in Threads, semaphore_create(a) PROVE IInv'
    BY <2>1, CreateInv
  <2>2. ASSUME NEW a \in Threads, NEW v \in Values, SetValue(a, v) PROVE IInv'
    BY <2>2, SetValueInv
  <2>3. ASSUME NEW a \in Threads, NEW s \in Semaphores, Exists(s),
               semaphore_P(a, s)
        PROVE  IInv'
    BY <2>3, PInv
  <2>4. ASSUME NEW a \in Threads, NEW s \in Semaphores, Unused(s),
               semaphore_destroy(a, s)
        PROVE  IInv'
    BY <2>4, DestroyInv
  <2>5. ASSUME NEW a \in Actors, SemaphoreStep(a) PROVE IInv'
    BY <2>5, SleepqAddInv, ReleasePInv, ResumeInv, SleepqWakeInv, ReleaseVInv
       DEF SemaphoreStep
  <2>6. ASSUME NEW a \in Actors, NEW s \in Semaphores, Exists(s),
               semaphore_V(a, s)
        PROVE  IInv'
    BY <2>6, VInv
  <2> QED
    BY <1>2, <2>1, <2>2, <2>3, <2>4, <2>5, <2>6 DEF Next
<1> QED
  BY <1>1, <1>2

(* The inductive invariant holds in every state.                           *)
THEOREM Invariance == Spec => []IInv
BY InitInv, NextInv, PTL DEF Spec

(* The value of a semaphore counts its waiters (semaphore_P, semaphore_V). *)
THEOREM CountsAgree == Spec => []ValueCountsWaiters
<1>1. IInv => ValueCountsWaiters
  BY DEF IInv
<1> QED
  BY Invariance, <1>1, PTL

(* No P is let through without a permit, and no permit is kept back.       *)
THEOREM PermitsAreConserved == Spec => []PermitsConserved
<1>1. IInv => PermitsConserved
  <2> SUFFICES ASSUME IInv, NEW s \in Semaphores
               PROVE  /\ passed[s] <= permits[s]
                      /\ Len(waiters[s]) > 0 /\ slock[s] = "nobody" =>
                           passed[s] = permits[s]
    BY DEF PermitsConserved
  <2>1. /\ value[s] \in Int /\ passed[s] \in Nat /\ permits[s] \in Nat
        /\ Len(waiters[s]) \in Nat
        /\ Adding(s) \in {0, 1} /\ Waking(s) \in {0, 1}
        /\ slock[s] = "nobody" => Adding(s) = 0 /\ Waking(s) = 0
    BY SMTT(30) DEF IInv, TypeOK, Adding, Waking, At
  <2>2. /\ Len(waiters[s]) + Adding(s) - Waking(s) =
             IF value[s] < 0 THEN - value[s] ELSE 0
        /\ permits[s] = passed[s] + value[s] + Len(waiters[s]) + Adding(s)
    BY DEF IInv, ValueCountsWaiters, Accounts
  <2>3. CASE value[s] < 0
    <3>0. Len(waiters[s]) + Adding(s) - Waking(s) = - value[s]
      BY <2>2, <2>3
    <3>1. permits[s] = passed[s] + Waking(s)
      <4>1. Adding(s) \in Int /\ Waking(s) \in Int
        BY <2>1, SMTT(30)
      <4>2. PICK x \in Int, w \in Int, n \in Int, v \in Int :
              x = Adding(s) /\ w = Waking(s) /\ n = Len(waiters[s]) /\ v = value[s]
        BY <2>1, <4>1, SMTT(30)
      <4>3. n + x - w = - v
        BY <3>0, <4>2
      <4>4. n + x + v = w
        BY <4>3, SMTT(30)
      <4>5. PICK p \in Int, q \in Int : p = permits[s] /\ q = passed[s]
        BY <2>1, SMTT(30)
      <4>6. p = q + v + n + x
        BY <2>2, <4>2, <4>5
      <4>7. p = q + w
        BY <4>4, <4>6, SMTT(30)
      <4> QED
        BY <4>2, <4>5, <4>7
    <3> QED
      BY <2>1, <3>1, SMTT(30)
  <2>4. CASE ~ (value[s] < 0)
    BY <2>1, <2>2, <2>4, SMTT(30)
  <2> QED
    BY <2>3, <2>4
<1> QED
  BY Invariance, <1>1, PTL

(* A semaphore's spinlock is released only by the actor that holds it.     *)
THEOREM HolderReleases == Spec => ReleasedByHolder
<1>1. IInv => ReleaseStep
  BY DEF IInv, ReleaseStep, LockFacts, Locked
<1>2. IInv /\ [Next]_vars => [ReleaseStep]_vars
  BY <1>1
<1> QED
  BY Invariance, <1>2, PTL DEF Spec, ReleasedByHolder

-----------------------------------------------------------------------------
(* kernel/semaphore.c implements counting semaphores with a queue: every   *)
(* step is a step of CountingSemaphore or leaves it alone.                 *)
THEOREM Refinement == Spec => Refines
<1> DEFINE f == [s \in Semaphores |-> IF value[s] > 0 THEN value[s] ELSE 0]
<1>1. Init => Abstract!Init
  BY DEF Init, Abstract!Init
<1>2. ASSUME IInv, IInv', [Next]_vars
      PROVE  [Abstract!Next]_<<f, waiters>>
  <2> USE DEF IInv
  <2>1. CASE UNCHANGED vars
    BY <2>1 DEF vars, semaphore_table
  <2>2. ASSUME NEW a \in Threads, semaphore_create(a)
        PROVE  UNCHANGED <<f, waiters>>
    BY <2>2 DEF semaphore_create
  <2>3. ASSUME NEW a \in Threads, NEW v \in Values, SetValue(a, v)
        PROVE  Abstract!Next
    <3>1. PICK s \in Semaphores :
            /\ s = sem[a] /\ op[a] = "create" /\ waiters' = waiters
            /\ value' = [value EXCEPT ![s] = v]
      BY <1>2, <2>3, Basics DEF SetValue, CallFacts
    <3>2. Len(waiters[s]) = 0
      <4>1. waiters[s] \in Seq(Threads)
        BY <1>2 DEF TypeOK
      <4>2. ASSUME Len(waiters[s]) # 0 PROVE FALSE
        <5>1. 1 \in 1 .. Len(waiters[s]) /\ waiters[s][1] \in Threads
          BY <4>1, <4>2, SMTT(30)
        <5>2. /\ op[waiters[s][1]] \in {"P_release", "P_sleep"}
              /\ sem[waiters[s][1]] = s
          BY <1>2, <5>1 DEF WaiterFacts
        <5> QED
          BY <1>2, <3>1, <5>1, <5>2, Basics DEF CallFacts
      <4> QED
        BY <4>2
    <3>3. f' = [f EXCEPT ![s] = v]
      <4>1. v \in Nat /\ \A r \in Semaphores : value'[r] = IF r = s THEN v ELSE value[r]
        BY <1>2, <3>1, ValuesAssumption DEF TypeOK
      <4>2. \A r \in Semaphores :
              (IF value'[r] > 0 THEN value'[r] ELSE 0) = IF r = s THEN v ELSE f[r]
        BY <4>1, SMTT(30)
      <4> QED
        BY <4>2
    <3>4. Abstract!Open(s, v)
      BY <3>1, <3>2, <3>3 DEF Abstract!Open
    <3> QED
      BY <3>4 DEF Abstract!Next
  <2>4. ASSUME NEW a \in Threads, NEW s \in Semaphores, semaphore_P(a, s)
        PROVE  Abstract!Next \/ UNCHANGED <<f, waiters>>
    <3>1. /\ value' = [value EXCEPT ![s] = @ - 1] /\ waiters' = waiters
          /\ value \in [Semaphores -> Int]
      BY <1>2, <2>4 DEF semaphore_P, TypeOK
    <3>2. CASE value[s] > 0
      <4>1. f[s] > 0 /\ f' = [f EXCEPT ![s] = @ - 1]
        <5>1. \A r \in Semaphores : value'[r] = IF r = s THEN value[s] - 1 ELSE value[r]
          BY <3>1
        <5>2. f[s] = value[s] /\ value[s] \in Int
          BY <3>1, <3>2
        <5>3. \A r \in Semaphores :
                (IF value'[r] > 0 THEN value'[r] ELSE 0) = IF r = s THEN f[s] - 1 ELSE f[r]
          BY <3>2, <5>1, <5>2, SMTT(30)
        <5> QED
          BY <3>2, <5>2, <5>3
      <4> QED
        BY <3>1, <4>1 DEF Abstract!Next, Abstract!Take
    <3>3. CASE ~ (value[s] > 0)
      BY <3>1, <3>3, SMTT(30)
    <3> QED
      BY <3>2, <3>3
  <2>5. ASSUME NEW a \in Threads, NEW s \in Semaphores, semaphore_destroy(a, s)
        PROVE  UNCHANGED <<f, waiters>>
    BY <2>5 DEF semaphore_destroy
  <2>6. ASSUME NEW a \in Actors, SleepqAdd(a) PROVE Abstract!Next
    <3>1. PICK s \in Semaphores : s = sem[a] /\ slock[s] = a /\ a \in Threads
      BY <1>2, <2>6, SMTT(30) DEF SleepqAdd, LockFacts, CallFacts, Locked
    <3>2. /\ waiters' = [waiters EXCEPT ![s] = Append(@, a)]
          /\ value' = value /\ op[a] = "P_add" /\ a # "nobody"
      BY <2>6, <3>1, Basics DEF SleepqAdd, semaphore_table
    <3>3. ~ (value[s] > 0)
      <4>1. Adding(s) = 1 /\ Waking(s) = 0
        BY <3>1, <3>2 DEF Adding, Waking, At
      <4>2. Len(waiters[s]) + 1 - 0 = IF value[s] < 0 THEN - value[s] ELSE 0
        BY <1>2, <4>1 DEF ValueCountsWaiters
      <4>3. value[s] \in Int /\ Len(waiters[s]) \in Nat
        BY <1>2, SMTT(30) DEF TypeOK
      <4> QED
        BY <4>2, <4>3, SMTT(30)
    <3>4. f[s] = 0 /\ f' = f
      BY <3>2, <3>3
    <3>5. Abstract!Join(s, a)
      BY <3>2, <3>4 DEF Abstract!Join
    <3> QED
      BY <3>1, <3>5 DEF Abstract!Next
  <2>7. ASSUME NEW a \in Actors, ReleaseP(a) \/ Resume(a) \/ ReleaseV(a)
        PROVE  UNCHANGED <<f, waiters>>
    BY <2>7 DEF ReleaseP, Resume, ReleaseV, semaphore_table
  <2>8. ASSUME NEW a \in Actors, SleepqWake(a)
        PROVE  Abstract!Next \/ UNCHANGED <<f, waiters>>
    <3>1. PICK s \in Semaphores : s = sem[a]
      BY <1>2, <2>8 DEF SleepqWake, CallFacts
    <3>2. value' = value /\ f' = f
      BY <2>8 DEF SleepqWake, semaphore_table
    <3>3. CASE Len(waiters[s]) > 0
      <4>1. Abstract!HandOver(s)
        BY <2>8, <3>1, <3>2, <3>3 DEF SleepqWake, Abstract!HandOver
      <4> QED
        BY <4>1 DEF Abstract!Next
    <3>4. CASE ~ (Len(waiters[s]) > 0)
      BY <2>8, <3>1, <3>2, <3>4 DEF SleepqWake
    <3> QED
      BY <3>3, <3>4
  <2>9. ASSUME NEW a \in Actors, NEW s \in Semaphores, semaphore_V(a, s)
        PROVE  Abstract!Next \/ UNCHANGED <<f, waiters>>
    <3>1. /\ value' = [value EXCEPT ![s] = @ + 1] /\ waiters' = waiters
          /\ value \in [Semaphores -> Int] /\ slock[s] = "nobody"
          /\ Len(waiters[s]) \in Nat
      BY <1>2, <2>9, SMTT(30) DEF semaphore_V, TypeOK
    <3>2. CASE value[s] + 1 <= 0
      BY <3>1, <3>2, SMTT(30)
    <3>3. CASE ~ (value[s] + 1 <= 0)
      <4>1. Adding(s) = 0 /\ Waking(s) = 0
        BY <3>1 DEF Adding, Waking, At
      <4>2. Len(waiters[s]) = 0
        BY <1>2, <3>1, <3>3, <4>1, SMTT(30) DEF ValueCountsWaiters
      <4>3. f' = [f EXCEPT ![s] = @ + 1]
        <5>1. \A r \in Semaphores : value'[r] = IF r = s THEN value[s] + 1 ELSE value[r]
          BY <3>1
        <5>2. f[s] = value[s] /\ value[s] \in Int
          BY <3>1, <3>3, SMTT(30)
        <5>3. \A r \in Semaphores :
                (IF value'[r] > 0 THEN value'[r] ELSE 0) = IF r = s THEN f[s] + 1 ELSE f[r]
          BY <3>3, <5>1, <5>2, SMTT(30)
        <5> QED
          BY <5>3
      <4>4. Abstract!Give(s)
        BY <3>1, <4>2, <4>3 DEF Abstract!Give
      <4> QED
        BY <4>4 DEF Abstract!Next
    <3> QED
      BY <3>2, <3>3
  <2> HIDE DEF f
  <2> QED
    BY <1>2, <2>1, <2>2, <2>3, <2>4, <2>5, <2>6, <2>7, <2>8, <2>9
       DEF Next, SemaphoreStep
<1> QED
  BY Invariance, <1>1, <1>2, PTL DEF Spec, Refines, Abstract!Spec
=============================================================================
