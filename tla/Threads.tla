------------------------------ MODULE Threads ------------------------------
(***************************************************************************)
(* Threads, the scheduler and the sleep queue of the KUDOS kernel on a     *)
(* machine with several processors (kernel/thread.c, kernel/scheduler.c,   *)
(* kernel/sleepq.c and the part of interrupt_handle that calls them).      *)
(*                                                                         *)
(* The lists are the intrusive lists of the code.  A row of thread_table   *)
(* has ONE field `next', used both by the ready list (under                *)
(* thread_table_slock) and by the sleep chains (under sleepq_slock), so    *)
(* the two families of lists are correct only as long as no thread is ever *)
(* on two of them.  The history variables rq and cq hold the sequences the *)
(* pointer structures are meant to stand for; no action reads them.        *)
(*                                                                         *)
(* Grain of atomicity.  A section under thread_table_slock takes no other  *)
(* lock and is one step.  A section under sleepq_slock is one step per     *)
(* iteration of its loop, because the ready list changes meanwhile.  What  *)
(* the code does outside the locks (the fields thread_create fills in      *)
(* after the release, the first two writes of sleepq_add, the write of     *)
(* scheduler_current_thread after the release) is a step of its own.       *)
(***************************************************************************)
EXTENDS Integers, Sequences

CONSTANTS
  MaxThreads,   \* CONFIG_MAX_THREADS
  CPUs,         \* the processors
  Resources,    \* addresses a thread may sleep on
  HashSize      \* SLEEPQ_HASHTABLE_SIZE

ASSUME MaxThreadsAssumption == MaxThreads \in Nat /\ MaxThreads >= 2
ASSUME HashSizeAssumption == HashSize \in Nat \ {0}
ASSUME ResourcesAssumption == Resources \subseteq Nat \ {0}
ASSUME CPUsAssumption == "nobody" \notin CPUs

TIDs == 0 .. MaxThreads - 1
IDLE == 0                        \* IDLE_THREAD_TID
NONE == -1                       \* the nil thread id
NonIdle == TIDs \ {IDLE}
Buckets == 0 .. HashSize - 1
Hash(r) == r % HashSize          \* SLEEPQ_HASH

VARIABLES
  state, sleeps_on, next,  \* the fields of thread_table
  next_tid,                \* static next_tid of thread_create
  head, tail,              \* scheduler_ready_to_run
  hashtable,               \* sleepq_hashtable
  sleepq_slock,            \* its holder, "nobody" when free
  current,                 \* scheduler_current_thread
  pc,                      \* what each processor is executing
  res, all, prev, first, wake, back,  \* locals of the sleep queue routines
  chosen,                  \* local t of scheduler_schedule
  tpc, child,              \* progress of each thread in thread_create/_run
  rq, cq                   \* history: the ready list and the sleep chains

table == <<state, sleeps_on, next>>
ready == <<head, tail, rq>>
sleepq == <<hashtable, sleepq_slock, cq>>
locals == <<res, all, prev, first, wake, back>>
creation == <<next_tid, tpc, child>>
vars == <<table, ready, sleepq, current, pc, locals, chosen, creation>>

(***************************************************************************)
(* The processor is                                                        *)
(*   run       executing its current thread, interrupts enabled            *)
(*   yield     past _interrupt_enable in thread_switch or thread_finish,   *)
(*             so that only an interrupt can come next                     *)
(*   add/walk  in sleepq_add, before / after taking sleepq_slock           *)
(*   wake/find/ready  in sleepq_wake or sleepq_wake_all: before taking     *)
(*             sleepq_slock, searching, and holding an unlinked thread     *)
(*   idle_irq  in interrupt_handle, past the device handlers, with the     *)
(*             idle thread current                                         *)
(*   switch    in scheduler_schedule, past the release of the lock         *)
(***************************************************************************)
PCs == {"run", "yield", "add", "walk", "wake", "find", "ready",
        "idle_irq", "switch"}
States == {"FREE", "NONREADY", "READY", "RUNNING", "SLEEPING", "DYING"}

(* The state at the end of init(): the startup thread has been created and *)
(* put on the ready list, every processor is about to reschedule.          *)
Init ==
  /\ state = [t \in TIDs |-> IF t \in {IDLE, 1} THEN "READY" ELSE "FREE"]
  /\ sleeps_on = [t \in TIDs |-> 0]
  /\ next = [t \in TIDs |-> NONE]
  /\ next_tid = 2 % MaxThreads
  /\ head = 1 /\ tail = 1 /\ rq = <<1>>
  /\ hashtable = [h \in Buckets |-> NONE]
  /\ cq = [h \in Buckets |-> <<>>]
  /\ sleepq_slock = "nobody"
  /\ current = [c \in CPUs |-> IDLE]
  /\ pc = [c \in CPUs |-> "yield"]
  /\ res = [c \in CPUs |-> 0]
  /\ all = [c \in CPUs |-> FALSE]
  /\ prev = [c \in CPUs |-> NONE]
  /\ first = [c \in CPUs |-> NONE]
  /\ wake = [c \in CPUs |-> NONE]
  /\ back = [c \in CPUs |-> "run"]
  /\ chosen = [c \in CPUs |-> NONE]
  /\ tpc = [t \in TIDs |-> "user"]
  /\ child = [t \in TIDs |-> NONE]

-----------------------------------------------------------------------------
(* The ready list: a record of the two ends and of the links.              *)

(* Mutant: a thread is put in front of the list instead of at its end.     *)
AddToReadyListFront(l, t) ==
  [head |-> t, tail |-> IF l.tail < 0 THEN t ELSE l.tail,
   next |-> [l.next EXCEPT ![t] = l.head]]

scheduler_add_to_ready_list(l, t) ==
  IF l.tail < 0
    THEN [head |-> t, tail |-> t, next |-> [l.next EXCEPT ![t] = NONE]]
    ELSE [head |-> l.head, tail |-> t,
          next |-> [l.next EXCEPT ![l.tail] = t, ![t] = NONE]]

(* Mutant: the tail is left alone when the last thread is removed. *)
RemoveFirstReadyKeepTail(l) ==
  IF l.head < 0 THEN l ELSE [l EXCEPT !.head = l.next[l.head]]

(* scheduler_remove_first_ready: the thread it returns, and what it leaves *)
FirstReady(l) == IF l.head < 0 THEN IDLE ELSE l.head
RemoveFirstReady(l) ==
  IF l.head < 0 THEN l
  ELSE [head |-> l.next[l.head],
        tail |-> IF l.tail = l.head THEN NONE ELSE l.tail,
        next |-> l.next]

ReadyList == [head |-> head, tail |-> tail, next |-> next]

SetReadyList(l) == head' = l.head /\ tail' = l.tail /\ next' = l.next

-----------------------------------------------------------------------------
(* scheduler_schedule.  It is entered from interrupt_handle: on the timer  *)
(* interrupt or a requested switch, which can be taken wherever interrupts *)
(* are enabled, and after any interrupt that finds the idle thread.        *)

(* Mutant: a thread that waits for a resource is put on the ready list too. *)
RequeuedAsleep(t) == state[t] # "DYING"

Requeued(t) == state[t] # "DYING" /\ sleeps_on[t] = 0

scheduler_schedule(c) ==
  LET me == current[c]
      requeue == Requeued(me) /\ me # IDLE
      l == IF requeue THEN scheduler_add_to_ready_list(ReadyList, me)
                      ELSE ReadyList
      q == IF requeue THEN Append(rq, me) ELSE rq
      old == IF state[me] = "DYING" THEN "FREE"
             ELSE IF sleeps_on[me] # 0 THEN "SLEEPING" ELSE "READY"
  IN /\ pc[c] \in {"run", "yield", "idle_irq"}
     /\ SetReadyList(RemoveFirstReady(l))
     /\ state' = [state EXCEPT ![me] = old, ![FirstReady(l)] = "RUNNING"]
     /\ chosen' = [chosen EXCEPT ![c] = FirstReady(l)]
     /\ pc' = [pc EXCEPT ![c] = "switch"]
     /\ rq' = IF Len(q) = 0 THEN q ELSE Tail(q)
     /\ UNCHANGED <<sleeps_on, sleepq, current, locals, creation>>

(* Its write of scheduler_current_thread, after the lock is released, and  *)
(* the return from the interrupt into the new thread.                      *)
SetCurrent(c) ==
  /\ pc[c] = "switch"
  /\ current' = [current EXCEPT ![c] = chosen[c]]
  /\ chosen' = [chosen EXCEPT ![c] = NONE]
  /\ pc' = [pc EXCEPT ![c] = "run"]
  /\ UNCHANGED <<table, ready, sleepq, locals, creation>>

-----------------------------------------------------------------------------
(* Thread operations, called by the current thread.                        *)

Calls(c) == pc[c] = "run" /\ current[c] # IDLE

FreeSlots == {t \in NonIdle : state[t] = "FREE"}
Distance(t) == (t + MaxThreads - next_tid) % MaxThreads

(* thread_create up to the release of the lock.  With no free slot it      *)
(* returns -1 and changes nothing.                                         *)
thread_create(c) ==
  LET me == current[c] IN
  /\ Calls(c) /\ tpc[me] = "user"
  /\ \E t \in FreeSlots :
       /\ \A u \in FreeSlots : Distance(t) <= Distance(u)
       /\ state' = [state EXCEPT ![t] = "NONREADY"]
       /\ next_tid' = (t + 1) % MaxThreads
       /\ child' = [child EXCEPT ![me] = t]
  /\ tpc' = [tpc EXCEPT ![me] = "init"]
  /\ UNCHANGED <<sleeps_on, next, ready, sleepq, current, pc, locals, chosen>>

(* The rest of thread_create: it fills in the new row without the lock.    *)
InitThread(c) ==
  LET me == current[c]
      t == child[me]
  IN /\ Calls(c) /\ tpc[me] = "init"
     /\ sleeps_on' = [sleeps_on EXCEPT ![t] = 0]
     /\ next' = [next EXCEPT ![t] = NONE]
     /\ tpc' = [tpc EXCEPT ![me] = "start"]
     /\ UNCHANGED <<state, ready, sleepq, current, pc, locals, chosen,
                    next_tid, child>>

(* thread_run, that is scheduler_add_ready.                                *)
thread_run(c) ==
  LET me == current[c]
      t == child[me]
  IN /\ Calls(c) /\ tpc[me] = "start"
     /\ SetReadyList(scheduler_add_to_ready_list(ReadyList, t))
     /\ rq' = Append(rq, t)
     /\ state' = [state EXCEPT ![t] = "READY"]
     /\ tpc' = [tpc EXCEPT ![me] = "user"]
     /\ child' = [child EXCEPT ![me] = NONE]
     /\ UNCHANGED <<sleeps_on, sleepq, current, pc, locals, chosen, next_tid>>

thread_switch(c) ==
  /\ Calls(c) /\ tpc[current[c]] = "user"
  /\ pc' = [pc EXCEPT ![c] = "yield"]
  /\ UNCHANGED <<table, ready, sleepq, current, locals, chosen, creation>>

(* Mutant: the slot is freed while the thread still runs on its stack.     *)
ThreadFinishFree(c) ==
  /\ Calls(c) /\ tpc[current[c]] = "user"
  /\ state' = [state EXCEPT ![current[c]] = "FREE"]
  /\ pc' = [pc EXCEPT ![c] = "yield"]
  /\ UNCHANGED <<sleeps_on, next, ready, sleepq, current, locals, chosen,
                 creation>>

thread_finish(c) ==
  /\ Calls(c) /\ tpc[current[c]] = "user"
  /\ state' = [state EXCEPT ![current[c]] = "DYING"]
  /\ pc' = [pc EXCEPT ![c] = "yield"]
  /\ UNCHANGED <<sleeps_on, next, ready, sleepq, current, locals, chosen,
                 creation>>

-----------------------------------------------------------------------------
(* sleepq_add.  Its callers disable interrupts first, release their own    *)
(* lock when it returns and call thread_switch, so its last step ends at   *)
(* "yield".                                                                *)

(* Mutant: the next field keeps what an earlier list left in it.           *)
SleepqAddStaleNext(c, r) ==
  /\ Calls(c) /\ tpc[current[c]] = "user"
  /\ sleeps_on' = [sleeps_on EXCEPT ![current[c]] = r]
  /\ res' = [res EXCEPT ![c] = r]
  /\ pc' = [pc EXCEPT ![c] = "add"]
  /\ UNCHANGED <<state, next, ready, sleepq, current, all, prev, first, wake,
                 back, chosen, creation>>

sleepq_add(c, r) ==
  LET me == current[c] IN
  /\ Calls(c) /\ tpc[me] = "user"
  /\ next' = [next EXCEPT ![me] = NONE]
  /\ sleeps_on' = [sleeps_on EXCEPT ![me] = r]
  /\ res' = [res EXCEPT ![c] = r]
  /\ pc' = [pc EXCEPT ![c] = "add"]
  /\ UNCHANGED <<state, ready, sleepq, current, all, prev, first, wake, back,
                 chosen, creation>>

(* Mutant: the newest waiter is linked in front of the chain.              *)
AddLockFront(c) ==
  LET h == Hash(res[c]) IN
  /\ pc[c] = "add" /\ sleepq_slock = "nobody"
  /\ next' = [next EXCEPT ![current[c]] = hashtable[h]]
  /\ hashtable' = [hashtable EXCEPT ![h] = current[c]]
  /\ cq' = [cq EXCEPT ![h] = Append(@, current[c])]
  /\ res' = [res EXCEPT ![c] = 0]
  /\ pc' = [pc EXCEPT ![c] = "yield"]
  /\ UNCHANGED <<state, sleeps_on, ready, sleepq_slock, current, all, prev,
                 first, wake, back, chosen, creation>>

(* Under sleepq_slock: an empty chain is done at once, otherwise the walk  *)
(* to its end starts.                                                      *)
AddLock(c) ==
  LET h == Hash(res[c]) IN
  /\ pc[c] = "add" /\ sleepq_slock = "nobody"
  /\ IF hashtable[h] <= 0
       THEN /\ hashtable' = [hashtable EXCEPT ![h] = current[c]]
            /\ cq' = [cq EXCEPT ![h] = Append(@, current[c])]
            /\ res' = [res EXCEPT ![c] = 0]
            /\ pc' = [pc EXCEPT ![c] = "yield"]
            /\ UNCHANGED <<sleepq_slock, prev>>
       ELSE /\ sleepq_slock' = c
            /\ prev' = [prev EXCEPT ![c] = hashtable[h]]
            /\ pc' = [pc EXCEPT ![c] = "walk"]
            /\ UNCHANGED <<hashtable, cq, res>>
  /\ UNCHANGED <<table, ready, current, all, first, wake, back, chosen,
                 creation>>

AddWalk(c) ==
  /\ pc[c] = "walk" /\ next[prev[c]] > 0
  /\ prev' = [prev EXCEPT ![c] = next[prev[c]]]
  /\ UNCHANGED <<table, ready, sleepq, current, pc, res, all, first, wake,
                 back, chosen, creation>>

AddLink(c) ==
  LET h == Hash(res[c]) IN
  /\ pc[c] = "walk" /\ next[prev[c]] <= 0
  /\ next' = [next EXCEPT ![prev[c]] = current[c]]
  /\ cq' = [cq EXCEPT ![h] = Append(@, current[c])]
  /\ sleepq_slock' = "nobody"
  /\ prev' = [prev EXCEPT ![c] = NONE]
  /\ res' = [res EXCEPT ![c] = 0]
  /\ pc' = [pc EXCEPT ![c] = "yield"]
  /\ UNCHANGED <<state, sleeps_on, ready, hashtable, current, all, first,
                 wake, back, chosen, creation>>

-----------------------------------------------------------------------------
(* sleepq_wake (a = FALSE) and sleepq_wake_all (a = TRUE).  They are       *)
(* called by a thread, or by a device's interrupt handler wherever         *)
(* interrupts are enabled, over the idle thread too.                       *)

sleepq_wake(c, r, a) ==
  /\ pc[c] \in {"run", "yield"}
  /\ res' = [res EXCEPT ![c] = r]
  /\ all' = [all EXCEPT ![c] = a]
  /\ back' = [back EXCEPT ![c] = pc[c]]
  /\ pc' = [pc EXCEPT ![c] = "wake"]
  /\ UNCHANGED <<table, ready, sleepq, current, prev, first, wake, chosen,
                 creation>>

WakeLock(c) ==
  /\ pc[c] = "wake" /\ sleepq_slock = "nobody"
  /\ sleepq_slock' = c
  /\ prev' = [prev EXCEPT ![c] = NONE]
  /\ first' = [first EXCEPT ![c] = hashtable[Hash(res[c])]]
  /\ pc' = [pc EXCEPT ![c] = "find"]
  /\ UNCHANGED <<table, ready, hashtable, cq, current, res, all, wake, back,
                 chosen, creation>>

WakeSkip(c) ==
  /\ pc[c] = "find" /\ first[c] > 0
  /\ sleeps_on[first[c]] # res[c]
  /\ prev' = [prev EXCEPT ![c] = first[c]]
  /\ first' = [first EXCEPT ![c] = next[first[c]]]
  /\ UNCHANGED <<table, ready, sleepq, current, pc, res, all, wake, back,
                 chosen, creation>>

(* History: the sequence s without the thread t.                           *)
Unchain(s, t) ==
  LET k == CHOOSE i \in 1 .. Len(s) : s[i] = t
  IN [i \in 1 .. Len(s) - 1 |-> IF i < k THEN s[i] ELSE s[i + 1]]

WakeUnlink(c) ==
  LET h == Hash(res[c])
      t == first[c]
  IN /\ pc[c] = "find" /\ t > 0
     /\ sleeps_on[t] = res[c]
     /\ IF prev[c] <= 0
          THEN /\ hashtable' = [hashtable EXCEPT ![h] = next[t]]
               /\ UNCHANGED next
          ELSE /\ next' = [next EXCEPT ![prev[c]] = next[t]]
               /\ UNCHANGED hashtable
     /\ cq' = [cq EXCEPT ![h] = Unchain(@, t)]
     /\ wake' = [wake EXCEPT ![c] = t]
     /\ first' = [first EXCEPT ![c] = next[t]]
     /\ pc' = [pc EXCEPT ![c] = "ready"]
     /\ UNCHANGED <<state, sleeps_on, ready, sleepq_slock, current, res, all,
                    prev, back, chosen, creation>>

(* Mutant: a thread that is not yet SLEEPING is left as it is, so that the *)
(* wake it should have had is lost.                                        *)
WakeReadyLost(c) ==
  LET t == wake[c] IN
  /\ pc[c] = "ready"
  /\ IF state[t] = "SLEEPING"
       THEN /\ sleeps_on' = [sleeps_on EXCEPT ![t] = 0]
            /\ state' = [state EXCEPT ![t] = "READY"]
            /\ SetReadyList(scheduler_add_to_ready_list(ReadyList, t))
            /\ rq' = Append(rq, t)
       ELSE UNCHANGED <<table, ready>>
  /\ wake' = [wake EXCEPT ![c] = NONE]
  /\ first' = [first EXCEPT ![c] = IF all[c] THEN @ ELSE NONE]
  /\ pc' = [pc EXCEPT ![c] = "find"]
  /\ UNCHANGED <<sleepq, current, res, all, prev, back, chosen, creation>>

(* The section under thread_table_slock.  sleepq_wake is then done;        *)
(* sleepq_wake_all goes on with the rest of the chain.                     *)
WakeReady(c) ==
  LET t == wake[c]
      l == [head |-> head, tail |-> tail, next |-> [next EXCEPT ![t] = NONE]]
  IN /\ pc[c] = "ready"
     /\ sleeps_on' = [sleeps_on EXCEPT ![t] = 0]
     /\ IF state[t] = "SLEEPING"
          THEN /\ state' = [state EXCEPT ![t] = "READY"]
               /\ SetReadyList(scheduler_add_to_ready_list(l, t))
               /\ rq' = Append(rq, t)
          ELSE SetReadyList(l) /\ UNCHANGED <<state, rq>>
     /\ wake' = [wake EXCEPT ![c] = NONE]
     /\ first' = [first EXCEPT ![c] = IF all[c] THEN @ ELSE NONE]
     /\ pc' = [pc EXCEPT ![c] = "find"]
     /\ UNCHANGED <<sleepq, current, res, all, prev, back, chosen, creation>>

(* Nothing (more) to wake: release the lock and return.  An interrupt      *)
(* handler returns into interrupt_handle, which reschedules if the idle    *)
(* thread is current.                                                      *)
WakeDone(c) ==
  /\ pc[c] = "find" /\ first[c] <= 0
  /\ sleepq_slock' = "nobody"
  /\ prev' = [prev EXCEPT ![c] = NONE]
  /\ res' = [res EXCEPT ![c] = 0]
  /\ all' = [all EXCEPT ![c] = FALSE]
  /\ back' = [back EXCEPT ![c] = "run"]
  /\ pc' = [pc EXCEPT ![c] = IF current[c] = IDLE THEN "idle_irq" ELSE back[c]]
  /\ UNCHANGED <<table, ready, hashtable, cq, current, first, wake, chosen,
                 creation>>

-----------------------------------------------------------------------------
(* What a processor does inside a kernel routine with interrupts disabled. *)
KernelStep(c) ==
  \/ SetCurrent(c)
  \/ AddLock(c) \/ AddWalk(c) \/ AddLink(c)
  \/ WakeLock(c) \/ WakeSkip(c) \/ WakeUnlink(c) \/ WakeReady(c) \/ WakeDone(c)

Next ==
  \E c \in CPUs :
    \/ scheduler_schedule(c)
    \/ KernelStep(c)
    \/ thread_create(c) \/ InitThread(c) \/ thread_run(c)
    \/ thread_switch(c) \/ thread_finish(c)
    \/ \E r \in Resources : sleepq_add(c, r)
    \/ \E r \in Resources, a \in BOOLEAN : sleepq_wake(c, r, a)

(* A processor inside the kernel goes on (a spinlock it waits for may      *)
(* still be taken by another one first).  The timer and software           *)
(* interrupts stay pending until they are taken, and the processor takes   *)
(* them before the next instruction once interrupts are enabled: a         *)
(* processor that is again and again interruptible is again and again      *)
(* rescheduled.                                                            *)
Fairness ==
  \A c \in CPUs : WF_vars(KernelStep(c)) /\ SF_vars(scheduler_schedule(c))

Spec == Init /\ [][Next]_vars
FairSpec == Spec /\ Fairness

-----------------------------------------------------------------------------
(* The variables of thread.c, scheduler.c and sleepq.c hold values of    *)
(* their types: in particular no routine runs a thread NONE.             *)
TypeOK ==
  /\ state \in [TIDs -> States]
  /\ sleeps_on \in [TIDs -> Resources \cup {0}]
  /\ next \in [TIDs -> TIDs \cup {NONE}]
  /\ next_tid \in TIDs
  /\ head \in TIDs \cup {NONE} /\ tail \in TIDs \cup {NONE}
  /\ hashtable \in [Buckets -> TIDs \cup {NONE}]
  /\ sleepq_slock \in CPUs \cup {"nobody"}
  /\ current \in [CPUs -> TIDs]
  /\ pc \in [CPUs -> PCs]
  /\ res \in [CPUs -> Resources \cup {0}]
  /\ all \in [CPUs -> BOOLEAN]
  /\ prev \in [CPUs -> TIDs \cup {NONE}]
  /\ first \in [CPUs -> TIDs \cup {NONE}]
  /\ wake \in [CPUs -> TIDs \cup {NONE}]
  /\ back \in [CPUs -> {"run", "yield"}]
  /\ chosen \in [CPUs -> TIDs \cup {NONE}]
  /\ tpc \in [TIDs -> {"user", "init", "start"}]
  /\ child \in [TIDs -> TIDs \cup {NONE}]
  /\ rq \in Seq(TIDs)
  /\ cq \in [Buckets -> Seq(TIDs)]

(* The thread a processor is running, or has committed itself to running.  *)
Running(c) == IF pc[c] = "switch" THEN chosen[c] ELSE current[c]

Elems(s) == {s[i] : i \in 1 .. Len(s)}
Distinct(s) == \A i, j \in 1 .. Len(s) : s[i] = s[j] => i = j
LinkedBy(nx, s) ==
  \A i \in 1 .. Len(s) : nx[s[i]] = IF i < Len(s) THEN s[i + 1] ELSE NONE
Represents(l, s) ==
  /\ Distinct(s) /\ LinkedBy(l.next, s)
  /\ l.head = IF Len(s) = 0 THEN NONE ELSE s[1]
  /\ l.tail = IF Len(s) = 0 THEN NONE ELSE s[Len(s)]

(* The head, tail and next fields of the ready list always describe a      *)
(* duplicate-free finite queue, whatever the other processors are doing to *)
(* the sleep chains through the same next fields (scheduler.c).            *)
ReadyListIsQueue == Represents(ReadyList, rq)

(* Every sleep chain is a duplicate-free finite queue as well, and holds   *)
(* only threads whose sleeps_on hashes to that chain (sleepq.c).           *)
SleepChainsAreQueues ==
  \A h \in Buckets :
    /\ Distinct(cq[h]) /\ LinkedBy(next, cq[h])
    /\ hashtable[h] = IF Len(cq[h]) = 0 THEN NONE ELSE cq[h][1]
    /\ \A t \in Elems(cq[h]) : sleeps_on[t] # 0 /\ Hash(sleeps_on[t]) = h

(* A thread executes on at most one processor at a time; the idle thread   *)
(* is the one exception, being the idle loop of all of them.               *)
RunsOnOneCPU ==
  \A c, d \in CPUs : Running(c) = Running(d) /\ Running(c) # IDLE => c = d

(* The state field of a thread says where it is: READY exactly when it is  *)
(* on the ready list, RUNNING or DYING exactly when a processor has it.    *)
(* The idle thread is never on the ready list (the asserts of              *)
(* scheduler_add_to_ready_list and scheduler_remove_first_ready).          *)
StateSaysWhere ==
  /\ IDLE \notin Elems(rq)
  /\ \A t \in NonIdle :
       /\ t \in Elems(rq) <=> state[t] = "READY"
       /\ (\E c \in CPUs : Running(c) = t) <=> state[t] \in {"RUNNING", "DYING"}

(* A thread that is waiting for a resource can be found by a waker: it is  *)
(* in a chain, or already unlinked by the waker that will make it ready,   *)
(* or still on its own processor inside sleepq_add.  A SLEEPING thread is  *)
(* never in the last case, so it is never lost.                            *)
BeingAdded(t) == \E c \in CPUs : pc[c] \in {"add", "walk"} /\ current[c] = t
BeingWoken(t) == \E c \in CPUs : pc[c] = "ready" /\ wake[c] = t
InSomeChain(t) == \E h \in Buckets : t \in Elems(cq[h])

NoSleeperLost ==
  \A t \in TIDs :
    /\ sleeps_on[t] # 0 => InSomeChain(t) \/ BeingWoken(t) \/ BeingAdded(t)
    /\ state[t] = "SLEEPING" =>
         /\ sleeps_on[t] # 0
         /\ InSomeChain(t) \/ BeingWoken(t)

(* What a step may do to the state of a thread: a slot is reused only      *)
(* after the scheduler has seen its thread dying, a sleeper becomes ready  *)
(* only by a wake, and only the scheduler makes a thread run.              *)
Transitions ==
  {<<"FREE", "NONREADY">>, <<"NONREADY", "READY">>, <<"READY", "RUNNING">>,
   <<"RUNNING", "READY">>, <<"RUNNING", "SLEEPING">>, <<"SLEEPING", "READY">>,
   <<"RUNNING", "DYING">>, <<"DYING", "FREE">>}
LifeCycleStep ==
  \A t \in NonIdle : state'[t] # state[t] => <<state[t], state'[t]>> \in Transitions
LifeCycle == [][LifeCycleStep]_vars

(* A wake takes the thread that has waited longest for that very resource: *)
(* a thread leaves a chain only when no thread before it in the chain      *)
(* waits for the same resource, although other resources share the chain.  *)
WakeOrderStep ==
  \A h \in Buckets : \A i \in 1 .. Len(cq[h]) :
    cq[h][i] \notin Elems(cq'[h]) =>
      \A j \in 1 .. i - 1 : sleeps_on[cq[h][j]] # sleeps_on[cq[h][i]]
WakesLongestWaiting == [][WakeOrderStep]_vars

(* Round robin: a ready thread is eventually run.                          *)
ReadyRuns == \A t \in NonIdle : state[t] = "READY" ~> state[t] = "RUNNING"

(* A wake is never lost: a thread that a waker has unlinked eventually runs *)
(* and waits for nothing, whether the wake found it asleep or still on its  *)
(* own processor between sleepq_add and the scheduler.                      *)
WokenRuns ==
  \A t \in NonIdle :
    BeingWoken(t) ~> (state[t] = "RUNNING" /\ sleeps_on[t] = 0)

-----------------------------------------------------------------------------
(* The rest of the inductive invariant: what holds at each point of the    *)
(* routines for the processor that executes them.                          *)

(* sleepq_slock is held exactly inside the locked sections.                *)
LockHeld ==
  \A c \in CPUs : pc[c] \in {"walk", "find", "ready"} <=> sleepq_slock = c

(* A processor whose thread executes, or is only interrupted.              *)
Executing(c) ==
  \/ pc[c] = "run"
  \/ pc[c] \in {"wake", "find", "ready"} /\ back[c] = "run"

CurrentFacts ==
  \A c \in CPUs :
    /\ pc[c] = "idle_irq" => current[c] = IDLE
    /\ pc[c] = "switch" => chosen[c] \in TIDs
    /\ pc[c] = "switch" \/ Executing(c) =>
         /\ sleeps_on[Running(c)] = 0
         /\ Running(c) # IDLE => state[Running(c)] = "RUNNING"

SleepFacts ==
  /\ sleeps_on[IDLE] = 0 /\ state[IDLE] \in {"READY", "RUNNING"}
  /\ \A t \in TIDs : sleeps_on[t] # 0 => state[t] \in {"RUNNING", "SLEEPING"}

AddFacts ==
  \A c \in CPUs : pc[c] \in {"add", "walk"} =>
    /\ res[c] \in Resources /\ sleeps_on[current[c]] = res[c]
    /\ state[current[c]] = "RUNNING" /\ next[current[c]] = NONE
    /\ ~ InSomeChain(current[c])
    /\ pc[c] = "walk" => prev[c] \in Elems(cq[Hash(res[c])])

(* The search stands at the k-th thread of the chain, with no thread       *)
(* waiting for the resource before it.                                     *)
At(c, k) ==
  LET q == cq[Hash(res[c])] IN
  /\ first[c] = q[k]
  /\ prev[c] = IF k = 1 THEN NONE ELSE q[k - 1]
  /\ \A j \in 1 .. k - 1 : sleeps_on[q[j]] # res[c]

FindFacts ==
  \A c \in CPUs :
    /\ pc[c] \in {"wake", "find", "ready"} => res[c] \in Resources
    /\ pc[c] \in {"find", "ready"} /\ first[c] # NONE =>
         \E k \in 1 .. Len(cq[Hash(res[c])]) : At(c, k)

WokenFacts ==
  \A c \in CPUs : pc[c] = "ready" =>
    /\ wake[c] \in NonIdle /\ sleeps_on[wake[c]] # 0
    /\ ~ InSomeChain(wake[c]) /\ ~ BeingAdded(wake[c])

CreateFacts ==
  \A t \in TIDs : tpc[t] # "user" =>
    /\ child[t] \in NonIdle /\ state[child[t]] = "NONREADY"
    /\ \A u \in TIDs : tpc[u] # "user" /\ child[u] = child[t] => u = t

(* The inductive invariant: every list is what it should be, every thread  *)
(* is where its state says, and the processors inside the sleep queue      *)
(* routines (sleepq.c) see the lists they are working on.                  *)
IInv ==
  /\ TypeOK
  /\ ReadyListIsQueue /\ SleepChainsAreQueues
  /\ RunsOnOneCPU /\ StateSaysWhere /\ NoSleeperLost
  /\ LockHeld /\ CurrentFacts /\ SleepFacts /\ AddFacts /\ FindFacts
  /\ WokenFacts /\ CreateFacts
=============================================================================
